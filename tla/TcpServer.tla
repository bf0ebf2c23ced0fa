------------------------------ MODULE TcpServer ------------------------------
(***************************************************************************)
(* The life of a connection in the thread version: TcpServer accepts it on *)
(* the accept loop and hands it to a worker loop, TcpConnection serves it  *)
(* there, HttpServer keeps a session for it, and the accept loop removes   *)
(* it again.  (tcpserver.cc, tcpconnection.cc, scheduler.cc, httpserver.cc *)
(* and the end of a request in httpsession.cc.)                            *)
(*                                                                         *)
(* The loops are the task queues that EventLoop implements.  A loop takes  *)
(* its events, tasks and timers one callback at a time; the order of the   *)
(* phases of a pass is left open.  A step of a worker ends where it has    *)
(* done something that another thread sees.                                *)
(*                                                                         *)
(* TcpConnection objects are reference counted.  Refd says which of the    *)
(* counted references there are; the callbacks bound to an Event or a      *)
(* Timer hold a bare pointer, and so does a worker on its way back through *)
(* HandleEvent.  Where a worker uses what was freed, or the position of a  *)
(* timer that was never set, the program may go on with the old memory or  *)
(* may do anything: then broken is set, and the model ends.  Calls of Send *)
(* and ForceClose from threads other than the connection's loop, and the   *)
(* end of the server, are not modelled.                                    *)
(***************************************************************************)
EXTENDS Naturals, Sequences, FiniteSets, Functions

CONSTANTS
  Conn,         \* the connections that clients may make
  NoConn,
  Workers,      \* threadcnt_
  MaxRequests,  \* bound: requests that a client sends, for each connection
  MaxParts      \* bound: the parts of a response that one write may send

ASSUME WorkersAssumption == Workers \in Nat \ {0}
ASSUME NoConnAssumption == NoConn \notin Conn
ASSUME BoundsAssumption == MaxRequests \in [Conn -> Nat] /\ MaxParts \in Nat \ {0}

Worker == 0..(Workers - 1)

VARIABLES
  next,       \* next_ of the Scheduler
  living,     \* living_connections_
  removals,   \* the removeConnectionInLoop tasks of the accept loop
  worker,     \* ownerloop_ of each connection
  tasks,      \* the connectEstablished tasks of each worker loop
  state,      \* connect_state_; "none" before the client connects
  polled,     \* the connections whose event is in the poller
  interest,   \* events_ of the connection's event
  timer,      \* timeout_timer_: none, armed, due, or lost by the timing wheel
  out,        \* send_datas_: the parts that remain of each response
  sessions,   \* the connections that httpsessions_ holds
  missed,     \* history: the connections that handleDisconnected did not find
  lock,       \* the worker that holds lock_ of the HttpServer
  at,         \* the callback a worker is in: how far, for which connection
  loop,       \* of a worker: the requests of its read that are left, the call
              \* that handleClose returns to, and whether last_rotate_time_
              \* lies further back than the timing wheel reaches
  broken,     \* undefined behaviour has set in
  client      \* the client: requests sent, unread ones, connection open

tcpVars    == <<living, removals, worker, tasks>>
connVars   == <<state, polled, interest, timer>>
serverVars == <<sessions, missed, lock>>
loopVars   == <<loop, broken>>
vars == <<next, living, removals, worker, tasks, state, polled, interest, timer,
          out, sessions, missed, lock, at, loop, broken, client>>

Place == {"idle", "insert", "inserting", "reading", "find", "erase", "erasing",
          "notify", "closing", "returning"}
Idle  == [place |-> "idle", conn |-> NoConn]

TypeOK ==
  /\ next \in Worker
  /\ living \subseteq Conn
  /\ removals \in Seq(Conn)
  /\ worker \in [Conn -> Worker]
  /\ tasks \in [Worker -> Seq(Conn)]
  /\ state \in [Conn -> {"none", "INIT", "CONNECT", "CLOSED"}]
  /\ polled \subseteq Conn
  /\ interest \in [Conn -> SUBSET {"read", "write"}]
  /\ timer \in [Conn -> {"none", "armed", "due", "lost"}]
  /\ out \in [Conn -> Seq(1..MaxParts)]
  /\ sessions \subseteq Conn
  /\ missed \subseteq Conn
  /\ lock \in Worker \cup {Workers}
  /\ at \in [Worker -> [place : Place, conn : Conn \cup {NoConn}]]
  /\ loop \in [Worker -> [left : Nat, stale : BOOLEAN,
                           from : {"read", "message", "parser", "timer"}]]
  /\ broken \in BOOLEAN
  /\ client \in [Conn -> [sent : Nat, unread : Nat, open : BOOLEAN]]

NoWorker == Workers

Init ==
  /\ next = 0
  /\ living = {}
  /\ removals = <<>>
  /\ worker = [c \in Conn |-> 0]
  /\ tasks = [w \in Worker |-> <<>>]
  /\ state = [c \in Conn |-> "none"]
  /\ polled = {}
  /\ interest = [c \in Conn |-> {}]
  /\ timer = [c \in Conn |-> "none"]
  /\ out = [c \in Conn |-> <<>>]
  /\ sessions = {}
  /\ missed = {}
  /\ lock = NoWorker
  /\ at = [w \in Worker |-> Idle]
  /\ loop = [w \in Worker |-> [left |-> 0, stale |-> FALSE, from |-> "read"]]
  /\ broken = FALSE
  /\ client = [c \in Conn |-> [sent |-> 0, unread |-> 0, open |-> TRUE]]

\* Worker w is done with the callback it was in, or goes on with it.
Done(w) == at' = [at EXCEPT ![w] = Idle]
GoOn(w, place, c) == at' = [at EXCEPT ![w] = [place |-> place, conn |-> c]]
In(w, place) == at[w].place = place

\* Whether a connection still has a counted reference: in one of the maps, in
\* a queued task, or in an argument of a callback a worker is in.
Refd(c) ==
  \/ c \in living \cup sessions \cup Range(removals)
  \/ \E w \in Worker : c \in Range(tasks[w])
  \/ \E w \in Worker : at[w].conn = c /\ ~In(w, "returning")

Destroyed(c) == state[c] # "none" /\ ~Refd(c)

-----------------------------------------------------------------------------
(* The accept loop.                                                        *)

\* handleAccept, with GetNextLoop.
HandleAccept(c) ==
  LET w == (next + 1) % Workers IN
  /\ state[c] = "none"
  /\ next' = w
  /\ worker' = [worker EXCEPT ![c] = w]
  /\ state' = [state EXCEPT ![c] = "INIT"]
  /\ living' = living \cup {c}
  /\ tasks' = [tasks EXCEPT ![w] = Append(@, c)]
  /\ UNCHANGED <<removals, polled, interest, timer, out, at, client>>
  /\ UNCHANGED <<serverVars, loopVars>>

\* Fault: the connection stays in the map.
ForgetRemoval ==
  /\ removals # <<>>
  /\ removals' = Tail(removals)
  /\ UNCHANGED <<next, living, worker, tasks, out, at, client>>
  /\ UNCHANGED <<connVars, serverVars, loopVars>>

RemoveConnectionInLoop ==
  /\ removals # <<>>
  /\ living' = living \ {Head(removals)}
  /\ removals' = Tail(removals)
  /\ UNCHANGED <<next, worker, tasks, out, at, client>>
  /\ UNCHANGED <<connVars, serverVars, loopVars>>

-----------------------------------------------------------------------------
(* A worker: the connection is established.                                *)

\* AddTimer: addTimer places a timer by its distance from last_rotate_time_,
\* and drops one that fits no layer.
NewTimer(w) == IF loop[w].stale THEN "lost" ELSE "armed"

\* connectEstablished, up to HttpServer::handleConnected.
ConnectEstablished(w) ==
  /\ In(w, "idle")
  /\ tasks[w] # <<>>
  /\ LET c == Head(tasks[w]) IN
     /\ state' = [state EXCEPT ![c] = "CONNECT"]
     /\ polled' = polled \cup {c}
     /\ interest' = [interest EXCEPT ![c] = {"read"}]
     /\ timer' = [timer EXCEPT ![c] = NewTimer(w)]
     /\ GoOn(w, "insert", c)
  /\ tasks' = [tasks EXCEPT ![w] = Tail(@)]
  /\ UNCHANGED <<next, living, removals, worker, out, client>>
  /\ UNCHANGED <<serverVars, loopVars>>

\* lock_ is a spin lock.
Lock(w, from, to) ==
  /\ In(w, from)
  /\ lock = NoWorker
  /\ lock' = w
  /\ GoOn(w, to, at[w].conn)
  /\ UNCHANGED <<next, out, client, sessions, missed>>
  /\ UNCHANGED <<tcpVars, connVars, loopVars>>

InsertSession(w) ==
  /\ In(w, "inserting")
  /\ sessions' = sessions \cup {at[w].conn}
  /\ lock' = NoWorker
  /\ Done(w)
  /\ UNCHANGED <<next, out, client, missed>>
  /\ UNCHANGED <<tcpVars, connVars, loopVars>>

-----------------------------------------------------------------------------
(* A worker: handleClose, and the way back from it.                        *)

\* handleClose, up to HttpServer::handleDisconnected.
Detach(w, c) ==
  /\ state' = [state EXCEPT ![c] = "CLOSED"]
  /\ timer' = [timer EXCEPT ![c] = "none"]
  /\ interest' = [interest EXCEPT ![c] = {}]
  /\ polled' = polled \ {c}
  /\ GoOn(w, "find", c)

\* httpsessions_ is searched without lock_: while another worker changes the
\* map, the search may miss the session.
FindSession(w) ==
  /\ In(w, "find")
  /\ \/ /\ at[w].conn \in sessions
        /\ GoOn(w, "erase", at[w].conn)
        /\ UNCHANGED missed
     \/ /\ at[w].conn \in sessions => lock # NoWorker
        /\ GoOn(w, "notify", at[w].conn)
        /\ missed' = missed \cup {at[w].conn}
  /\ UNCHANGED <<next, out, client, sessions, lock>>
  /\ UNCHANGED <<tcpVars, connVars, loopVars>>

EraseSession(w) ==
  /\ In(w, "erasing")
  /\ sessions' = sessions \ {at[w].conn}
  /\ lock' = NoWorker
  /\ GoOn(w, "notify", at[w].conn)
  /\ UNCHANGED <<next, out, client, missed>>
  /\ UNCHANGED <<tcpVars, connVars, loopVars>>

\* Fault: a second ForceClose that does not look at connect_state_.
CloseTwice(w) ==
  /\ In(w, "notify")
  /\ removals' = removals \o <<at[w].conn, at[w].conn>>
  /\ GoOn(w, "closing", at[w].conn)
  /\ UNCHANGED <<next, living, worker, tasks, out, client>>
  /\ UNCHANGED <<connVars, serverVars, loopVars>>

\* close_callback_: TcpServer::handleConnectionClose.
HandleConnectionClose(w) ==
  /\ In(w, "notify")
  /\ removals' = Append(removals, at[w].conn)
  /\ GoOn(w, "closing", at[w].conn)
  /\ UNCHANGED <<next, living, worker, tasks, out, client>>
  /\ UNCHANGED <<connVars, serverVars, loopVars>>

\* Fault: the timer is resumed whatever the state.
ResumeTimerAnyway(w, c) == timer' = [timer EXCEPT ![c] = NewTimer(w)]

\* Fault: the timer is cancelled and not resumed.
ResumeTimerNever(w, c) == timer' = [timer EXCEPT ![c] = "none"]

\* resumeTimer, after cancelTimer.
ResumeTimer(w, c) ==
  timer' = [timer EXCEPT ![c] = IF state[c] = "CONNECT" THEN NewTimer(w) ELSE "none"]

\* handleClose has returned, and the callback's reference goes.
LeaveCallback(w) ==
  /\ In(w, "closing")
  /\ GoOn(w, "returning", at[w].conn)
  /\ UNCHANGED <<next, out, client>>
  /\ UNCHANGED <<tcpVars, connVars, serverVars, loopVars>>

\* What the worker goes on with may be gone: the connection, to which it has a
\* bare pointer; the Timer, which cancelTimer deletes inside its own Execute; the
\* parser, which went with the session that its callback closed.
FreedMeanwhile(w) ==
  \/ Destroyed(at[w].conn)
  \/ loop[w].from = "timer"
  \/ loop[w].from = "parser" /\ at[w].conn \notin missed

\* The way back through http_parser_execute, handleRead, HandleEvent or
\* Timer::Execute into the loop.
Return(w) ==
  /\ In(w, "returning")
  /\ broken' \in (IF FreedMeanwhile(w) THEN BOOLEAN ELSE {FALSE})
  /\ IF loop[w].from \in {"message", "parser"} THEN ResumeTimer(w, at[w].conn)
                                               ELSE UNCHANGED timer
  /\ loop' = [loop EXCEPT ![w].left = 0, ![w].from = "read"]
  /\ Done(w)
  /\ UNCHANGED <<next, out, client, state, polled, interest>>
  /\ UNCHANGED <<tcpVars, serverVars>>

-----------------------------------------------------------------------------
(* A worker: events and timers of its connections.                         *)

Serves(w, c) == In(w, "idle") /\ worker[c] = w

Readable(c) == client[c].unread > 0 \/ ~client[c].open
Ready(c, e) == c \in polled /\ e \in interest[c]

\* sendInLoop of a response of n parts: what the socket takes is written, the
\* rest is queued and the event waits for room.
SendInLoop(c, n) ==
  \E k \in 0..n :
    /\ out[c] # <<>> => k = 0
    /\ out' = IF k = n THEN out ELSE [out EXCEPT ![c] = Append(@, n - k)]
    /\ interest' = IF k = n THEN interest
                            ELSE [interest EXCEPT ![c] = @ \cup {"write"}]

\* handleRead with n > 0, up to the parser.
HandleRead(w, c) ==
  /\ Serves(w, c)
  /\ Ready(c, "read")
  /\ client[c].unread > 0
  /\ timer[c] # "lost"
  /\ timer' = [timer EXCEPT ![c] = "none"]
  /\ client' = [client EXCEPT ![c].unread = 0]
  /\ loop' = [loop EXCEPT ![w].left = client[c].unread]
  /\ GoOn(w, "reading", c)
  /\ UNCHANGED <<next, out, state, polled, interest, broken>>
  /\ UNCHANGED <<tcpVars, serverVars>>

\* The parser goes through the requests of the read, also through those behind
\* one that closed the connection, if its session was missed and so the parser
\* still lives.
Parsing(w) ==
  /\ loop[w].left > 0
  /\ \/ In(w, "reading")
     \/ In(w, "closing") /\ loop[w].from = "parser" /\ at[w].conn \in missed

\* A request that is answered, or that is incomplete or stays without an answer.
Answer(w) ==
  /\ Parsing(w)
  /\ loop' = [loop EXCEPT ![w].left = @ - 1]
  /\ \/ UNCHANGED <<out, interest>>
     \/ \E n \in 1..MaxParts : SendInLoop(at[w].conn, n)
  /\ UNCHANGED <<next, at, client, state, polled, timer, broken>>
  /\ UNCHANGED <<tcpVars, serverVars>>

\* ForceClose in the loop thread.
ForceClose(w, from, left) ==
  /\ state' = [state EXCEPT ![at[w].conn] = "CLOSED"]
  /\ interest' = [interest EXCEPT ![at[w].conn] = {}]
  /\ polled' = polled \ {at[w].conn}
  /\ loop' = [loop EXCEPT ![w].from = from, ![w].left = left]
  /\ GoOn(w, "find", at[w].conn)
  /\ UNCHANGED <<next, client, timer, broken>>
  /\ UNCHANGED <<tcpVars, serverVars>>

\* need_close_ is set: ForceClose behind the answer, inside the callback of the
\* parser.  What remains to be sent is not waited for.
AnswerAndClose(w) ==
  /\ In(w, "reading")
  /\ loop[w].left > 0
  /\ \E n \in 0..MaxParts, k \in 0..MaxParts :
       LET c == at[w].conn IN
       /\ k <= n
       /\ out[c] # <<>> => k = 0
       /\ out' = IF k = n THEN out ELSE [out EXCEPT ![c] = Append(@, n - k)]
  /\ ForceClose(w, "parser", loop[w].left - 1)

\* The message is bad: ForceClose when the parser has returned.
BadMessage(w) ==
  /\ In(w, "reading")
  /\ ForceClose(w, "message", 0)
  /\ UNCHANGED out

\* The parser has returned, and handleRead ends with the connection open.
EndRead(w) ==
  /\ In(w, "reading")
  /\ loop[w].left = 0
  /\ ResumeTimer(w, at[w].conn)
  /\ Done(w)
  /\ UNCHANGED <<next, out, client, state, polled, interest>>
  /\ UNCHANGED <<tcpVars, serverVars, loopVars>>

\* handleRead with n = 0 or n < 0.
HandleEnd(w, c) ==
  /\ Serves(w, c)
  /\ Ready(c, "read")
  /\ client[c].unread = 0 /\ ~client[c].open
  /\ timer[c] # "lost"
  /\ Detach(w, c)
  /\ loop' = [loop EXCEPT ![w].from = "read"]
  /\ UNCHANGED <<next, out, client, broken>>
  /\ UNCHANGED <<tcpVars, serverVars>>

\* handleRead begins with cancelTimer: RemoveTimer looks for a lost timer in the
\* layer and slot that nobody has written into its position_.
CancelLostTimer(w, c) ==
  /\ Serves(w, c)
  /\ Ready(c, "read")
  /\ Readable(c)
  /\ timer[c] = "lost"
  /\ broken' = TRUE
  /\ UNCHANGED <<next, out, at, client, loop>>
  /\ UNCHANGED <<tcpVars, connVars, serverVars>>

\* handleWrite: a write that takes k parts of the first response.
HandleWrite(w, c) ==
  /\ Serves(w, c)
  /\ Ready(c, "write")
  /\ \E k \in 0..Head(out[c]) :
       out' = [out EXCEPT ![c] = IF k = Head(@) THEN Tail(@)
                                 ELSE <<Head(@) - k>> \o Tail(@)]
  /\ interest' = [interest EXCEPT ![c] = IF out'[c] = <<>> THEN @ \ {"write"}
                                                           ELSE @]
  /\ UNCHANGED <<next, at, client, state, polled, timer>>
  /\ UNCHANGED <<tcpVars, serverVars, loopVars>>

\* Ten seconds after the last message.
ComesDue(c) ==
  /\ timer[c] = "armed"
  /\ timer' = [timer EXCEPT ![c] = "due"]
  /\ UNCHANGED <<next, at, client, state, polled, interest, out>>
  /\ UNCHANGED <<tcpVars, serverVars, loopVars>>

HandleTimeout(w, c) ==
  /\ Serves(w, c)
  /\ timer[c] = "due"
  /\ Detach(w, c)
  /\ loop' = [loop EXCEPT ![w].from = "timer"]
  /\ UNCHANGED <<next, out, client, broken>>
  /\ UNCHANGED <<tcpVars, serverVars>>

\* Without a timer poll() has no timeout: nothing wakes the loop, for longer
\* than the wheel reaches.  (One that no new connection follows has no effect.)
SleepLong(w) ==
  /\ In(w, "idle")
  /\ \E c \in Conn : state[c] = "none"
  /\ tasks[w] = <<>>
  /\ \A c \in Conn : worker[c] = w =>
       /\ timer[c] \notin {"armed", "due"}
       /\ ~(Ready(c, "read") /\ Readable(c))
  /\ loop' = [loop EXCEPT ![w].stale = TRUE]
  /\ UNCHANGED <<next, out, at, client, broken>>
  /\ UNCHANGED <<tcpVars, connVars, serverVars>>

\* The pass ends with handleTimeoutTimers, which moves last_rotate_time_.
EndPass(w) ==
  /\ In(w, "idle")
  /\ loop' = [loop EXCEPT ![w].stale = FALSE]
  /\ UNCHANGED <<next, out, at, client, broken>>
  /\ UNCHANGED <<tcpVars, connVars, serverVars>>

-----------------------------------------------------------------------------
(* The clients.                                                            *)

Request(c) ==
  /\ state[c] \in {"INIT", "CONNECT"}
  /\ client[c].open
  /\ client[c].sent < MaxRequests[c]
  /\ client' = [client EXCEPT ![c].sent = @ + 1, ![c].unread = @ + 1]
  /\ UNCHANGED <<next, out, at>>
  /\ UNCHANGED <<tcpVars, connVars, serverVars, loopVars>>

Leave(c) ==
  /\ state[c] \in {"INIT", "CONNECT"}
  /\ client[c].open
  /\ client' = [client EXCEPT ![c].open = FALSE]
  /\ UNCHANGED <<next, out, at>>
  /\ UNCHANGED <<tcpVars, connVars, serverVars, loopVars>>

-----------------------------------------------------------------------------
\* The rest of a callback that a worker is in.
Continue(w) ==
  \/ Lock(w, "insert", "inserting")
  \/ InsertSession(w)
  \/ Answer(w)
  \/ AnswerAndClose(w)
  \/ BadMessage(w)
  \/ EndRead(w)
  \/ FindSession(w)
  \/ Lock(w, "erase", "erasing")
  \/ EraseSession(w)
  \/ HandleConnectionClose(w)
  \/ LeaveCallback(w)
  \/ Return(w)

Serve(w, c) ==
  \/ HandleRead(w, c)
  \/ HandleEnd(w, c)
  \/ CancelLostTimer(w, c)
  \/ HandleTimeout(w, c)

Next ==
  /\ ~broken
  /\ \/ \E c \in Conn : HandleAccept(c) \/ ComesDue(c) \/ Request(c) \/ Leave(c)
     \/ RemoveConnectionInLoop
     \/ \E w \in Worker :
          \/ ConnectEstablished(w)
          \/ Continue(w)
          \/ SleepLong(w)
          \/ EndPass(w)
          \/ \E c \in Conn : Serve(w, c) \/ HandleWrite(w, c)

\* Every loop goes on with its callback, takes its tasks and serves its
\* connections; the timers that the wheel has come due.  Nothing makes a client
\* act or read, nor a loop sleep long.
Fairness ==
  /\ WF_vars(~broken /\ RemoveConnectionInLoop)
  /\ \A w \in Worker :
       /\ WF_vars(~broken /\ Continue(w))
       /\ WF_vars(~broken /\ ConnectEstablished(w))
  /\ \A c \in Conn :
       /\ WF_vars(~broken /\ ComesDue(c))
       /\ WF_vars(~broken /\ \E w \in Worker : Serve(w, c))

Spec     == Init /\ [][Next]_vars
FairSpec == Spec /\ Fairness

-----------------------------------------------------------------------------
(* Properties.                                                             *)

\* An open connection has a timer except while a read of it is handled, and a
\* closed one gets none again, whoever closed it (tcpconnection.cc, handleRead).
TimerWhileConnected ==
  \A c \in Conn :
    timer[c] # "none" <=>
      /\ state[c] = "CONNECT"
      /\ ~\E w \in Worker : at[w].conn = c /\ In(w, "reading")

\* A connection is destroyed only after handleClose has taken it out of the
\* poller and of the timers, and no worker is inside one of its callbacks but
\* on the way back: neither an event nor a timer finds it gone, and its
\* destructor has nothing to close.
DestroyedIsDetached ==
  \A c \in Conn : Destroyed(c) =>
    /\ state[c] = "CLOSED"
    /\ c \notin polled
    /\ timer[c] = "none"
    /\ \A w \in Worker : at[w].conn = c => In(w, "returning")

\* A closed connection is removed once: a removal that is queued finds its
\* connection in the map, and there is no other for the same connection.
RemovedOnce ==
  /\ Range(removals) \subseteq living
  /\ \A i, j \in DOMAIN removals : removals[i] = removals[j] => i = j

\* HttpServer has a session for each connection between its handleConnected and
\* its handleDisconnected, and for no other, but for those that a search in the
\* unlocked map missed.
SessionWhileConnected ==
  \A c \in Conn :
    LET before == \E w \in Worker : at[w].conn = c /\ at[w].place \in {"insert", "inserting"}
        after  == \E w \in Worker :
                    at[w].conn = c /\ at[w].place \in {"find", "erase", "erasing"}
    IN c \in sessions <=> (state[c] = "CONNECT" /\ ~before) \/ after \/ c \in missed

\* What the loops, the timers and HttpServer keep of a connection they keep as
\* long as it is connected.
ConnectionInv == TypeOK /\ TimerWhileConnected /\ SessionWhileConnected

\* However a connection ends (its client, an error, its timer, ForceClose or a
\* bad request), it ends once and leaves nothing behind.
EndsOnce == DestroyedIsDetached /\ RemovedOnce

\* A connection that is closed is destroyed, and with it its socket, unless its
\* session was missed or the program has left what is defined.
ClosedIsDestroyed ==
  \A c \in Conn : (state[c] = "CLOSED") ~> (Destroyed(c) \/ c \in missed \/ broken)

\* A connection is closed in the end if its client falls silent, whether the
\* client leaves or not and whether it reads or not, unless the timing wheel
\* lost its timer or the program has left what is defined.
SilentConnectionCloses ==
  \A c \in Conn :
    (state[c] = "CONNECT") ~> (state[c] = "CLOSED" \/ timer[c] = "lost" \/ broken)

=============================================================================
