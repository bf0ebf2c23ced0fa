---------------------------- MODULE CoEventLoop ----------------------------
(***************************************************************************)
(* The coroutine version (co_tcpserver/): a loop that runs coroutines, the *)
(* hooks that make a blocking call a wait of its coroutine (hooks.cc), and *)
(* connections of which each is served by one coroutine from accept to     *)
(* close (co_tcpconnection.cc).  Each Event of PollPoller is that of one   *)
(* connection.  The thread that accepts connections also destroys them.    *)
(*                                                                         *)
(* An access to a deleted timer, to a destroyed connection or session, to  *)
(* a place the poller does not have, or the erasure of a coroutine from a  *)
(* list that does not hold it, sets broken, and the model ends there.  No  *)
(* caller adds a stateless coroutine or sleeps; WebSocket::Recv waits as   *)
(* the loop of handleMessage does.                                         *)
(***************************************************************************)
EXTENDS PollPoller, FiniteSets, SequencesExt

CONSTANTS
  MaxWaits,     \* bound of the waits of a coroutine
  MaxMessages   \* bound of the messages of a connection: what its peer sends is finite

ASSUME CoAssumption == MaxWaits \in Nat /\ MaxMessages \in Nat /\ IsFiniteSet(Events)

VARIABLES
  running,  \* running_coroutines_
  hold,     \* hold_coroutines_
  ready,    \* stateful_ready_coroutines_
  cur,      \* running_coroutine_, Idle while the loop is in poll()
  woken,    \* the wakeup pipe is not empty
  co,       \* the coroutine of each connection
  conn,     \* each CoTcpConnection
  timers,   \* the timers that the hooks made: <<connection, number>> |-> state
  broken,   \* what was accessed that is no more
  history   \* what happened to a connection from outside its coroutine

loopvars == <<running, hold, ready, cur, woken>>
covars == <<pollvars, loopvars, co, conn, timers, broken, history>>

Idle == <<"idle">>
Server(c) == <<"conn", c>>          \* runs CoTcpConnection::handleMessage
OnTimeout(t) == <<"timeout", t>>    \* runs Execute and RemoveTimer of a timer
OnClose(c) == <<"close", c>>        \* runs forceCloseInLoop for another thread
TimerIds == Events \X (1 .. MaxWaits)
Timer(c) == <<c, co[c].waits>>      \* the timer of the last wait of the coroutine

CoInit ==
  /\ PollerInit
  /\ running = <<>> /\ hold = <<>> /\ ready = <<>> /\ cur = Idle /\ woken = FALSE
  /\ co = [c \in Events |-> [state |-> "READY", pc |-> "start", waits |-> 0, messages |-> 0]]
  /\ conn = [c \in Events |-> [state |-> "none", triggered |-> FALSE, session |-> FALSE, removals |-> 0]]
  /\ timers = [t \in TimerIds |-> "none"]
  /\ broken = "no"
  /\ history = [closes |-> [c \in Events |-> 0], outside |-> FALSE, both |-> FALSE]

Sound == broken = "no"
Alive(c) == event[c].life \in {"open", "closed"}

(* The loop, its poller and the connections as one record, for calls that    *)
(* follow each other.                                                        *)
World == [q |-> Poller, running |-> running, hold |-> hold, ready |-> ready, co |-> co, conn |-> conn,
          timers |-> timers, broken |-> broken, history |-> history]
Turns(next) ==
  \E w \in {next} :
    /\ Becomes(w.q) /\ UNCHANGED active
    /\ running' = w.running /\ hold' = w.hold /\ ready' = w.ready /\ co' = w.co /\ conn' = w.conn
    /\ timers' = w.timers /\ broken' = w.broken /\ history' = w.history

Without(list, x) == RemoveAt(list, CHOOSE i \in DOMAIN list : list[i] = x)
Breaks(w, why) == [w EXCEPT !.broken = why]

\* Fault: NotifyCoroutineReady leaves the coroutine among those that hold.
SetReadyHeld(w, c) ==
  IF w.co[c].state = "READY" THEN w
  ELSE [w EXCEPT !.co[c].state = "READY", !.running = Append(@, Server(c))]
\* Coroutine::SetState(READY), with NotifyCoroutineReady.
SetReady(w, c) ==
  IF w.co[c].state = "READY" THEN w
  ELSE IF Server(c) \notin ToSet(w.hold) THEN Breaks(w, "list")
  ELSE [w EXCEPT !.co[c].state = "READY", !.hold = Without(@, Server(c)), !.running = Append(@, Server(c))]

\* CoEvent::TriggerEvent: the coroutine that waits for the event goes on.
TriggerEvent(w, c) ==
  LET t == [w EXCEPT !.conn[c].triggered = TRUE]
  IN  IF w.q.event[c].events = {} THEN t ELSE SetReady(t, c)
\* CoTcpConnection::handleClose; close_callback_ has the accepting thread remove it.
HandleClose(w, c) ==
  LET t == TriggerEvent([w EXCEPT !.conn[c].state = "closed"], c)
      lost == w.q.map[w.q.event[c].fd] # None /\ ~ Reaches(w.q, c)
      stray == Reaches(w.q, c) /\ w.q.event[c].index + 1 # Len(w.q.fds) /\ w.q.map[Last(w.q.fds).fd] \in {None, c}
  IN  IF lost \/ stray THEN Breaks(w, "poller") ELSE
      [t EXCEPT !.q = Closed(@, c), !.conn[c].session = FALSE, !.conn[c].removals = @ + 1,
                !.history.closes[c] = @ + 1]
ForceCloseInLoop(w, c) == IF w.conn[c].state = "closed" THEN w ELSE HandleClose(w, c)

-----------------------------------------------------------------------------
(* One pass of CoEventLoop::loop up to the first coroutine.                  *)
\* CoEvent::HandleEvent: the interest ends and its coroutine goes on.
HandleEvent1(w, i) ==
  LET c == w.q.map[pollfds[i].fd]
      wanted == pollfds[i].events
  IN  IF c = None \/ wanted = {} THEN w
      ELSE SetReady([w EXCEPT !.q = Interested(@, c, w.q.event[c].events \ wanted)], c)
HandleActiveEvents(hit) ==
  LET after[i \in 0 .. Len(pollfds)] ==
        IF i = 0 THEN World ELSE IF i \in hit THEN HandleEvent1(after[i - 1], i) ELSE after[i - 1]
  IN  after[Len(pollfds)]
Popped(w, order) ==
  LET due == ToSet(order)
      waits == {t \in due : t = Timer(t[1]) /\ w.co[t[1]].pc \in {"woken_read", "woken_write"}}
  IN  [w EXCEPT !.timers = [t \in TimerIds |-> IF t \in due THEN "popped" ELSE @[t]],
                !.ready = @ \o [k \in DOMAIN order |-> OnTimeout(order[k])],
                !.history.outside = @ \/ waits # {},
                !.history.both = @ \/ \E t \in waits : w.co[t[1]].state = "READY"]
\* Fault: those that were running already are dropped.
MoveReadyAlone(w) == [w EXCEPT !.running = IF w.ready = <<>> THEN @ ELSE w.ready, !.ready = <<>>]
MoveReady(w) == [w EXCEPT !.running = @ \o w.ready, !.ready = <<>>]
First(list) == IF list = <<>> THEN Idle ELSE Head(list)
\* SwapTo: the coroutine of a connection is then EXEC.
Starts(w, x) ==
  /\ cur' = x
  /\ Turns(IF x[1] = "conn" THEN [w EXCEPT !.co[x[2]].state = "EXEC"] ELSE w)

Armed == {t \in TimerIds : timers[t] = "armed"}
Pass(order) ==
  /\ cur = Idle /\ Sound
  /\ \E hit \in SUBSET {i \in DOMAIN pollfds : pollfds[i].events # {}} :
       /\ woken \/ hit # {} \/ order # <<>>
       /\ \E awake \in {HandleActiveEvents(hit)} :
          \E popped \in {Popped(awake, order)} :
          \E moved \in {IF popped.running = <<>> THEN MoveReady(popped) ELSE popped} :
            Starts(moved, First(moved.running))
  /\ woken' = FALSE

(* What the loop does when the coroutine swaps back.  A coroutine that holds  *)
(* was pushed to the other list before its successor is asked for, so that   *)
(* it has none, and the rest of running_coroutines_ waits for the next pass. *)
Holds(w, c) ==
  cur' = Idle
  /\ Turns(MoveReady([w EXCEPT !.running = Tail(@), !.hold = Append(@, Server(c)), !.co[c].state = "HOLD"]))
Terminates(ended) ==
  \E w \in {ended} : \E t \in {IF Len(w.running) = 1 THEN MoveReady(w) ELSE w} :
    Starts([t EXCEPT !.running = Tail(@)], First(Tail(t.running)))
Continues(w) == Turns(w) /\ UNCHANGED cur

-----------------------------------------------------------------------------
(* The coroutine of a connection: CoTcpConnection::handleMessage, with       *)
(* io_handler of the hooks.                                                  *)
Runs(c, pc) == cur = Server(c) /\ co[c].pc = pc /\ Sound
To(w, c, pc) == [w EXCEPT !.co[c].pc = pc]

Start(c) ==
  /\ Runs(c, "start")
  /\ Continues(To([World EXCEPT !.q = Interested(@, c, {}), !.conn[c].state = "connect", !.conn[c].session = TRUE], c, "read"))
  /\ UNCHANGED woken

\* block: of io_handler.
Wait(w, c, interest, pc) ==
  /\ co[c].waits < MaxWaits
  /\ Holds(To([w EXCEPT !.q = Interested(@, c, event[c].events \cup {interest}),
                         !.timers[<<c, co[c].waits + 1>>] = "armed", !.co[c].waits = @ + 1], c, pc), c)
\* Fault: the timer of a wait that is over stays.
TimerStays(w, c) == w
\* The rest of io_handler, when the coroutine goes on.  The timer stays if the
\* event was triggered.
Unwait(w, c) == IF w.conn[c].triggered THEN w ELSE [w EXCEPT !.timers[<<c, w.co[c].waits>>] = "deleted"]

\* while(Connected()), and the hook tries to read.
Read(c) ==
  /\ Runs(c, "read") /\ UNCHANGED woken
  /\ IF ~ Alive(c) THEN Continues(Breaks(World, "connection"))
     ELSE IF conn[c].state = "closed" THEN Terminates(To(World, c, "ended"))
     ELSE \/ Wait(World, c, "READ", "woken_read")
          \/ co[c].messages < MaxMessages /\ Continues(To(World, c, "message"))
          \/ Terminates(To(HandleClose(World, c), c, "ended"))
\* A read that finds nothing closes like one that fails.
WokenRead(c) ==
  /\ Runs(c, "woken_read") /\ UNCHANGED woken
  /\ IF ~ Alive(c) THEN Continues(Breaks(World, "connection"))
     ELSE LET w == Unwait(World, c)
          IN  \/ co[c].messages < MaxMessages /\ Continues(To(w, c, "message"))
              \/ Terminates(To(HandleClose(w, c), c, "ended"))
\* message_callback_ of the session: it may send, or find the message bad and close.
Message(c) ==
  /\ Runs(c, "message") /\ UNCHANGED woken
  /\ IF ~ conn[c].session THEN Continues(Breaks(World, "session"))
     ELSE LET w == [World EXCEPT !.co[c].messages = @ + 1]
          IN  \/ \E pc \in {"read", "send"} : Continues(To(w, c, pc))
              \/ Terminates(To(ForceCloseInLoop(w, c), c, "ended"))
\* Send(ByteData): the hook tries to write until nothing remains or it fails.
Send(c) ==
  /\ Runs(c, "send") /\ UNCHANGED woken
  /\ \/ conn[c].state = "connect" /\ Wait(World, c, "WRITE", "woken_write")
     \/ Continues(To(World, c, "read"))
WokenWrite(c) ==
  /\ Runs(c, "woken_write") /\ UNCHANGED woken
  /\ IF ~ Alive(c) THEN Continues(Breaks(World, "connection"))
     ELSE \E pc \in {"send", "read"} : Continues(To(Unwait(World, c), c, pc))

\* The coroutine that handleTimeoutTimers made of a timer.
Timeout(t) ==
  /\ cur = OnTimeout(t) /\ Sound /\ UNCHANGED woken
  /\ IF timers[t] = "deleted" THEN Continues(Breaks(World, "timer"))
     ELSE IF ~ Alive(t[1]) THEN Continues(Breaks(World, "connection"))
     ELSE Terminates([HandleClose(World, t[1]) EXCEPT !.timers[t] = "deleted"])
RunClose(c) ==
  /\ cur = OnClose(c) /\ Sound /\ UNCHANGED woken
  /\ IF ~ Alive(c) THEN Continues(Breaks(World, "connection"))
     ELSE Terminates(ForceCloseInLoop(World, c))

-----------------------------------------------------------------------------
(* Other threads.                                                            *)
AddCoroutine(w, x) == Turns([w EXCEPT !.ready = Append(@, x)]) /\ woken' = TRUE /\ UNCHANGED cur
\* CoTcpServer::handleAccept: a new connection, of those that are not made yet.
Accept(c) ==
  /\ event[c].life = "none" /\ c = CHOOSE d \in Events : event[d].life = "none"
  /\ Free # {} /\ Sound
  /\ LET fd == CHOOSE x \in Free : \A y \in Free : x <= y
     IN  AddCoroutine([World EXCEPT !.q.event[c].fd = fd, !.q.event[c].life = "open"], Server(c))
\* CoTcpConnection::ForceClose, at most once by another thread.
ForceClose(c) ==
  /\ conn[c].state = "connect" /\ Alive(c) /\ Sound /\ ~ history.outside
  /\ AddCoroutine([World EXCEPT !.history.outside = TRUE], OnClose(c))
\* removeConnectionInLoop: the session of a message that is handled keeps it.
RemoveConnection(c) ==
  /\ conn[c].removals > 0 /\ Sound
  /\ cur = Server(c) => co[c].pc \notin {"message", "send"}
  /\ Turns([World EXCEPT !.conn[c].removals = @ - 1, !.q.event[c].life = "gone"])
  /\ UNCHANGED <<cur, woken>>

Serve(c) == Start(c) \/ Read(c) \/ WokenRead(c) \/ Message(c) \/ Send(c) \/ WokenWrite(c)
CoNext ==
  \/ \E due \in SUBSET Armed : \E order \in {SetToSeq(due), Reverse(SetToSeq(due))} : Pass(order)
  \/ \E c \in Events : Serve(c) \/ RunClose(c) \/ Accept(c) \/ ForceClose(c) \/ RemoveConnection(c)
  \/ \E t \in TimerIds : Timeout(t)

\* The loop goes on with the coroutine that runs, and the timing wheel hands
\* out every timer that is not removed: handleTimeoutTimers comes before the
\* coroutines of each pass, so the time that places their timers is not stale.
CoFairness ==
  /\ WF_covars((\E c \in Events : Serve(c) \/ RunClose(c)) \/ \E t \in TimerIds : Timeout(t))
  /\ WF_covars(Pass(<<>>))
  /\ \A t \in TimerIds : SF_covars(t \in Armed /\ Pass(<<t>>))
CoSpec == CoInit /\ [][CoNext]_covars /\ CoFairness

-----------------------------------------------------------------------------
Listed(list) == {c \in Events : Server(c) \in ToSet(list)}
Once(list) == \A i, j \in DOMAIN list : list[i] = list[j] => i = j

(* A coroutine that holds is woken: it is in the list of those that hold and *)
(* in no other, its connection is open, its Event wants what it waits for, and *)
(* the timer of its wait is armed, or has been handed to a coroutine that will *)
(* run.  The coroutine that runs is the first of the running ones.            *)
WaitsFor(c) == IF co[c].pc = "woken_read" THEN "READ" ELSE "WRITE"
HeldAreWoken ==
  Sound =>
    /\ Once(running) /\ Once(hold) /\ Once(ready)
    /\ cur # Idle => running # <<>> /\ cur = Head(running)
    /\ \A c \in Listed(hold) :
         /\ c \notin Listed(running) \cup Listed(ready) /\ co[c].state = "HOLD"
         /\ conn[c].state = "connect" /\ event[c].life = "open" /\ WaitsFor(c) \in event[c].events
         /\ \/ timers[Timer(c)] = "armed"
            \/ timers[Timer(c)] = "popped" /\ OnTimeout(Timer(c)) \in ToSet(running \o ready)
    /\ \A c \in Events : c \in Listed(running \o ready) \/ c \in Listed(hold)
                          \/ co[c].pc = "ended" \/ event[c].life = "none"

(* As long as no wait timed out and no other thread closed a connection, each *)
(* connection is closed once, by its own coroutine, nothing is used that is   *)
(* no more, and poll() is called with the open connections.  A deleted timer  *)
(* runs only if it and its event were handed out in the same pass, and a      *)
(* coroutine is taken from a list it is not in only after some connection was *)
(* closed twice.                                                              *)
Polled(c) == LET i == event[c].index + 1
             IN  i \in DOMAIN pollfds /\ pollfds[i] = [fd |-> event[c].fd, events |-> event[c].events]
ClosedByItself ==
  /\ ~ history.outside =>
       /\ Sound
       /\ \A c \in Events : history.closes[c] <= 1
       /\ \A c \in Events : conn[c].state = "connect" <=> \E i \in DOMAIN pollfds : events_map[pollfds[i].fd] = c
       /\ \A c \in Events : conn[c].state = "connect" => Polled(c)
  /\ broken = "timer" => history.both
  /\ broken = "list" => \E c \in Events : history.closes[c] > 1

(* Every coroutine that is not running runs in the end: a held one when its   *)
(* event or its timer comes, one in a list when a pass comes to it.           *)
EveryCoroutineRuns ==
  \A c \in Events :
    (event[c].life = "open" /\ co[c].pc # "ended" /\ cur # Server(c)) ~> (cur = Server(c) \/ co[c].pc = "ended" \/ ~ Sound)
=============================================================================
