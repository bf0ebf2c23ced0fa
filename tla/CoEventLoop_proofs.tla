------------------------- MODULE CoEventLoop_proofs -------------------------
(***************************************************************************)
(* No coroutine is lost, for any number of connections, waits and messages. *)
(* The calls of CoEventLoop make one record of another, so that the         *)
(* invariant, Good, is stated of a record: the coroutines are apart in the  *)
(* three lists, each connection that is made has its coroutine in one, and  *)
(* what wakes a coroutine that holds is there.  Some calls change what a    *)
(* coroutine waits for before they wake it: X names those connections.      *)
(* Each call has a lemma, and a step follows the calls that it makes.  The  *)
(* poller may be wrong about an Event here (a descriptor of another         *)
(* connection may be dropped); only what its own calls change of an Event   *)
(* is needed.                                                               *)
(***************************************************************************)
EXTENDS CoEventLoop, PollPoller_proofs, FiniteSetTheorems, WellFoundedInduction

-----------------------------------------------------------------------------
(* The lists of coroutines. *)
LEMMA Appended ==
  ASSUME NEW S, NEW l \in Seq(S), NEW x \in S, Once(l), x \notin ToSet(l)
  PROVE  /\ Append(l, x) \in Seq(S) /\ Once(Append(l, x)) /\ ToSet(Append(l, x)) = ToSet(l) \cup {x}
         /\ Append(l, x) # <<>> /\ (l # <<>> => Head(Append(l, x)) = Head(l))
<1> DEFINE a == Append(l, x)
<1>1. /\ a \in Seq(S) /\ DOMAIN a = 1 .. Len(l) + 1 /\ DOMAIN l = 1 .. Len(l) /\ Len(l) \in Nat
      /\ \A i \in 1 .. Len(l) : a[i] = l[i]
      /\ a[Len(l) + 1] = x
  BY AppendProperties, LenProperties
<1>2. a # <<>> /\ (l # <<>> => Head(a) = Head(l))
  BY AppendProperties, HeadTailAppend
<1> HIDE DEF a
<1>3. Once(a)
  BY <1>1 DEF Once, ToSet
<1>4. ToSet(a) = ToSet(l) \cup {x}
  BY <1>1 DEF ToSet
<1>. QED
  BY <1>1, <1>2, <1>3, <1>4 DEF a

LEMMA Joined ==
  ASSUME NEW S, NEW l \in Seq(S), NEW m \in Seq(S), Once(l), Once(m), ToSet(l) \cap ToSet(m) = {}
  PROVE  /\ l \o m \in Seq(S) /\ Once(l \o m) /\ ToSet(l \o m) = ToSet(l) \cup ToSet(m)
         /\ (l # <<>> => l \o m # <<>> /\ Head(l \o m) = Head(l))
<1> DEFINE a == l \o m
<1>1. /\ a \in Seq(S) /\ DOMAIN a = 1 .. Len(l) + Len(m) /\ DOMAIN l = 1 .. Len(l) /\ DOMAIN m = 1 .. Len(m)
      /\ \A i \in 1 .. Len(l) : a[i] = l[i]
      /\ \A i \in Len(l) + 1 .. Len(l) + Len(m) : a[i] = m[i - Len(l)]
      /\ Len(l) \in Nat /\ Len(m) \in Nat /\ Len(a) = Len(l) + Len(m)
  BY ConcatProperties, LenProperties
<1> HIDE DEF a
<1>2. l # <<>> => a # <<>> /\ Head(a) = Head(l)
  <2> SUFFICES ASSUME l # <<>> PROVE a # <<>> /\ Head(a) = Head(l)
    OBVIOUS
  <2>1. Len(l) > 0
    BY EmptySeq
  <2>. QED
    BY <2>1, <1>1
<1>3. ToSet(a) = ToSet(l) \cup ToSet(m)
  <2>1. ASSUME NEW i \in DOMAIN a PROVE a[i] \in ToSet(l) \cup ToSet(m)
    <3>1. CASE i <= Len(l)
      <4>1. i \in DOMAIN l /\ a[i] = l[i]
        BY <1>1, <3>1
      <4>. QED
        BY <4>1 DEF ToSet
    <3>2. CASE i > Len(l)
      <4>1. i - Len(l) \in DOMAIN m /\ i \in Len(l) + 1 .. Len(l) + Len(m)
        BY <1>1, <3>2
      <4>2. a[i] = m[i - Len(l)]
        BY <4>1, <1>1
      <4>. QED
        BY <4>1, <4>2 DEF ToSet
    <3>. QED
      BY <3>1, <3>2, <1>1
  <2>2. ASSUME NEW i \in DOMAIN l PROVE l[i] \in ToSet(a)
    <3>1. i \in DOMAIN a /\ a[i] = l[i]
      BY <1>1
    <3>. QED
      BY <3>1 DEF ToSet
  <2>3. ASSUME NEW i \in DOMAIN m PROVE m[i] \in ToSet(a)
    <3>1. i + Len(l) \in DOMAIN a /\ a[i + Len(l)] = m[i]
      BY <1>1
    <3>. QED
      BY <3>1 DEF ToSet
  <2>. QED
    BY <2>1, <2>2, <2>3, Zenon DEF ToSet
<1>4. Once(a)
  <2> SUFFICES ASSUME NEW i \in DOMAIN a, NEW j \in DOMAIN a, a[i] = a[j] PROVE i = j
    BY DEF Once
  <2>1. CASE i <= Len(l) /\ j <= Len(l)
    BY <1>1, <2>1 DEF Once
  <2>2. CASE i > Len(l) /\ j > Len(l)
    <3>1. i - Len(l) \in DOMAIN m /\ j - Len(l) \in DOMAIN m
          /\ i \in Len(l) + 1 .. Len(l) + Len(m) /\ j \in Len(l) + 1 .. Len(l) + Len(m)
      BY <1>1, <2>2
    <3>3. m[i - Len(l)] = m[j - Len(l)]
      BY <1>1, <3>1
    <3>2. i - Len(l) = j - Len(l)
      BY <3>1, <3>3 DEF Once
    <3>. QED
      BY <3>2, <1>1
  <2>3. CASE i <= Len(l) /\ j > Len(l)
    <3>1. i \in DOMAIN l /\ j - Len(l) \in DOMAIN m
      BY <1>1, <2>3
    <3>3. a[i] = l[i] /\ a[j] = m[j - Len(l)]
      BY <1>1, <2>3, SMTT(20)
    <3>2. l[i] = m[j - Len(l)]
      BY <3>3
    <3>. QED
      BY <3>1, <3>2 DEF ToSet
  <2>4. CASE i > Len(l) /\ j <= Len(l)
    <3>1. j \in DOMAIN l /\ i - Len(l) \in DOMAIN m
      BY <1>1, <2>4
    <3>3. a[j] = l[j] /\ a[i] = m[i - Len(l)]
      BY <1>1, <2>4, SMTT(20)
    <3>2. l[j] = m[i - Len(l)]
      BY <3>3
    <3>. QED
      BY <3>1, <3>2 DEF ToSet
  <2>. QED
    BY <2>1, <2>2, <2>3, <2>4, <1>1
<1>. QED
  BY <1>1, <1>2, <1>3, <1>4 DEF a

LEMMA Rest ==
  ASSUME NEW S, NEW l \in Seq(S), Once(l), l # <<>>
  PROVE  /\ Tail(l) \in Seq(S) /\ Once(Tail(l)) /\ ToSet(Tail(l)) = ToSet(l) \ {Head(l)}
         /\ Head(l) \in ToSet(l) /\ Len(Tail(l)) = Len(l) - 1
<1> DEFINE a == Tail(l)
<1>1. /\ a \in Seq(S) /\ DOMAIN a = 1 .. Len(l) - 1 /\ DOMAIN l = 1 .. Len(l) /\ Len(l) \in Nat \ {0}
      /\ \A i \in 1 .. Len(l) - 1 : a[i] = l[i + 1]
      /\ Head(l) = l[1] /\ Len(a) = Len(l) - 1
  OBVIOUS
<1> HIDE DEF a
<1>2. Once(a)
  <2> SUFFICES ASSUME NEW i \in DOMAIN a, NEW j \in DOMAIN a, a[i] = a[j] PROVE i = j
    BY DEF Once
  <2>1. i + 1 \in DOMAIN l /\ j + 1 \in DOMAIN l /\ l[i + 1] = l[j + 1]
    BY <1>1
  <2>2. i + 1 = j + 1
    BY <2>1 DEF Once
  <2>. QED
    BY <1>1, <2>2
<1>3. ASSUME NEW i \in DOMAIN a PROVE a[i] \in ToSet(l) /\ a[i] # Head(l)
  <2>1. i + 1 \in DOMAIN l /\ 1 \in DOMAIN l /\ a[i] = l[i + 1] /\ i + 1 # 1
    BY <1>1
  <2>. QED
    BY <2>1, <1>1 DEF Once, ToSet
<1>4. ASSUME NEW i \in DOMAIN l, l[i] # Head(l) PROVE l[i] \in ToSet(a)
  <2>1. i - 1 \in DOMAIN a /\ a[i - 1] = l[i]
    BY <1>1, <1>4
  <2>. QED
    BY <2>1 DEF ToSet
<1>5. ToSet(a) = ToSet(l) \ {Head(l)}
  BY <1>3, <1>4, Zenon DEF ToSet
<1>6. Head(l) \in ToSet(l)
  BY <1>1 DEF ToSet
<1>. QED
  BY <1>1, <1>2, <1>5, <1>6 DEF a

LEMMA Erased ==
  ASSUME NEW S, NEW l \in Seq(S), Once(l), NEW x \in ToSet(l)
  PROVE  Without(l, x) \in Seq(S) /\ Once(Without(l, x)) /\ ToSet(Without(l, x)) = ToSet(l) \ {x}
<1> DEFINE k == CHOOSE i \in DOMAIN l : l[i] = x
           n == Len(l)
           b == SubSeq(l, 1, k - 1)
           c == SubSeq(l, k + 1, n)
           a == b \o c
<1>1. k \in 1 .. n /\ l[k] = x /\ DOMAIN l = 1 .. n /\ n \in Nat
  BY DEF ToSet
<1> HIDE DEF k
<1>2. /\ b \in Seq(S) /\ Len(b) = k - 1 /\ \A i \in 1 .. k - 1 : b[i] = l[i]
      /\ c \in Seq(S) /\ Len(c) = n - k /\ \A i \in 1 .. n - k : c[i] = l[i + k]
  <2>1. \A i \in 1 .. n : l[i] \in S
    BY <1>1
  <2>2. \A i \in 1 .. k - 1 : l[i] \in S
    BY <1>1, <2>1
  <2>3. /\ b \in Seq(S) /\ Len(b) = k - 1 /\ \A i \in 1 .. k - 1 : b[i] = l[i]
    BY <2>2, <1>1, SubSeqProperties
  <2>4. \A i \in k + 1 .. n : l[i] \in S
    BY <1>1, <2>1
  <2>5. /\ c \in Seq(S) /\ Len(c) = IF k + 1 <= n THEN n - (k + 1) + 1 ELSE 0
        /\ \A i \in 1 .. n - (k + 1) + 1 : c[i] = l[k + 1 + i - 1]
    BY <2>4, <1>1, SubSeqProperties
  <2> HIDE DEF b, c, n
  <2>6. Len(c) = n - k /\ \A i \in 1 .. n - k : c[i] = l[i + k]
    BY <2>5, <1>1
  <2>. QED
    BY <2>3, <2>5, <2>6
<1> HIDE DEF b, c
<1>3. /\ a \in Seq(S) /\ DOMAIN a = 1 .. n - 1 /\ \A i \in 1 .. n - 1 : a[i] = IF i < k THEN l[i] ELSE l[i + 1]
  <2>1. a \in Seq(S) /\ Len(a) = n - 1
        /\ \A i \in 1 .. n - 1 : a[i] = IF i <= k - 1 THEN b[i] ELSE c[i - (k - 1)]
    <3>1. Len(b) = k - 1 /\ Len(c) = n - k /\ b \in Seq(S) /\ c \in Seq(S)
      BY <1>2
    <3>2. /\ a \in Seq(S) /\ Len(a) = Len(b) + Len(c)
          /\ \A i \in 1 .. Len(b) + Len(c) : a[i] = IF i <= Len(b) THEN b[i] ELSE c[i - Len(b)]
      BY <3>1, ConcatProperties
    <3>3. Len(b) + Len(c) = n - 1
      BY <3>1, <1>1
    <3>. QED
      BY <3>1, <3>2, <3>3
  <2> HIDE DEF a, n
  <2>2. \A i \in 1 .. n - 1 : ~ (i <= k - 1) => c[i - (k - 1)] = l[i + 1]
    BY <1>1, <1>2
  <2>. QED
    BY <2>1, <2>2, <1>1, <1>2, LenProperties
<1>4. Without(l, x) = a
  BY DEF Without, RemoveAt, a, b, c, k
<1> HIDE DEF a
<1>5. Once(a)
  <2> SUFFICES ASSUME NEW i \in DOMAIN a, NEW j \in DOMAIN a, a[i] = a[j] PROVE i = j
    BY DEF Once
  <2> DEFINE at(y) == IF y < k THEN y ELSE y + 1
  <2>1. at(i) \in DOMAIN l /\ at(j) \in DOMAIN l /\ a[i] = l[at(i)] /\ a[j] = l[at(j)]
    BY <1>1, <1>3
  <2>2. at(i) = at(j)
    BY <2>1 DEF Once
  <2>. QED
    BY <2>2, <1>1, <1>3
<1>6. ASSUME NEW i \in DOMAIN a PROVE a[i] \in ToSet(l) /\ a[i] # x
  <2> DEFINE at == IF i < k THEN i ELSE i + 1
  <2>1. at \in DOMAIN l /\ a[i] = l[at] /\ at # k /\ k \in DOMAIN l
    BY <1>1, <1>3
  <2> HIDE DEF at
  <2>. QED
    BY <2>1, <1>1 DEF Once, ToSet
<1>7. ASSUME NEW i \in DOMAIN l, l[i] # x PROVE l[i] \in ToSet(a)
  <2> DEFINE at == IF i < k THEN i ELSE i - 1
  <2>1. at \in DOMAIN a /\ a[at] = l[i]
    BY <1>1, <1>3, <1>7
  <2> HIDE DEF at
  <2>. QED
    BY <2>1 DEF ToSet
<1>8. ToSet(a) = ToSet(l) \ {x}
  BY <1>6, <1>7, Zenon DEF ToSet
<1>. QED
  BY <1>3, <1>4, <1>5, <1>8

-----------------------------------------------------------------------------
(* The coroutines. *)
Servers == {Server(c) : c \in Events}
Coros == Servers \cup {OnTimeout(t) : t \in TimerIds} \cup {OnClose(c) : c \in Events}

LEMMA CorosDiffer ==
  /\ \A c, d : Server(c) = Server(d) => c = d
  /\ \A t, u : OnTimeout(t) = OnTimeout(u) => t = u
  /\ \A c, d : OnClose(c) = OnClose(d) => c = d
  /\ \A c, t : Server(c) # OnTimeout(t) /\ Server(c) # OnClose(t) /\ OnTimeout(t) # OnClose(c)
  /\ \A c : Server(c) # Idle /\ OnTimeout(c) # Idle /\ OnClose(c) # Idle
  /\ \A c : Server(c)[1] = "conn" /\ Server(c)[2] = c /\ OnTimeout(c)[1] # "conn" /\ OnClose(c)[1] # "conn"
BY DEF Server, OnTimeout, OnClose, Idle

-----------------------------------------------------------------------------
(* The poller under calls that may be late: what it holds of each Event need *)
(* not be right, but is of the right kind, and each call changes only what   *)
(* its own Event wants and what became of it.                                *)
Polls(fds, map, ev) ==
  /\ PollTypes(fds, map, ev)
  /\ \A e \in Events : ev[e].life # "none" => ev[e].fd \in Fds
  /\ \A fd \in Fds : map[fd] # None => ev[map[fd]].life # "none"
IsPoller(q) == q = [fds |-> q.fds, map |-> q.map, event |-> q.event] /\ Polls(q.fds, q.map, q.event)

LEMMA MadePoller ==
  ASSUME NEW F, NEW M, NEW E, Polls(F, M, E), NEW q, q = [fds |-> F, map |-> M, event |-> E]
  PROVE  IsPoller(q) /\ q.event = E /\ q.map = M /\ q.fds = F
BY DEF IsPoller

\* What is known of the Events when only places in pollfds_ may have changed.
SameEvents(E, ev) ==
  \A d \in Events : E[d].life = ev[d].life /\ E[d].fd = ev[d].fd /\ E[d].events = ev[d].events

(* An Event gets another place, and all else of it stays. *)
LEMMA Replaced ==
  ASSUME NEW fds, NEW map, NEW ev, Polls(fds, map, ev), NEW e \in Events, NEW i \in Int
  PROVE  /\ [ev EXCEPT ![e].index = i] \in [Events -> EventRecords]
         /\ SameEvents([ev EXCEPT ![e].index = i], ev)
<1>1. ev \in [Events -> EventRecords]
  BY DEF Polls, PollTypes
<1>. QED
  BY <1>1 DEF EventRecords, SameEvents

LEMMA StaysPolled ==
  ASSUME NEW fds, NEW map, NEW ev, Polls(fds, map, ev), NEW F \in Seq(PollFds),
         NEW E \in [Events -> EventRecords], SameEvents(E, ev), NEW e \in Events, ev[e].life # "none"
  PROVE  Polls(F, map, E) /\ Polls(F, [map EXCEPT ![ev[e].fd] = e], E) /\ Polls(F, [map EXCEPT ![ev[e].fd] = None], E)
<1>1. map \in [Fds -> Events \cup {None}] /\ None \notin Events
  BY PollerAssumption DEF Polls, PollTypes, None
<1>. QED
  BY <1>1 DEF Polls, PollTypes, SameEvents

LEMMA SameTwice ==
  ASSUME NEW E, NEW F, NEW ev, SameEvents(E, F), SameEvents(F, ev)
  PROVE  SameEvents(E, ev)
BY DEF SameEvents
LEMMA SameItself ==
  ASSUME NEW ev
  PROVE  SameEvents(ev, ev)
BY DEF SameEvents

(* UpdateEvent, whatever the index of the Event (poll_poller.cc). *)
LEMMA UpdateKeeps ==
  ASSUME NEW fds, NEW map, NEW ev, Polls(fds, map, ev), NEW e \in Events, ev[e].life # "none"
  PROVE  \A q : q = UpdateEvent([fds |-> fds, map |-> map, event |-> ev], e) => IsPoller(q) /\ SameEvents(q.event, ev)
<1> SUFFICES ASSUME NEW q, q = UpdateEvent([fds |-> fds, map |-> map, event |-> ev], e)
             PROVE  IsPoller(q) /\ SameEvents(q.event, ev)
  OBVIOUS
<1> DEFINE p == [fds |-> fds, map |-> map, event |-> ev]
           pfd == [fd |-> ev[e].fd, events |-> ev[e].events]
           known == map[ev[e].fd] # None
           i == ev[e].index + 1
<1>1. /\ fds \in Seq(PollFds) /\ map \in [Fds -> Events \cup {None}] /\ ev \in [Events -> EventRecords]
      /\ ev[e].fd \in Fds /\ ev[e].events \in SUBSET Interest /\ ev[e].index \in Int
  BY DEF Polls, PollTypes, EventRecords
<1>2. pfd \in PollFds
  BY <1>1 DEF PollFds
<1>3. p.fds = fds /\ p.map = map /\ p.event = ev
  OBVIOUS
<1>4. DOMAIN fds = 1 .. Len(fds) /\ Len(fds) \in Nat
  BY <1>1, LenProperties
<1> HIDE DEF p, pfd, known, i
<1>5. CASE ev[e].index < 0 /\ ~ known
  <2> DEFINE F == Append(fds, pfd)
             M == [map EXCEPT ![ev[e].fd] = e]
             E == [ev EXCEPT ![e].index = Len(fds)]
  <2>1. q = [fds |-> F, map |-> M, event |-> E]
    BY <1>5, <1>3, Zenon DEF UpdateEvent, p, pfd, known
  <2>2. F \in Seq(PollFds)
    BY <1>1, <1>2, AppendProperties
  <2>3. E \in [Events -> EventRecords] /\ SameEvents(E, ev)
    <3>1. Len(fds) \in Int
      BY <1>4
    <3>. QED
      BY <3>1, Replaced
  <2> HIDE DEF F, E
  <2>4. Polls(F, M, E)
    BY <2>2, <2>3, StaysPolled
  <2> HIDE DEF M
  <2>. QED
    BY <2>1, <2>3, <2>4, MadePoller
<1>6. CASE ev[e].index >= 0 /\ known /\ i \in DOMAIN fds
  <2> DEFINE F == [fds EXCEPT ![i].events = ev[e].events]
  <2>1. F \in Seq(PollFds)
    <3>1. fds[i] \in PollFds
      BY <1>1, <1>6, <1>4
    <3>2. [fds[i] EXCEPT !.events = ev[e].events] \in PollFds
      BY <3>1, <1>1 DEF PollFds
    <3>3. F = [fds EXCEPT ![i] = [fds[i] EXCEPT !.events = ev[e].events]]
      BY <1>6
    <3>. QED
      BY <3>2, <3>3, <1>1, <1>4, <1>6, ExceptSeq
  <2>2. q = [fds |-> F, map |-> map, event |-> ev]
    <3>1. q = [p EXCEPT !.fds[i].events = ev[e].events]
      <4>1. ~ ev[e].index < 0
        BY <1>6, <1>1
      <4>. QED
        BY <4>1, <1>6, <1>3, Zenon DEF UpdateEvent, p, known, i, Reaches
    <3>2. [p EXCEPT !.fds[i].events = ev[e].events] = [p EXCEPT !.fds = F]
      BY <1>3
    <3> HIDE DEF F
    <3>. QED
      BY <3>1, <3>2 DEF p
  <2> HIDE DEF F
  <2>3. Polls(F, map, ev)
    BY <2>1, <1>1, SameItself, StaysPolled
  <2>. QED
    BY <2>2, <2>3, SameItself, MadePoller
<1>7. CASE ~ (ev[e].index < 0 /\ ~ known) /\ ~ (ev[e].index >= 0 /\ known /\ i \in DOMAIN fds)
  <2>1. q = [fds |-> fds, map |-> map, event |-> ev]
    BY <1>7, <1>3, Zenon DEF UpdateEvent, p, pfd, known, i, Reaches
  <2>. QED
    BY <2>1, SameItself, MadePoller
<1>. QED
  BY <1>5, <1>6, <1>7

(* RemoveEvent, whatever the index of the Event (poll_poller.cc). *)
LEMMA RemoveKeeps ==
  ASSUME NEW fds, NEW map, NEW ev, Polls(fds, map, ev), NEW e \in Events, ev[e].life # "none"
  PROVE  \A q : q = RemoveEvent([fds |-> fds, map |-> map, event |-> ev], e) => IsPoller(q) /\ SameEvents(q.event, ev)
<1> SUFFICES ASSUME NEW q, q = RemoveEvent([fds |-> fds, map |-> map, event |-> ev], e)
             PROVE  IsPoller(q) /\ SameEvents(q.event, ev)
  OBVIOUS
<1> DEFINE p == [fds |-> fds, map |-> map, event |-> ev]
           n == Len(fds)
           i == ev[e].index + 1
           F == SubSeq([fds EXCEPT ![i] = fds[n]], 1, n - 1)
           M == [map EXCEPT ![ev[e].fd] = None]
           moved == map[fds[n].fd]
           gone == [fds |-> F, map |-> M, event |-> ev]
<1>1. /\ fds \in Seq(PollFds) /\ map \in [Fds -> Events \cup {None}] /\ ev \in [Events -> EventRecords]
      /\ ev[e].fd \in Fds /\ ev[e].index \in Int /\ i \in Int
  BY DEF Polls, PollTypes, EventRecords
<1>2. p.fds = fds /\ p.map = map /\ p.event = ev
  OBVIOUS
<1>3. DOMAIN fds = 1 .. n /\ n \in Nat
  BY <1>1, LenProperties
<1>4. CASE i \notin DOMAIN fds
  <2>1. q = [fds |-> fds, map |-> map, event |-> ev]
    BY <1>4, <1>2, Zenon DEF RemoveEvent, Reaches
  <2>. QED
    BY <2>1, SameItself, MadePoller
<1>5. CASE i \in DOMAIN fds
  <2>1. F \in Seq(PollFds)
    <3>1. i \in 1 .. n /\ n \in 1 .. n /\ fds[n] \in PollFds
      BY <1>1, <1>3, <1>5, ElementOfSeq
    <3>2. PICK G : G = [fds EXCEPT ![i] = fds[n]]
      OBVIOUS
    <3>3. G \in Seq(PollFds) /\ Len(G) = n
      BY <3>1, <3>2, <1>1, ExceptSeq
    <3>4. \A j \in 1 .. n - 1 : G[j] \in PollFds
      BY <3>3, <1>3, ElementOfSeq
    <3>5. SubSeq(G, 1, n - 1) \in Seq(PollFds)
      BY <3>4, <1>3, SubSeqProperties
    <3>. QED
      BY <3>2, <3>5
  <2>2. q = IF i = n THEN gone ELSE IF moved = None THEN gone ELSE [gone EXCEPT !.event[moved].index = i - 1]
    BY <1>5, <1>2, Zenon DEF RemoveEvent, Reaches
  <2>3. gone.event = ev /\ gone.fds = F /\ gone.map = M
    OBVIOUS
  <2> HIDE DEF F, M
  <2>4. CASE q = gone
    <3>1. Polls(F, M, ev)
      BY <2>1, <1>1, SameItself, StaysPolled DEF M
    <3>. QED
      BY <2>4, <3>1, SameItself, MadePoller
  <2>5. CASE moved # None /\ q = [gone EXCEPT !.event[moved].index = i - 1]
    <3> DEFINE E == [ev EXCEPT ![moved].index = i - 1]
    <3>1. moved \in Events
      <4>1. n \in 1 .. n /\ fds[n] \in PollFds
        BY <1>1, <1>3, <1>5, ElementOfSeq
      <4>. QED
        BY <4>1, <2>5, <1>1 DEF PollFds
    <3>2. E \in [Events -> EventRecords] /\ SameEvents(E, ev)
      <4>1. i - 1 \in Int
        BY <1>1
      <4>. QED
        BY <4>1, <3>1, Replaced
    <3>3. q = [fds |-> F, map |-> M, event |-> E]
      <4>1. [gone EXCEPT !.event[moved].index = i - 1] = [gone EXCEPT !.event = E]
        BY <2>3
      <4> HIDE DEF E
      <4>. QED
        BY <4>1, <2>5
    <3> HIDE DEF E
    <3>4. Polls(F, M, E)
      BY <3>2, <2>1, <1>1, StaysPolled DEF M
    <3>. QED
      BY <3>2, <3>3, <3>4, MadePoller
  <2>. QED
    BY <2>2, <2>4, <2>5, Zenon
<1>. QED
  BY <1>4, <1>5

\* What a call makes of the Events other than its own.
OthersSame(E, ev, e) ==
  \A d \in Events \ {e} : E[d].life = ev[d].life /\ E[d].fd = ev[d].fd /\ E[d].events = ev[d].events

(* EnableReading and its like set what the Event wants. *)
LEMMA InterestKeeps ==
  ASSUME NEW fds, NEW map, NEW ev, Polls(fds, map, ev), NEW e \in Events, ev[e].life # "none",
         NEW wanted \in SUBSET Interest
  PROVE  \A q : q = Interested([fds |-> fds, map |-> map, event |-> ev], e, wanted)
           => IsPoller(q) /\ OthersSame(q.event, ev, e) /\ q.event[e].life = ev[e].life /\ q.event[e].events = wanted
<1> DEFINE E == [ev EXCEPT ![e] = [ev[e] EXCEPT !.events = wanted]]
<1>1. ev \in [Events -> EventRecords]
  BY DEF Polls, PollTypes
<1>2. /\ E \in [Events -> EventRecords] /\ E[e].life = ev[e].life /\ E[e].fd = ev[e].fd /\ E[e].events = wanted
      /\ \A d \in Events \ {e} : E[d] = ev[d]
  BY <1>1 DEF EventRecords
<1> HIDE DEF E
<1>3. Polls(fds, map, E)
  BY <1>1, <1>2 DEF Polls, PollTypes
<1>4. \A q : q = Interested([fds |-> fds, map |-> map, event |-> ev], e, wanted)
        => q = UpdateEvent([fds |-> fds, map |-> map, event |-> E], e)
  BY InterestedUpdates DEF E
<1>5. \A q : q = UpdateEvent([fds |-> fds, map |-> map, event |-> E], e) => IsPoller(q) /\ SameEvents(q.event, E)
  BY <1>2, <1>3, UpdateKeeps
<1>. QED
  BY <1>2, <1>4, <1>5 DEF SameEvents, OthersSame

(* The calls of a connection that closes. *)
LEMMA ClosedKeeps ==
  ASSUME NEW fds, NEW map, NEW ev, Polls(fds, map, ev), NEW e \in Events, ev[e].life # "none"
  PROVE  \A q : q = Closed([fds |-> fds, map |-> map, event |-> ev], e)
           => IsPoller(q) /\ OthersSame(q.event, ev, e) /\ q.event[e].life = "closed"
<1> SUFFICES ASSUME NEW q, q = Closed([fds |-> fds, map |-> map, event |-> ev], e)
             PROVE  IsPoller(q) /\ OthersSame(q.event, ev, e) /\ q.event[e].life = "closed"
  OBVIOUS
<1>1. PICK r : r = Interested([fds |-> fds, map |-> map, event |-> ev], e, {})
  OBVIOUS
<1>2. IsPoller(r) /\ OthersSame(r.event, ev, e) /\ r.event[e].life = ev[e].life
  BY <1>1, InterestKeeps
<1>3. PICK F, M, E : F = r.fds /\ M = r.map /\ E = r.event
  OBVIOUS
<1>4. Polls(F, M, E) /\ r = [fds |-> F, map |-> M, event |-> E] /\ E[e].life # "none"
  BY <1>2, <1>3 DEF IsPoller
<1>5. PICK s : s = RemoveEvent([fds |-> F, map |-> M, event |-> E], e)
  OBVIOUS
<1>6. IsPoller(s) /\ SameEvents(s.event, E)
  BY <1>4, <1>5, RemoveKeeps
<1>7. q = [s EXCEPT !.event[e].life = "closed"]
  BY <1>1, <1>4, <1>5, Zenon DEF Closed
<1>8. PICK G, N, D : G = s.fds /\ N = s.map /\ D = s.event
  OBVIOUS
<1>9. Polls(G, N, D) /\ s = [fds |-> G, map |-> N, event |-> D]
  BY <1>6, <1>8 DEF IsPoller
<1>10. q = [fds |-> G, map |-> N, event |-> [D EXCEPT ![e].life = "closed"]]
  BY <1>7, <1>9
<1> DEFINE C == [D EXCEPT ![e].life = "closed"]
<1>11. D \in [Events -> EventRecords]
  BY <1>9 DEF Polls, PollTypes
<1>12. C \in [Events -> EventRecords] /\ C[e].life = "closed" /\ C[e].fd = D[e].fd /\ \A d \in Events \ {e} : C[d] = D[d]
  BY <1>11 DEF EventRecords
<1> HIDE DEF C
<1>13. D[e].life # "none"
  BY <1>4, <1>6, <1>8 DEF SameEvents
<1>14. Polls(G, N, C)
  BY <1>9, <1>12, <1>13 DEF Polls, PollTypes
<1>15. IsPoller(q) /\ q.event = C
  <2>1. q = [fds |-> G, map |-> N, event |-> C]
    BY <1>10 DEF C
  <2>. QED
    BY <2>1, <1>14, MadePoller
<1>. QED
  BY <1>15, <1>12, <1>2, <1>3, <1>6, <1>8 DEF OthersSame, SameEvents

LEMMA PollerParts ==
  ASSUME NEW q, IsPoller(q)
  PROVE  \E F, M, E : Polls(F, M, E) /\ q = [fds |-> F, map |-> M, event |-> E] /\ q.event = E
BY DEF IsPoller

LEMMA PollerInterest ==
  ASSUME NEW q, IsPoller(q), NEW e \in Events, q.event[e].life # "none", NEW wanted \in SUBSET Interest,
         NEW r, r = Interested(q, e, wanted)
  PROVE  IsPoller(r) /\ OthersSame(r.event, q.event, e) /\ r.event[e].life = q.event[e].life /\ r.event[e].events = wanted
<1>1. PICK F, M, E : Polls(F, M, E) /\ q = [fds |-> F, map |-> M, event |-> E] /\ q.event = E
  BY PollerParts
<1>2. E[e].life # "none"
  BY <1>1
<1>3. \A x : x = Interested([fds |-> F, map |-> M, event |-> E], e, wanted)
        => IsPoller(x) /\ OthersSame(x.event, E, e) /\ x.event[e].life = E[e].life /\ x.event[e].events = wanted
  BY <1>1, <1>2, InterestKeeps
<1>. QED
  BY <1>1, <1>3

LEMMA PollerClosed ==
  ASSUME NEW q, IsPoller(q), NEW e \in Events, q.event[e].life # "none", NEW r, r = Closed(q, e)
  PROVE  IsPoller(r) /\ OthersSame(r.event, q.event, e) /\ r.event[e].life = "closed"
<1>1. PICK F, M, E : Polls(F, M, E) /\ q = [fds |-> F, map |-> M, event |-> E] /\ q.event = E
  BY PollerParts
<1>2. E[e].life # "none"
  BY <1>1
<1>3. \A x : x = Closed([fds |-> F, map |-> M, event |-> E], e)
        => IsPoller(x) /\ OthersSame(x.event, E, e) /\ x.event[e].life = "closed"
  BY <1>1, <1>2, ClosedKeeps
<1>. QED
  BY <1>1, <1>3

-----------------------------------------------------------------------------
(* What holds of the loop between any two calls.  X are the connections of   *)
(* which a call has changed what they wait for and not yet woken them.       *)
Places == {"start", "read", "woken_read", "message", "send", "woken_write", "ended"}
CoRecords == [state : {"READY", "EXEC", "HOLD"}, pc : Places, waits : Nat, messages : Nat]
ConnRecords == [state : {"none", "connect", "closed"}, triggered : BOOLEAN, session : BOOLEAN, removals : Nat]
Histories == [closes : [Events -> Nat], outside : BOOLEAN, both : BOOLEAN]
Fields == {"q", "running", "hold", "ready", "co", "conn", "timers", "broken", "history"}
Typed(w) ==
  /\ DOMAIN w = Fields /\ IsPoller(w.q)
  /\ w.running \in Seq(Coros) /\ w.ready \in Seq(Coros) /\ w.hold \in Seq(Servers)
  /\ w.co \in [Events -> CoRecords] /\ w.conn \in [Events -> ConnRecords]
  /\ w.timers \in [TimerIds -> {"none", "armed", "popped", "deleted"}]
  /\ w.history \in Histories
Due(w) == ToSet(w.running) \cup ToSet(w.ready)
Held(w) == ToSet(w.hold)
\* No coroutine is in two lists, or in one twice.
Apart(w) ==
  /\ Once(w.running) /\ Once(w.hold) /\ Once(w.ready)
  /\ ToSet(w.running) \cap ToSet(w.ready) = {} /\ Held(w) \cap Due(w) = {}
\* The coroutine of a connection that is made is in one, until it ended.
Placed(w) ==
  \A c \in Events :
    /\ w.q.event[c].life = "none" => Server(c) \notin Due(w) \cup Held(w)
    /\ w.q.event[c].life # "none" => Server(c) \in Due(w) \cup Held(w) \/ w.co[c].pc = "ended"
\* The coroutine of a timer runs once, and a timer is made at a wait.
Timed(w) ==
  /\ \A t \in TimerIds : OnTimeout(t) \in Due(w) => w.timers[t] \in {"popped", "deleted"}
  /\ \A t \in TimerIds : t[2] > w.co[t[1]].waits => w.timers[t] = "none"
  /\ \A c \in Events : w.co[c].pc = "start" => w.co[c].waits = 0
Closing(w) == \A c \in Events : OnClose(c) \in Due(w) => w.history.outside /\ w.co[c].pc # "start"
\* What a connection is, where its coroutine is at pc and its Event lives so.
ConnFits(pc, n, life) ==
  /\ pc = "start" => n.state = "none"
  /\ n.state = "none" => pc = "start" /\ life \in {"none", "open"} /\ n.removals = 0
  /\ n.state = "connect" => life = "open" /\ n.removals = 0
  /\ n.state = "closed" => life # "none"
Conns(w) == \A c \in Events : ConnFits(w.co[c].pc, w.conn[c], w.q.event[c].life)
Wanted(pc) == IF pc = "woken_read" THEN "READ" ELSE "WRITE"
HoldIsHold(w) == \A c \in Events : Server(c) \in Held(w) => w.co[c].state = "HOLD"
Holding(w, X) ==
  \A c \in Events \ X : Server(c) \in Held(w) =>
    /\ w.conn[c].state = "connect" /\ Wanted(w.co[c].pc) \in w.q.event[c].events
    /\ LET t == <<c, w.co[c].waits>>
       IN  t \in TimerIds /\ (w.timers[t] = "armed" \/ (w.timers[t] = "popped" /\ OnTimeout(t) \in Due(w)))
Fits(w) == Placed(w) /\ Timed(w) /\ Closing(w) /\ Conns(w) /\ HoldIsHold(w)
Good(w, X) == Typed(w) /\ Apart(w) /\ Fits(w) /\ Holding(w, X)

CoInv == Sound => Good(World, {}) /\ (cur # Idle => running # <<>> /\ cur = Head(running))

(* The invariant says what the property of the coroutines says, and more. *)
LEMMA HeldFollows == CoInv => HeldAreWoken
<1> SUFFICES ASSUME CoInv, Sound PROVE HeldAreWoken
  BY DEF HeldAreWoken
<1>1. /\ World.running = running /\ World.hold = hold /\ World.ready = ready /\ World.co = co
      /\ World.conn = conn /\ World.timers = timers /\ World.q.event = event
  BY DEF World, Poller
<1>2. Good(World, {}) /\ (cur # Idle => running # <<>> /\ cur = Head(running))
  BY DEF CoInv
<1> HIDE DEF World
<1>3. running \in Seq(Coros) /\ ready \in Seq(Coros) /\ Once(running) /\ Once(hold) /\ Once(ready)
      /\ ToSet(running) \cap ToSet(ready) = {}
  BY <1>1, <1>2 DEF Good, Typed, Apart
<1>4. ToSet(running \o ready) = Due(World)
  BY <1>1, <1>3, Joined DEF Due
<1>5. ASSUME NEW c \in Listed(hold)
      PROVE  /\ c \notin Listed(running) \cup Listed(ready) /\ co[c].state = "HOLD"
             /\ conn[c].state = "connect" /\ event[c].life = "open" /\ WaitsFor(c) \in event[c].events
             /\ \/ timers[Timer(c)] = "armed"
                \/ timers[Timer(c)] = "popped" /\ OnTimeout(Timer(c)) \in ToSet(running \o ready)
  <2>1. c \in Events /\ Server(c) \in Held(World)
    BY <1>1 DEF Listed, Held
  <2>2. Server(c) \notin ToSet(running) /\ Server(c) \notin ToSet(ready)
    BY <2>1, <1>1, <1>2 DEF Good, Apart, Due
  <2>3. co[c].state = "HOLD"
    BY <2>1, <1>1, <1>2 DEF Good, Fits, HoldIsHold
  <2>4. /\ conn[c].state = "connect" /\ Wanted(co[c].pc) \in event[c].events
        /\ \/ timers[<<c, co[c].waits>>] = "armed"
           \/ timers[<<c, co[c].waits>>] = "popped" /\ OnTimeout(<<c, co[c].waits>>) \in Due(World)
    BY <2>1, <1>1, <1>2 DEF Good, Holding
  <2>5. event[c].life = "open"
    BY <2>1, <2>4, <1>1, <1>2 DEF Good, Fits, Conns, ConnFits
  <2>6. WaitsFor(c) = Wanted(co[c].pc) /\ Timer(c) = <<c, co[c].waits>>
    BY DEF WaitsFor, Wanted, Timer
  <2>. QED
    BY <2>2, <2>3, <2>4, <2>5, <2>6, <1>4 DEF Listed
<1>6. \A c \in Events : c \in Listed(running \o ready) \/ c \in Listed(hold) \/ co[c].pc = "ended" \/ event[c].life = "none"
  BY <1>1, <1>2, <1>4 DEF Good, Fits, Placed, Listed, Held
<1>. QED
  BY <1>2, <1>3, <1>5, <1>6 DEF HeldAreWoken

-----------------------------------------------------------------------------
(* The calls, on the record.                                                 *)
SameLists(v, w) == v.running = w.running /\ v.hold = w.hold /\ v.ready = w.ready
\* What the coroutine of a connection does is not changed by what wakes it.
SameWaits(v, w) == \A d \in Events : v.co[d].pc = w.co[d].pc /\ v.co[d].waits = w.co[d].waits
SameHead(v, w) == w.running # <<>> => v.running # <<>> /\ Head(v.running) = Head(w.running)

(* Those that hold are not excused when none of them is among the excused. *)
LEMMA Excused ==
  ASSUME NEW w, NEW c \in Events, Good(w, {c}), Server(c) \notin Held(w)
  PROVE  Good(w, {})
BY DEF Good, Holding

(* SetState(READY) moves the coroutine from the list of those that hold to   *)
(* the end of the running ones (co_eventloop.cc, coroutine.cc).              *)
LEMMA Readied ==
  ASSUME NEW w, NEW c \in Events, Good(w, {c}), NEW v, v = SetReady(w, c), v.broken = "no"
  PROVE  /\ Good(v, {}) /\ Server(c) \notin Held(v) /\ SameWaits(v, w) /\ SameHead(v, w)
         /\ v.q = w.q /\ v.conn = w.conn /\ v.timers = w.timers /\ v.history = w.history
<1>1. CASE w.co[c].state = "READY"
  <2>1. v = w
    BY <1>1 DEF SetReady
  <2>2. Server(c) \notin Held(w)
    BY <1>1 DEF Good, Fits, HoldIsHold
  <2>. QED
    BY <2>1, <2>2, Excused DEF SameWaits, SameHead
<1>2. CASE w.co[c].state # "READY"
  <2>1. /\ DOMAIN w = Fields /\ w.running \in Seq(Coros) /\ w.hold \in Seq(Servers) /\ w.co \in [Events -> CoRecords]
        /\ Server(c) \in Coros
    BY DEF Good, Typed, Coros, Servers
  <2>2. Server(c) \in ToSet(w.hold)
    <3>1. ASSUME Server(c) \notin ToSet(w.hold) PROVE FALSE
      <4>1. v = [w EXCEPT !.broken = "list"]
        BY <1>2, <3>1 DEF SetReady, Breaks
      <4>. QED
        BY <4>1, <2>1 DEF Fields
    <3>. QED
      BY <3>1
  <2> DEFINE R == Append(w.running, Server(c))
             H == Without(w.hold, Server(c))
             K == [w.co EXCEPT ![c].state = "READY"]
  <2>3. v = [w EXCEPT !.co[c].state = "READY", !.hold = H, !.running = R]
    BY <1>2, <2>2 DEF SetReady
  <2>4. /\ R \in Seq(Coros) /\ Once(R) /\ ToSet(R) = ToSet(w.running) \cup {Server(c)}
        /\ R # <<>> /\ (w.running # <<>> => Head(R) = Head(w.running))
    <3>1. Server(c) \notin ToSet(w.running) /\ Once(w.running)
      BY <2>2 DEF Good, Apart, Due, Held
    <3>. QED
      BY <3>1, <2>1, Appended
  <2>5. H \in Seq(Servers) /\ Once(H) /\ ToSet(H) = ToSet(w.hold) \ {Server(c)}
    <3>1. Once(w.hold)
      BY DEF Good, Apart
    <3>. QED
      BY <3>1, <2>1, <2>2, Erased
  <2>6. /\ K \in [Events -> CoRecords] /\ K[c].state = "READY" /\ K[c].pc = w.co[c].pc /\ K[c].waits = w.co[c].waits
        /\ \A d \in Events \ {c} : K[d] = w.co[d]
    BY <2>1 DEF CoRecords
  <2> HIDE DEF R, H
  <2>7. /\ DOMAIN v = Fields /\ v.q = w.q /\ v.running = R /\ v.hold = H /\ v.ready = w.ready /\ v.co = K
        /\ v.conn = w.conn /\ v.timers = w.timers /\ v.history = w.history
    BY <2>1, <2>3 DEF Fields
  <2> HIDE DEF K
  <2>8. Typed(v)
    BY <2>4, <2>5, <2>6, <2>7 DEF Good, Typed
  <2>9. Due(v) = Due(w) \cup {Server(c)} /\ Held(v) = Held(w) \ {Server(c)}
    BY <2>4, <2>5, <2>7 DEF Due, Held
  <2>10. Apart(v)
    <3>1. Server(c) \notin ToSet(w.ready)
      BY <2>2 DEF Good, Apart, Due, Held
    <3>2. ToSet(v.running) \cap ToSet(v.ready) = {}
      BY <2>4, <2>7, <3>1 DEF Good, Apart
    <3>3. Held(v) \cap Due(v) = {}
      BY <2>9 DEF Good, Apart
    <3>. QED
      BY <2>4, <2>5, <2>7, <3>2, <3>3 DEF Good, Apart
  <2>11. SameWaits(v, w)
    BY <2>6, <2>7 DEF SameWaits
  <2>12. Placed(v) /\ Closing(v) /\ Conns(v) /\ HoldIsHold(v)
    <3>1. Placed(v)
      BY <2>2, <2>7, <2>9, <2>11 DEF Good, Fits, Placed, SameWaits, Due, Held
    <3>2. Closing(v)
      BY <2>7, <2>9, <2>11, CorosDiffer DEF Good, Fits, Closing, SameWaits
    <3>3. Conns(v)
      <4>1. Conns(w)
        BY DEF Good, Fits
      <4>. QED
        BY <2>7, <2>11, <4>1 DEF Conns, SameWaits
    <3>4. HoldIsHold(v)
      BY <2>6, <2>7, <2>9 DEF Good, Fits, HoldIsHold
    <3>. QED
      BY <3>1, <3>2, <3>3, <3>4
  <2>13. Timed(v)
    <3>1. \A t \in TimerIds : OnTimeout(t) \in Due(v) => OnTimeout(t) \in Due(w)
      BY <2>9, CorosDiffer
    <3>2. \A t \in TimerIds : t[1] \in Events
      BY DEF TimerIds
    <3>. QED
      BY <2>7, <2>11, <3>1, <3>2 DEF Good, Fits, Timed, SameWaits
  <2>14. Holding(v, {})
    <3> SUFFICES ASSUME NEW d \in Events, Server(d) \in Held(v)
                 PROVE  /\ v.conn[d].state = "connect" /\ Wanted(v.co[d].pc) \in v.q.event[d].events
                        /\ <<d, v.co[d].waits>> \in TimerIds
                        /\ \/ v.timers[<<d, v.co[d].waits>>] = "armed"
                           \/ (v.timers[<<d, v.co[d].waits>>] = "popped" /\ OnTimeout(<<d, v.co[d].waits>>) \in Due(v))
      BY DEF Holding
    <3>1. d # c /\ Server(d) \in Held(w)
      BY <2>9
    <3>2. v.co[d].pc = w.co[d].pc /\ v.co[d].waits = w.co[d].waits
      BY <2>11 DEF SameWaits
    <3>3. /\ w.conn[d].state = "connect" /\ Wanted(w.co[d].pc) \in w.q.event[d].events
          /\ <<d, w.co[d].waits>> \in TimerIds
          /\ \/ w.timers[<<d, w.co[d].waits>>] = "armed"
             \/ (w.timers[<<d, w.co[d].waits>>] = "popped" /\ OnTimeout(<<d, w.co[d].waits>>) \in Due(w))
      BY <3>1 DEF Good, Holding
    <3>. QED
      BY <2>7, <2>9, <3>2, <3>3
  <2>15. SameHead(v, w)
    BY <2>4, <2>7 DEF SameHead
  <2>. QED
    BY <2>7, <2>8, <2>9, <2>10, <2>11, <2>12, <2>13, <2>14, <2>15 DEF Good, Fits
<1>. QED
  BY <1>1, <1>2

(* What is broken stays broken. *)
LEMMA ReadyBreaks ==
  ASSUME NEW w, DOMAIN w = Fields, NEW c, NEW v, v = SetReady(w, c)
  PROVE  DOMAIN v = Fields /\ (v.broken = "no" => w.broken = "no")
<1>1. CASE w.co[c].state = "READY"
  BY <1>1 DEF SetReady
<1>2. CASE w.co[c].state # "READY" /\ Server(c) \notin ToSet(w.hold)
  <2>1. v = [w EXCEPT !.broken = "list"]
    BY <1>2 DEF SetReady, Breaks
  <2>. QED
    BY <2>1 DEF Fields
<1>3. CASE w.co[c].state # "READY" /\ Server(c) \in ToSet(w.hold)
  <2> DEFINE R == Append(w.running, Server(c))
             H == Without(w.hold, Server(c))
  <2>1. v = [w EXCEPT !.co[c].state = "READY", !.hold = H, !.running = R]
    BY <1>3 DEF SetReady
  <2> HIDE DEF R, H
  <2>. QED
    BY <2>1 DEF Fields
<1>. QED
  BY <1>1, <1>2, <1>3

\* The interest of an Event changes; its coroutine is to be woken.
Rewanted(w, c, wanted) == [w EXCEPT !.q = Interested(w.q, c, wanted)]
(* It changes nothing else of the loop. *)
LEMMA Unwanted ==
  ASSUME NEW w, NEW c \in Events, Good(w, {}), w.q.event[c].life # "none", NEW wanted \in SUBSET Interest,
         NEW v, v = Rewanted(w, c, wanted)
  PROVE  Good(v, {c}) /\ SameLists(v, w) /\ v.co = w.co /\ v.conn = w.conn /\ v.timers = w.timers
         /\ v.broken = w.broken /\ v.history = w.history /\ v.q.event[c].life = w.q.event[c].life
<1>1. PICK r : r = Interested(w.q, c, wanted)
  OBVIOUS
<1>2. IsPoller(r) /\ OthersSame(r.event, w.q.event, c) /\ r.event[c].life = w.q.event[c].life
  BY <1>1, PollerInterest DEF Good, Typed
<1>3. v = [w EXCEPT !.q = r] /\ DOMAIN w = Fields
  BY <1>1 DEF Good, Typed, Rewanted
<1>4. /\ DOMAIN v = Fields /\ v.q = r /\ v.running = w.running /\ v.hold = w.hold /\ v.ready = w.ready /\ v.co = w.co
      /\ v.conn = w.conn /\ v.timers = w.timers /\ v.broken = w.broken /\ v.history = w.history
  BY <1>3 DEF Fields
<1>5. \A d \in Events : v.q.event[d].life = w.q.event[d].life /\ (d # c => v.q.event[d].events = w.q.event[d].events)
  BY <1>2, <1>4 DEF OthersSame
<1>6. Due(v) = Due(w) /\ Held(v) = Held(w)
  BY <1>4 DEF Due, Held
<1>7. Typed(v)
  BY <1>2, <1>4 DEF Good, Typed
<1>8. Apart(v)
  BY <1>4, <1>6 DEF Good, Apart
<1>9. Placed(v)
  BY <1>4, <1>5, <1>6 DEF Good, Fits, Placed
<1>10. Timed(v) /\ Closing(v) /\ HoldIsHold(v)
  BY <1>4, <1>6 DEF Good, Fits, Timed, Closing, HoldIsHold
<1>11. Conns(v)
  <2>1. Conns(w)
    BY DEF Good, Fits
  <2>. QED
    BY <1>4, <1>5, <2>1 DEF Conns
<1>12. Holding(v, {c})
  <2>1. Holding(w, {})
    BY DEF Good
  <2>. QED
    BY <1>4, <1>5, <1>6, <2>1 DEF Holding
<1>. QED
  BY <1>4, <1>5, <1>7, <1>8, <1>9, <1>10, <1>11, <1>12 DEF Good, Fits, SameLists

(* handleClose of a connection whose coroutine has started: afterwards it    *)
(* holds no more (co_tcpconnection.cc).                                      *)
LEMMA ConnCloses ==
  ASSUME NEW w, NEW c \in Events, Good(w, {}), w.co[c].pc # "start", NEW v, v = HandleClose(w, c), v.broken = "no"
  PROVE  /\ Good(v, {}) /\ Server(c) \notin Held(v) /\ SameWaits(v, w) /\ SameHead(v, w)
         /\ v.timers = w.timers
<1>1. PICK w1 : w1 = [w EXCEPT !.conn[c].state = "closed"]
  OBVIOUS
<1>2. PICK w2 : w2 = [w1 EXCEPT !.conn[c].triggered = TRUE]
  OBVIOUS
<1>3. PICK t : t = TriggerEvent(w1, c)
  OBVIOUS
<1>4. v = Breaks(w, "poller")
      \/ v = [t EXCEPT !.q = Closed(@, c), !.conn[c].session = FALSE, !.conn[c].removals = @ + 1, !.history.closes[c] = @ + 1]
  BY <1>1, <1>3, Zenon DEF HandleClose
<1>5. DOMAIN w = Fields /\ w.conn \in [Events -> ConnRecords] /\ w.conn[c].state # "none"
  BY DEF Good, Typed, Fits, Conns, ConnFits
<1>6. v = [t EXCEPT !.q = Closed(@, c), !.conn[c].session = FALSE, !.conn[c].removals = @ + 1, !.history.closes[c] = @ + 1]
  <2>1. ASSUME v = Breaks(w, "poller") PROVE FALSE
    BY <2>1, <1>5 DEF Breaks, Fields
  <2>. QED
    BY <2>1, <1>4
<1> DEFINE N == [w.conn EXCEPT ![c] = [w.conn[c] EXCEPT !.state = "closed", !.triggered = TRUE]]
<1>7. /\ DOMAIN w2 = Fields /\ w2.conn = N /\ w2.q = w.q /\ SameLists(w2, w) /\ w2.co = w.co
      /\ w2.timers = w.timers /\ w2.broken = w.broken /\ w2.history = w.history
  <2>1. /\ DOMAIN w1 = Fields /\ w1.conn = [w.conn EXCEPT ![c].state = "closed"] /\ w1.q = w.q /\ SameLists(w1, w)
        /\ w1.co = w.co /\ w1.timers = w.timers /\ w1.broken = w.broken /\ w1.history = w.history
    BY <1>1, <1>5 DEF Fields, SameLists
  <2>2. /\ DOMAIN w2 = Fields /\ w2.conn = [w1.conn EXCEPT ![c].triggered = TRUE] /\ w2.q = w1.q /\ SameLists(w2, w1)
        /\ w2.co = w1.co /\ w2.timers = w1.timers /\ w2.broken = w1.broken /\ w2.history = w1.history
    BY <1>2, <2>1 DEF Fields, SameLists
  <2>3. w2.conn = N
    BY <2>1, <2>2, <1>5 DEF ConnRecords
  <2>. QED
    BY <2>1, <2>2, <2>3 DEF SameLists
<1>8. /\ N \in [Events -> ConnRecords] /\ N[c].state = "closed" /\ N[c].removals = w.conn[c].removals
      /\ \A d \in Events \ {c} : N[d] = w.conn[d]
  BY <1>5 DEF ConnRecords
<1> HIDE DEF N
<1>9. Good(w2, {c})
  <2>1. Due(w2) = Due(w) /\ Held(w2) = Held(w)
    BY <1>7 DEF Due, Held, SameLists
  <2>2. Typed(w2)
    BY <1>7, <1>8 DEF Good, Typed, SameLists
  <2>3. Apart(w2)
    BY <1>7, <2>1 DEF Good, Apart, SameLists
  <2>4. Placed(w2) /\ Timed(w2) /\ Closing(w2) /\ HoldIsHold(w2)
    BY <1>7, <2>1 DEF Good, Fits, Placed, Timed, Closing, HoldIsHold
  <2>5. Conns(w2)
    <3>1. Conns(w)
      BY DEF Good, Fits
    <3>2. w.q.event[c].life # "none"
      BY <3>1, <1>5 DEF Conns, ConnFits, ConnRecords
    <3>3. ConnFits(w2.co[c].pc, w2.conn[c], w2.q.event[c].life)
      BY <1>7, <1>8, <3>2 DEF ConnFits
    <3>. QED
      BY <1>7, <1>8, <3>1, <3>3 DEF Conns
  <2>6. Holding(w2, {c})
    BY <1>7, <1>8, <2>1 DEF Good, Holding
  <2>. QED
    BY <2>2, <2>3, <2>4, <2>5, <2>6 DEF Good, Fits
<1>10. /\ Good(t, {}) /\ Server(c) \notin Held(t) /\ SameWaits(t, w) /\ SameHead(t, w) /\ t.timers = w.timers
       /\ t.conn = N
  <2>1. w1.q.event = w.q.event
    BY <1>1, <1>5 DEF Fields
  <2>2. CASE w.q.event[c].events = {}
    <3>1. t = w2
      BY <1>2, <1>3, <2>1, <2>2 DEF TriggerEvent
    <3>2. Server(c) \notin Held(w)
      <4>1. Holding(w, {})
        BY DEF Good
      <4>. QED
        BY <2>2, <4>1 DEF Holding
    <3>3. Server(c) \notin Held(w2)
      BY <3>2, <1>7 DEF Held, SameLists
    <3>. QED
      BY <3>1, <3>3, <1>7, <1>9, Excused DEF SameWaits, SameHead, SameLists
  <2>3. CASE w.q.event[c].events # {}
    <3>1. t = SetReady(w2, c)
      BY <1>2, <1>3, <2>1, <2>3 DEF TriggerEvent
    <3>2. t.broken = "no"
      <4>1. DOMAIN t = Fields
        BY <1>7, <3>1, ReadyBreaks
      <4>. QED
        BY <4>1, <1>6 DEF Fields
    <3>3. /\ Good(t, {}) /\ Server(c) \notin Held(t) /\ SameWaits(t, w2) /\ SameHead(t, w2)
          /\ t.conn = w2.conn /\ t.timers = w2.timers
      BY <1>9, <3>1, <3>2, Readied
    <3>. QED
      BY <3>3, <1>7 DEF SameWaits, SameHead, SameLists
  <2>. QED
    BY <2>2, <2>3
<1>11. PICK r : r = Closed(t.q, c)
  OBVIOUS
<1>12. /\ DOMAIN t = Fields /\ IsPoller(t.q) /\ t.history \in Histories /\ t.conn \in [Events -> ConnRecords]
       /\ t.q.event[c].life # "none" /\ t.conn[c].state = "closed"
  BY <1>8, <1>10 DEF Good, Typed, Fits, Conns, ConnFits
<1>13. IsPoller(r) /\ OthersSame(r.event, t.q.event, c) /\ r.event[c].life = "closed"
  BY <1>11, <1>12, PollerClosed
<1> DEFINE P == [t.conn EXCEPT ![c] = [t.conn[c] EXCEPT !.session = FALSE, !.removals = @ + 1]]
           B == [t.history EXCEPT !.closes[c] = @ + 1]
<1>14. /\ DOMAIN v = Fields /\ v.q = r /\ SameLists(v, t) /\ v.co = t.co /\ v.conn = P
       /\ v.timers = t.timers /\ v.history = B
  <2>1. v = [t EXCEPT !.q = r, !.conn = P, !.history = B]
    <3>1. v = [t EXCEPT !.q = r, !.conn[c].session = FALSE, !.conn[c].removals = @ + 1, !.history.closes[c] = @ + 1]
      BY <1>6, <1>11
    <3>2. P = [t.conn EXCEPT ![c].session = FALSE, ![c].removals = @ + 1]
      BY <1>12 DEF ConnRecords
    <3>. QED
      BY <3>1, <3>2, <1>12 DEF Fields
  <2> HIDE DEF P, B
  <2>. QED
    BY <2>1, <1>12 DEF Fields, SameLists
<1>15. B \in Histories /\ B.outside = t.history.outside
  BY <1>12 DEF Histories
<1>16. /\ P \in [Events -> ConnRecords] /\ P[c].state = "closed" /\ \A d \in Events \ {c} : P[d] = t.conn[d]
  <2>1. t.conn[c] \in ConnRecords
    BY <1>12
  <2>2. PICK n : n = [t.conn[c] EXCEPT !.session = FALSE, !.removals = @ + 1]
    OBVIOUS
  <2>3. n \in ConnRecords /\ n.state = "closed"
    <3>1. t.conn[c].removals \in Nat
      BY <2>1 DEF ConnRecords
    <3>2. PICK k : k = t.conn[c].removals + 1
      OBVIOUS
    <3>3. k \in Nat
      BY <3>1, <3>2
    <3>4. n = [t.conn[c] EXCEPT !.session = FALSE, !.removals = k]
      BY <2>2, <3>2
    <3>. QED
      BY <2>1, <3>3, <3>4, <1>12 DEF ConnRecords
  <2>4. P = [t.conn EXCEPT ![c] = n]
    BY <2>2
  <2> HIDE DEF P
  <2>. QED
    BY <2>3, <2>4, <1>12
<1> HIDE DEF P, B
<1>17. Due(v) = Due(t) /\ Held(v) = Held(t)
  BY <1>14 DEF Due, Held, SameLists
<1>18. /\ v.q.event[c].life = "closed"
       /\ \A d \in Events \ {c} : v.q.event[d].life = t.q.event[d].life /\ v.q.event[d].events = t.q.event[d].events
  BY <1>12, <1>13, <1>14 DEF OthersSame
<1>19. Typed(v)
  BY <1>10, <1>13, <1>14, <1>15, <1>16 DEF Good, Typed, SameLists
<1>20. Apart(v)
  BY <1>10, <1>14, <1>17 DEF Good, Apart, SameLists
<1>21. Placed(v)
  <2>1. Placed(t)
    BY <1>10 DEF Good, Fits
  <2>2. \A d \in Events : v.q.event[d].life = "none" => t.q.event[d].life = "none"
    BY <1>18
  <2>3. \A d \in Events : v.q.event[d].life # "none" => t.q.event[d].life # "none"
    BY <1>12, <1>18
  <2>. QED
    BY <1>14, <1>17, <2>1, <2>2, <2>3 DEF Placed
<1>22. Timed(v) /\ Closing(v) /\ HoldIsHold(v)
  BY <1>10, <1>14, <1>15, <1>17 DEF Good, Fits, Timed, Closing, HoldIsHold
<1>23. Conns(v)
  <2>1. Conns(t) /\ t.co[c].pc # "start"
    BY <1>10 DEF Good, Fits, SameWaits
  <2>2. ConnFits(v.co[c].pc, v.conn[c], v.q.event[c].life)
    BY <1>14, <1>16, <1>18, <2>1 DEF ConnFits
  <2>. QED
    BY <1>14, <1>16, <1>18, <2>1, <2>2 DEF Conns
<1>24. Holding(v, {})
  <2>1. Holding(t, {})
    BY <1>10 DEF Good
  <2>. QED
    BY <1>10, <1>14, <1>16, <1>17, <1>18, <2>1 DEF Holding
<1>25. Good(v, {})
  BY <1>19, <1>20, <1>21, <1>22, <1>23, <1>24 DEF Good, Fits
<1>. QED
  BY <1>10, <1>14, <1>17, <1>25 DEF SameWaits, SameHead, SameLists

(* An Event that poll() names is handled: its coroutine is woken.            *)
LEMMA EventHandled ==
  ASSUME NEW w, Good(w, {}), pollfds \in Seq(PollFds), NEW i \in DOMAIN pollfds, NEW v, v = HandleEvent1(w, i),
         v.broken = "no"
  PROVE  Good(v, {}) /\ v.timers = w.timers
<1> DEFINE c == w.q.map[pollfds[i].fd]
           wanted == pollfds[i].events
<1>1. pollfds[i].fd \in Fds
  <2>1. pollfds[i] \in PollFds
    BY LenProperties, ElementOfSeq
  <2>. QED
    BY <2>1 DEF PollFds
<1>2. /\ w.q.map \in [Fds -> Events \cup {None}] /\ w.q.event \in [Events -> EventRecords]
      /\ \A fd \in Fds : w.q.map[fd] # None => w.q.event[w.q.map[fd]].life # "none"
  BY DEF Good, Typed, IsPoller, Polls, PollTypes
<1>3. c # None => c \in Events /\ w.q.event[c].life # "none" /\ w.q.event[c].events \ wanted \in SUBSET Interest
  BY <1>1, <1>2 DEF EventRecords
<1>4. v = IF c = None \/ wanted = {} THEN w
          ELSE SetReady([w EXCEPT !.q = Interested(w.q, c, w.q.event[c].events \ wanted)], c)
  <2>1. DOMAIN w = Fields
    BY DEF Good, Typed
  <2>2. [w EXCEPT !.q = Interested(@, c, w.q.event[c].events \ wanted)]
        = [w EXCEPT !.q = Interested(w.q, c, w.q.event[c].events \ wanted)]
    BY <2>1 DEF Fields
  <2>. QED
    BY <2>2, Zenon DEF HandleEvent1
<1> HIDE DEF c, wanted
<1>5. CASE c = None \/ wanted = {}
  BY <1>4, <1>5
<1>6. CASE c # None /\ wanted # {}
  <2>4. PICK e, W : e = c /\ W = w.q.event[e].events \ wanted
    OBVIOUS
  <2>1. PICK u : u = Rewanted(w, e, W)
    OBVIOUS
  <2>5. e \in Events /\ w.q.event[e].life # "none" /\ W \in SUBSET Interest
    BY <2>4, <1>3, <1>6
  <2>2. Good(u, {e}) /\ u.timers = w.timers
    BY <2>1, <2>5, Unwanted
  <2>3. v = SetReady(u, e)
    BY <2>1, <2>4, <1>4, <1>6 DEF Rewanted
  <2>. QED
    BY <2>2, <2>3, <2>5, Readied
<1>. QED
  BY <1>5, <1>6

LEMMA EventBreaks ==
  ASSUME NEW w, DOMAIN w = Fields, NEW i, NEW v, v = HandleEvent1(w, i)
  PROVE  DOMAIN v = Fields /\ (v.broken = "no" => w.broken = "no")
<1> DEFINE c == w.q.map[pollfds[i].fd]
           r == Interested(w.q, c, w.q.event[c].events \ pollfds[i].events)
<1>1. v = w \/ v = SetReady([w EXCEPT !.q = r], c)
  BY DEF HandleEvent1
<1> HIDE DEF r, c
<1>2. PICK u : u = [w EXCEPT !.q = r]
  OBVIOUS
<1>3. DOMAIN u = Fields /\ u.broken = w.broken
  BY <1>2 DEF Fields
<1>. QED
  BY <1>1, <1>2, <1>3, ReadyBreaks

HandledUpTo(hit, n, g) ==
  g = [i \in 0 .. n |-> IF i = 0 THEN World ELSE IF i \in hit THEN HandleEvent1(g[i - 1], i) ELSE g[i - 1]]
(* A recursive definition over the places of a list has a value: there is no *)
(* least place up to which it has none.                                      *)
LEMMA HandledExists ==
  ASSUME NEW hit, NEW n \in Nat
  PROVE  \E g : HandledUpTo(hit, n, g)
<1> DEFINE Next1(x, i) == IF i \in hit THEN HandleEvent1(x, i) ELSE x
           Is(g, k) == g = [i \in 0 .. k |-> IF i = 0 THEN World ELSE Next1(g[i - 1], i)]
           T == {k \in Nat : ~ \E g : Is(g, k)}
<1>1. ASSUME NEW m \in T PROVE FALSE
  <2>1. T \subseteq Nat /\ T # {}
    BY <1>1
  <2> HIDE DEF T
  <2>2. PICK k \in T : \A j \in T : ~ (<<j, k>> \in OpToRel(<, Nat))
    BY <2>1, WFMin, NatLessThanWellFounded
  <2>3. k \in Nat /\ ~ \E g : Is(g, k)
    BY <2>2 DEF T
  <2>4. k # 0
    <3>1. ASSUME k = 0 PROVE FALSE
      <4>1. PICK g : g = [i \in 0 .. 0 |-> World]
        OBVIOUS
      <4>2. Is(g, 0)
        BY <4>1
      <4>. QED
        BY <4>2, <3>1, <2>3
    <3>. QED
      BY <3>1
  <2>5. k - 1 \in Nat /\ k - 1 < k
    BY <2>3, <2>4
  <2>6. <<k - 1, k>> \in OpToRel(<, Nat)
    BY <2>3, <2>5 DEF OpToRel
  <2>7. \E g : Is(g, k - 1)
    <3>1. k - 1 \notin T
      BY <2>2, <2>6
    <3>. QED
      BY <3>1, <2>5 DEF T
  <2>8. PICK g : Is(g, k - 1)
    BY <2>7
  <2> HIDE DEF Next1
  <2>9. PICK h : h = [i \in 0 .. k |-> IF i = k THEN Next1(g[k - 1], k) ELSE g[i]]
    OBVIOUS
  <2>10. Is(h, k)
    <3>1. ASSUME NEW i \in 0 .. k PROVE h[i] = IF i = 0 THEN World ELSE Next1(h[i - 1], i)
      <4>1. CASE i = k
        <5>1. k - 1 \in 0 .. k /\ k - 1 # k /\ h[i] = Next1(g[k - 1], k)
          BY <2>3, <2>4, <2>9, <4>1
        <5>2. h[k - 1] = g[k - 1]
          BY <5>1, <2>9
        <5>. QED
          BY <5>1, <5>2, <4>1, <2>4
      <4>2. CASE i = 0 /\ i # k
        BY <2>3, <2>5, <2>8, <2>9, <4>2
      <4>3. CASE i # k /\ i # 0
        <5>1. i \in 0 .. k - 1 /\ i - 1 \in 0 .. k - 1 /\ i - 1 \in 0 .. k /\ i - 1 # k
          BY <2>3, <4>3
        <5>2. h[i] = g[i] /\ h[i - 1] = g[i - 1]
          BY <5>1, <2>9, <4>3
        <5>3. g[i] = Next1(g[i - 1], i)
          BY <5>1, <2>8, <4>3
        <5>. QED
          BY <5>2, <5>3, <4>3
      <4>. QED
        BY <4>1, <4>2, <4>3
    <3>2. h = [i \in 0 .. k |-> h[i]]
      BY <2>9
    <3>. QED
      BY <3>1, <3>2
  <2>. QED
    BY <2>3, <2>10
<1>2. \E g : Is(g, n)
  BY <1>1
<1>. QED
  BY <1>2 DEF HandledUpTo

(* All Events of a pass are handled, in the order of pollfds_.               *)
LEMMA AllHandled ==
  ASSUME Good(World, {}), pollfds \in Seq(PollFds), NEW hit, NEW v, v = HandleActiveEvents(hit)
  PROVE  DOMAIN v = Fields /\ (v.broken = "no" => Good(v, {}) /\ v.timers = timers)
<1> DEFINE n == Len(pollfds)
           g == CHOOSE f : HandledUpTo(hit, n, f)
<1>1. n \in Nat /\ DOMAIN pollfds = 1 .. n
  BY LenProperties
<1>2. v = g[n]
  BY DEF HandleActiveEvents, HandledUpTo
<1> HIDE DEF n
<1>3. g = [i \in 0 .. n |-> IF i = 0 THEN World ELSE IF i \in hit THEN HandleEvent1(g[i - 1], i) ELSE g[i - 1]]
  <2>1. \E f : HandledUpTo(hit, n, f)
    BY <1>1, HandledExists
  <2>2. HandledUpTo(hit, n, g)
    BY <2>1, Zenon DEF g
  <2>. QED
    BY <2>2 DEF HandledUpTo
<1> HIDE DEF g
<1> DEFINE Right(x) == DOMAIN x = Fields /\ (x.broken = "no" => Good(x, {}) /\ x.timers = timers)
           T == {k \in 0 .. n : ~ Right(g[k])}
<1>4. Right(World)
  BY DEF Good, Typed, World
<1>5. ASSUME NEW k \in 1 .. n, Right(g[k - 1]) PROVE Right(g[k])
  <2>1. g[k] = IF k \in hit THEN HandleEvent1(g[k - 1], k) ELSE g[k - 1]
    BY <1>1, <1>3
  <2>2. CASE k \in hit
    <3>1. PICK x, y : x = g[k - 1] /\ y = g[k] /\ y = HandleEvent1(x, k)
      BY <2>1, <2>2
    <3>2. DOMAIN x = Fields
      BY <3>1, <1>5
    <3>3. DOMAIN y = Fields /\ (y.broken = "no" => x.broken = "no")
      BY <3>1, <3>2, EventBreaks
    <3>4. y.broken = "no" => Good(y, {}) /\ y.timers = timers
      <4> SUFFICES ASSUME y.broken = "no" PROVE Good(y, {}) /\ y.timers = timers
        OBVIOUS
      <4>1. Good(x, {}) /\ x.timers = timers
        BY <3>1, <3>3, <1>5
      <4>. QED
        BY <4>1, <3>1, <1>1, EventHandled
    <3>. QED
      BY <3>1, <3>3, <3>4
  <2>3. CASE k \notin hit
    BY <2>1, <2>3, <1>5
  <2>. QED
    BY <2>2, <2>3
<1> HIDE DEF Right
<1>6. T = {}
  <2> SUFFICES ASSUME T # {} PROVE FALSE
    OBVIOUS
  <2>1. T \subseteq Nat
    BY <1>1
  <2>2. PICK k \in T : \A j \in T : ~ (<<j, k>> \in OpToRel(<, Nat))
    BY <2>1, WFMin, NatLessThanWellFounded
  <2>3. k \in 0 .. n /\ ~ Right(g[k])
    BY <2>2
  <2>4. k # 0
    BY <1>1, <1>3, <1>4, <2>3
  <2>5. k \in 1 .. n /\ k - 1 \in 0 .. n /\ k - 1 \in Nat /\ k - 1 < k /\ k \in Nat
    BY <1>1, <2>3, <2>4
  <2>6. <<k - 1, k>> \in OpToRel(<, Nat)
    BY <2>5 DEF OpToRel
  <2>7. Right(g[k - 1])
    BY <2>2, <2>5, <2>6
  <2>. QED
    BY <2>3, <2>5, <2>7, <1>5
<1>7. Right(g[n])
  BY <1>1, <1>6
<1>. QED
  BY <1>2, <1>7 DEF Right

(* What changes is the coroutine of one connection that does not hold.       *)
LEMMA CoroutineGoes ==
  ASSUME NEW w, Good(w, {}), NEW c \in Events, Server(c) \notin Held(w), NEW k \in CoRecords,
         k.pc = "ended" \/ Server(c) \in Due(w),
         k.pc = "start" => w.co[c].pc = "start" /\ k.waits = 0,
         w.co[c].pc = "start" => k.pc = "start", k.waits >= w.co[c].waits,
         NEW v, DOMAIN v = Fields, v.q = w.q, SameLists(v, w), v.conn = w.conn, v.timers = w.timers,
         v.history = w.history, v.co = [w.co EXCEPT ![c] = k]
  PROVE  Good(v, {}) /\ Due(v) = Due(w) /\ Held(v) = Held(w)
<1>1. w.co \in [Events -> CoRecords]
  BY DEF Good, Typed
<1>2. v.co \in [Events -> CoRecords] /\ v.co[c] = k /\ \A d \in Events \ {c} : v.co[d] = w.co[d]
  BY <1>1
<1>3. Due(v) = Due(w) /\ Held(v) = Held(w)
  BY DEF Due, Held, SameLists
<1>4. Typed(v)
  BY <1>2 DEF Good, Typed, SameLists
<1>5. Apart(v)
  BY <1>3 DEF Good, Apart, SameLists
<1>6. Placed(v)
  <2>1. Placed(w)
    BY DEF Good, Fits
  <2>. QED
    BY <1>2, <1>3, <2>1 DEF Placed
<1>7. Timed(v)
  <2>1. Timed(w)
    BY DEF Good, Fits
  <2>2. ASSUME NEW t \in TimerIds, t[2] > v.co[t[1]].waits PROVE v.timers[t] = "none"
    <3>1. t[1] \in Events /\ t[2] \in Nat
      BY DEF TimerIds
    <3>2. v.co[t[1]].waits >= w.co[t[1]].waits /\ v.co[t[1]].waits \in Nat /\ w.co[t[1]].waits \in Nat
      BY <1>1, <1>2, <3>1 DEF CoRecords
    <3>3. t[2] > w.co[t[1]].waits
      BY <2>2, <3>1, <3>2
    <3>. QED
      BY <2>1, <3>3 DEF Timed
  <2>. QED
    BY <1>2, <1>3, <2>1, <2>2 DEF Timed
<1>8. Closing(v)
  BY <1>2, <1>3 DEF Good, Fits, Closing
<1>9. Conns(v)
  <2>1. Conns(w)
    BY DEF Good, Fits
  <2>2. ConnFits(w.co[c].pc, w.conn[c], w.q.event[c].life)
    BY <2>1 DEF Conns
  <2>3. ConnFits(k.pc, w.conn[c], w.q.event[c].life)
    BY <2>2 DEF ConnFits
  <2>. QED
    BY <1>2, <2>1, <2>3 DEF Conns
<1>10. HoldIsHold(v)
  BY <1>2, <1>3 DEF Good, Fits, HoldIsHold
<1>11. Holding(v, {})
  <2>1. Holding(w, {})
    BY DEF Good
  <2>. QED
    BY <1>2, <1>3, <2>1 DEF Holding
<1>. QED
  BY <1>3, <1>4, <1>5, <1>6, <1>7, <1>8, <1>9, <1>10, <1>11 DEF Good, Fits

(* The coroutine of a connection reaches another place of its handler. *)
LEMMA GoesTo ==
  ASSUME NEW w, Good(w, {}), NEW c \in Events, Server(c) \notin Held(w), w.co[c].pc # "start",
         NEW pc \in Places \ {"start"}, pc = "ended" \/ Server(c) \in Due(w), NEW v, v = To(w, c, pc)
  PROVE  /\ Good(v, {}) /\ Due(v) = Due(w) /\ Held(v) = Held(w) /\ v.running = w.running /\ v.broken = w.broken
         /\ v.timers = w.timers /\ v.co[c].pc = pc
<1> DEFINE k == [w.co[c] EXCEPT !.pc = pc]
<1>1. DOMAIN w = Fields /\ w.co \in [Events -> CoRecords]
  BY DEF Good, Typed
<1>2. k \in CoRecords /\ k.pc = pc /\ k.waits = w.co[c].waits /\ w.co[c].waits \in Nat
  BY <1>1 DEF CoRecords
<1>3. /\ DOMAIN v = Fields /\ v.q = w.q /\ SameLists(v, w) /\ v.conn = w.conn /\ v.timers = w.timers
      /\ v.history = w.history /\ v.co = [w.co EXCEPT ![c] = k] /\ v.broken = w.broken
  BY <1>1 DEF To, Fields, SameLists
<1>4. v.co[c].pc = pc
  BY <1>1, <1>2, <1>3
<1> HIDE DEF k
<1>5. k.waits >= w.co[c].waits
  BY <1>2
<1>6. Good(v, {}) /\ Due(v) = Due(w) /\ Held(v) = Held(w)
  BY <1>2, <1>3, <1>5, CoroutineGoes
<1>. QED
  BY <1>3, <1>4, <1>6 DEF SameLists

(* A timer of a connection that does not hold is made, or is cancelled. *)
LEMMA TimerGoes ==
  ASSUME NEW w, Good(w, {}), NEW t \in TimerIds, Server(t[1]) \notin Held(w), t[2] <= w.co[t[1]].waits,
         NEW s \in {"armed", "deleted"}, s = "armed" => OnTimeout(t) \notin Due(w),
         NEW v, DOMAIN v = Fields, v.q = w.q, SameLists(v, w), v.conn = w.conn, v.co = w.co, v.history = w.history,
         v.timers = [w.timers EXCEPT ![t] = s]
  PROVE  Good(v, {}) /\ Due(v) = Due(w) /\ Held(v) = Held(w)
<1>1. DOMAIN w = Fields /\ w.timers \in [TimerIds -> {"none", "armed", "popped", "deleted"}]
  BY DEF Good, Typed
<1>2. /\ DOMAIN v = Fields /\ v.q = w.q /\ SameLists(v, w) /\ v.conn = w.conn /\ v.co = w.co
      /\ v.history = w.history /\ v.timers = [w.timers EXCEPT ![t] = s]
  OBVIOUS
<1>3. /\ v.timers \in [TimerIds -> {"none", "armed", "popped", "deleted"}] /\ v.timers[t] = s
      /\ \A u \in TimerIds \ {t} : v.timers[u] = w.timers[u]
  BY <1>1, <1>2
<1>4. Due(v) = Due(w) /\ Held(v) = Held(w)
  BY <1>2 DEF Due, Held, SameLists
<1>5. Typed(v) /\ Apart(v)
  BY <1>2, <1>3, <1>4 DEF Good, Typed, Apart, SameLists
<1>6. Placed(v) /\ Closing(v) /\ Conns(v) /\ HoldIsHold(v)
  <2>1. Placed(w) /\ Closing(w) /\ Conns(w) /\ HoldIsHold(w)
    BY DEF Good, Fits
  <2>. QED
    BY <1>2, <1>4, <2>1 DEF Placed, Closing, Conns, HoldIsHold
<1>7. Timed(v)
  <2>1. Timed(w)
    BY DEF Good, Fits
  <2>2. ~ (t[2] > w.co[t[1]].waits)
    <3>1. t[1] \in Events /\ t[2] \in Nat /\ w.co \in [Events -> CoRecords]
      BY DEF TimerIds, Good, Typed
    <3>2. w.co[t[1]].waits \in Nat
      BY <3>1 DEF CoRecords
    <3>. QED
      BY <3>1, <3>2
  <2>. QED
    BY <1>2, <1>3, <1>4, <2>1, <2>2 DEF Timed
<1>8. Holding(v, {})
  <2> SUFFICES ASSUME NEW d \in Events, Server(d) \in Held(v)
               PROVE  /\ v.conn[d].state = "connect" /\ Wanted(v.co[d].pc) \in v.q.event[d].events
                      /\ <<d, v.co[d].waits>> \in TimerIds
                      /\ \/ v.timers[<<d, v.co[d].waits>>] = "armed"
                         \/ (v.timers[<<d, v.co[d].waits>>] = "popped" /\ OnTimeout(<<d, v.co[d].waits>>) \in Due(v))
    BY DEF Holding
  <2>1. /\ w.conn[d].state = "connect" /\ Wanted(w.co[d].pc) \in w.q.event[d].events
        /\ <<d, w.co[d].waits>> \in TimerIds
        /\ \/ w.timers[<<d, w.co[d].waits>>] = "armed"
           \/ (w.timers[<<d, w.co[d].waits>>] = "popped" /\ OnTimeout(<<d, w.co[d].waits>>) \in Due(w))
    BY <1>4 DEF Good, Holding
  <2>2. PICK u : u = <<d, w.co[d].waits>>
    OBVIOUS
  <2>3. u # t
    BY <1>4, <2>2
  <2>4. v.timers[u] = w.timers[u]
    BY <1>1, <1>2, <2>3
  <2>. QED
    BY <1>2, <1>4, <2>1, <2>2, <2>4
<1>. QED
  BY <1>2, <1>4, <1>5, <1>6, <1>7, <1>8 DEF Good, Fits

(* The ready coroutines follow the running ones. *)
LEMMA ReadyMoves ==
  ASSUME NEW w, Good(w, {}), NEW v, v = MoveReady(w)
  PROVE  Good(v, {}) /\ Due(v) = Due(w) /\ Held(v) = Held(w) /\ v.co = w.co /\ v.broken = w.broken /\ SameHead(v, w)
<1> DEFINE R == w.running \o w.ready
<1>1. DOMAIN w = Fields /\ w.running \in Seq(Coros) /\ w.ready \in Seq(Coros)
  BY DEF Good, Typed
<1>2. R \in Seq(Coros) /\ Once(R) /\ ToSet(R) = Due(w) /\ (w.running # <<>> => R # <<>> /\ Head(R) = Head(w.running))
  <2>1. Once(w.running) /\ Once(w.ready) /\ ToSet(w.running) \cap ToSet(w.ready) = {}
    BY DEF Good, Apart
  <2>. QED
    BY <1>1, <2>1, Joined DEF Due
<1> HIDE DEF R
<1>3. /\ DOMAIN v = Fields /\ v.q = w.q /\ v.running = R /\ v.ready = <<>> /\ v.hold = w.hold /\ v.conn = w.conn
      /\ v.co = w.co /\ v.history = w.history /\ v.timers = w.timers /\ v.broken = w.broken
  BY <1>1 DEF Fields, MoveReady, R
<1>4. <<>> \in Seq(Coros) /\ ToSet(<<>>) = {} /\ Once(<<>>)
  BY DEF ToSet, Once
<1>5. Due(v) = Due(w) /\ Held(v) = Held(w)
  BY <1>2, <1>3, <1>4 DEF Due, Held
<1>6. Typed(v) /\ Apart(v)
  BY <1>2, <1>3, <1>4, <1>5 DEF Good, Typed, Apart
<1>7. Fits(v)
  <2>1. Fits(w)
    BY DEF Good
  <2>. QED
    BY <1>3, <1>5, <2>1 DEF Fits, Placed, Timed, Closing, Conns, HoldIsHold
<1>8. Holding(v, {})
  BY <1>3, <1>5 DEF Good, Holding
<1>. QED
  BY <1>2, <1>3, <1>5, <1>6, <1>7, <1>8 DEF Good, SameHead

(* The timing wheel hands out timers: a coroutine is made of each. *)
LEMMA TimersHanded ==
  ASSUME NEW w, Good(w, {}), NEW order \in Seq(TimerIds), Once(order),
         \A t \in ToSet(order) : w.timers[t] = "armed", NEW v, v = Popped(w, order)
  PROVE  Good(v, {}) /\ v.running = w.running /\ v.co = w.co /\ v.broken = w.broken
<1> DEFINE m == [k \in DOMAIN order |-> OnTimeout(order[k])]
           R == w.ready \o m
           due == ToSet(order)
           tm == [t \in TimerIds |-> IF t \in due THEN "popped" ELSE w.timers[t]]
           waits == {t \in due : t = Timer(t[1]) /\ w.co[t[1]].pc \in {"woken_read", "woken_write"}}
           past == [w.history EXCEPT !.outside = @ \/ waits # {}, !.both = @ \/ \E t \in waits : w.co[t[1]].state = "READY"]
<1>1. /\ DOMAIN w = Fields /\ w.running \in Seq(Coros) /\ w.ready \in Seq(Coros) /\ w.history \in Histories
      /\ w.timers \in [TimerIds -> {"none", "armed", "popped", "deleted"}]
  BY DEF Good, Typed
<1>2. /\ DOMAIN v = Fields /\ v.q = w.q /\ v.running = w.running /\ v.ready = R /\ v.hold = w.hold /\ v.conn = w.conn
      /\ v.co = w.co /\ v.history = past /\ v.timers = tm /\ v.broken = w.broken
  <2>1. v = [w EXCEPT !.timers = tm, !.ready = R, !.history = past]
    <3>1. v = [w EXCEPT !.timers = [t \in TimerIds |-> IF t \in due THEN "popped" ELSE @[t]], !.ready = @ \o m,
                        !.history.outside = @ \/ waits # {},
                        !.history.both = @ \/ \E t \in waits : w.co[t[1]].state = "READY"]
      BY DEF Popped
    <3> HIDE DEF m, due, waits
    <3>. QED
      BY <3>1, <1>1 DEF Fields, Histories
  <2> HIDE DEF tm, R, past
  <2>. QED
    BY <2>1, <1>1 DEF Fields
<1>3. past \in Histories /\ (w.history.outside => past.outside)
  <2> HIDE DEF waits
  <2>1. PICK a, b : a = (w.history.outside \/ waits # {}) /\ b = (w.history.both \/ \E t \in waits : w.co[t[1]].state = "READY")
    OBVIOUS
  <2>2. a \in BOOLEAN /\ b \in BOOLEAN /\ (w.history.outside => a)
    BY <2>1, <1>1 DEF Histories
  <2>3. past = [w.history EXCEPT !.outside = a, !.both = b]
    BY <2>1, <1>1 DEF Histories
  <2>. QED
    BY <2>2, <2>3, <1>1 DEF Histories
<1> HIDE DEF past, waits
<1>4. /\ tm \in [TimerIds -> {"none", "armed", "popped", "deleted"}]
      /\ \A t \in TimerIds : tm[t] = IF t \in due THEN "popped" ELSE w.timers[t]
  BY <1>1
<1> HIDE DEF tm
<1>5. DOMAIN order = 1 .. Len(order) /\ Len(order) \in Nat /\ \A k \in DOMAIN order : order[k] \in TimerIds
  BY LenProperties, ElementOfSeq
<1>6. m \in Seq(Coros) /\ Once(m) /\ ToSet(m) = {OnTimeout(t) : t \in due}
  <2>1. \A k \in DOMAIN order : OnTimeout(order[k]) \in Coros
    BY <1>5 DEF Coros
  <2>2. m \in [1 .. Len(order) -> Coros]
    BY <2>1, <1>5
  <2>3. m \in Seq(Coros) /\ DOMAIN m = DOMAIN order /\ \A k \in DOMAIN order : m[k] = OnTimeout(order[k])
    BY <2>2, <1>5
  <2> HIDE DEF m
  <2>4. Once(m)
    <3> SUFFICES ASSUME NEW i \in DOMAIN m, NEW j \in DOMAIN m, m[i] = m[j] PROVE i = j
      BY DEF Once
    <3>1. order[i] = order[j]
      BY <2>3, CorosDiffer
    <3>. QED
      BY <3>1, <2>3 DEF Once
  <2>5. ToSet(m) = {OnTimeout(t) : t \in due}
    BY <2>3 DEF ToSet
  <2>. QED
    BY <2>3, <2>4, <2>5
<1> HIDE DEF m
<1>7. due \subseteq TimerIds
  BY <1>5 DEF ToSet
<1>8. ASSUME NEW t \in due PROVE OnTimeout(t) \notin Due(w) /\ OnTimeout(t) \notin Held(w)
  <2>1. t \in TimerIds /\ w.timers[t] = "armed"
    BY <1>7
  <2>2. OnTimeout(t) \notin Due(w)
    BY <2>1 DEF Good, Fits, Timed
  <2>3. Held(w) \subseteq Servers
    <3>1. w.hold \in Seq(Servers)
      BY DEF Good, Typed
    <3>. QED
      BY <3>1, LenProperties, ElementOfSeq DEF Held, ToSet
  <2>. QED
    BY <2>2, <2>3, CorosDiffer DEF Servers
<1> HIDE DEF due
<1>9. R \in Seq(Coros) /\ Once(R) /\ ToSet(R) = ToSet(w.ready) \cup {OnTimeout(t) : t \in due}
  <2>1. Once(w.ready) /\ ToSet(w.ready) \cap ToSet(m) = {}
    BY <1>6, <1>8 DEF Good, Apart, Due
  <2>. QED
    BY <2>1, <1>1, <1>6, Joined
<1> HIDE DEF R
<1>10. Due(v) = Due(w) \cup {OnTimeout(t) : t \in due} /\ Held(v) = Held(w)
  BY <1>2, <1>9 DEF Due, Held
<1>11. Typed(v)
  BY <1>2, <1>3, <1>4, <1>9 DEF Good, Typed
<1>12. Apart(v)
  <2>1. Held(v) \cap Due(v) = {}
    BY <1>8, <1>10 DEF Good, Apart
  <2>2. ToSet(v.running) \cap ToSet(v.ready) = {}
    BY <1>2, <1>8, <1>9 DEF Good, Apart, Due
  <2>. QED
    BY <1>2, <1>9, <2>1, <2>2 DEF Good, Apart
<1>13. \A c \in Events : /\ Server(c) \in Due(v) => Server(c) \in Due(w)
                         /\ Server(c) \in Due(w) => Server(c) \in Due(v)
                         /\ OnClose(c) \in Due(v) => OnClose(c) \in Due(w)
  BY <1>10, CorosDiffer
<1>14. Placed(v) /\ Closing(v) /\ Conns(v) /\ HoldIsHold(v)
  <2>1. Placed(w) /\ Closing(w) /\ Conns(w) /\ HoldIsHold(w)
    BY DEF Good, Fits
  <2>4. Held(v) = Held(w)
    BY <1>10
  <2>2. Placed(v)
    BY <1>2, <1>13, <2>1, <2>4 DEF Placed
  <2>3. Closing(v)
    BY <1>2, <1>3, <1>13, <2>1 DEF Closing
  <2>. QED
    BY <1>2, <1>10, <2>1, <2>2, <2>3 DEF Conns, HoldIsHold
<1>15. Timed(v)
  <2>1. Timed(w)
    BY DEF Good, Fits
  <2>2. ASSUME NEW t \in TimerIds, OnTimeout(t) \in Due(v) PROVE v.timers[t] \in {"popped", "deleted"}
    <3>1. CASE t \in due
      BY <3>1, <1>2, <1>4
    <3>2. CASE t \notin due
      <4>1. OnTimeout(t) \in Due(w)
        BY <2>2, <3>2, <1>10, CorosDiffer
      <4>. QED
        BY <4>1, <3>2, <1>2, <1>4, <2>1 DEF Timed
    <3>. QED
      BY <3>1, <3>2
  <2>3. ASSUME NEW t \in TimerIds, t[2] > v.co[t[1]].waits PROVE v.timers[t] = "none"
    <3>1. w.timers[t] = "none"
      BY <2>1, <2>3, <1>2 DEF Timed
    <3>2. t \notin due
      BY <3>1 DEF due
    <3>. QED
      BY <3>1, <3>2, <1>2, <1>4
  <2>. QED
    BY <1>2, <2>1, <2>2, <2>3 DEF Timed
<1>16. Holding(v, {})
  <2> SUFFICES ASSUME NEW d \in Events, Server(d) \in Held(v)
               PROVE  /\ v.conn[d].state = "connect" /\ Wanted(v.co[d].pc) \in v.q.event[d].events
                      /\ <<d, v.co[d].waits>> \in TimerIds
                      /\ \/ v.timers[<<d, v.co[d].waits>>] = "armed"
                         \/ (v.timers[<<d, v.co[d].waits>>] = "popped" /\ OnTimeout(<<d, v.co[d].waits>>) \in Due(v))
    BY DEF Holding
  <2>1. /\ w.conn[d].state = "connect" /\ Wanted(w.co[d].pc) \in w.q.event[d].events
        /\ <<d, w.co[d].waits>> \in TimerIds
        /\ \/ w.timers[<<d, w.co[d].waits>>] = "armed"
           \/ (w.timers[<<d, w.co[d].waits>>] = "popped" /\ OnTimeout(<<d, w.co[d].waits>>) \in Due(w))
    BY <1>10 DEF Good, Holding
  <2>2. PICK u : u = <<d, w.co[d].waits>>
    OBVIOUS
  <2>3. u \in TimerIds
    BY <2>1, <2>2
  <2>4. CASE u \in due
    BY <2>1, <2>2, <2>3, <2>4, <1>2, <1>4, <1>10
  <2>5. CASE u \notin due
    BY <2>1, <2>2, <2>3, <2>5, <1>2, <1>4, <1>10
  <2>. QED
    BY <2>4, <2>5
<1>. QED
  BY <1>2, <1>11, <1>12, <1>14, <1>15, <1>16 DEF Good, Fits

(* The coroutine that swapped back leaves the list; none is woken by it any  *)
(* more.                                                                     *)
LEMMA FirstLeaves ==
  ASSUME NEW w, Good(w, {}), w.running # <<>>,
         \A c \in Events : Head(w.running) = Server(c) => w.co[c].pc = "ended",
         \A t \in TimerIds : Head(w.running) = OnTimeout(t) => Server(t[1]) \notin Held(w),
         NEW v, v = [w EXCEPT !.running = Tail(@)]
  PROVE  Good(v, {}) /\ v.running = Tail(w.running) /\ v.broken = w.broken
<1> DEFINE R == Tail(w.running)
           h == Head(w.running)
<1>1. DOMAIN w = Fields /\ w.running \in Seq(Coros) /\ w.ready \in Seq(Coros)
  BY DEF Good, Typed
<1>2. R \in Seq(Coros) /\ Once(R) /\ ToSet(R) = ToSet(w.running) \ {h} /\ h \in ToSet(w.running)
  <2>1. Once(w.running)
    BY DEF Good, Apart
  <2>. QED
    BY <1>1, <2>1, Rest
<1>3. /\ DOMAIN v = Fields /\ v.q = w.q /\ v.running = R /\ v.ready = w.ready /\ v.hold = w.hold /\ v.conn = w.conn
      /\ v.co = w.co /\ v.history = w.history /\ v.timers = w.timers /\ v.broken = w.broken
  BY <1>1 DEF Fields
<1> HIDE DEF R, h
<1>4. Due(v) = Due(w) \ {h} /\ Held(v) = Held(w)
  <2>1. h \notin ToSet(w.ready)
    BY <1>2 DEF Good, Apart
  <2>. QED
    BY <1>2, <1>3, <2>1 DEF Due, Held
<1>5. Typed(v) /\ Apart(v)
  <2>1. Typed(v)
    BY <1>2, <1>3 DEF Good, Typed
  <2>2. ToSet(v.running) \cap ToSet(v.ready) = {}
    BY <1>2, <1>3 DEF Good, Apart
  <2>3. Held(v) \cap Due(v) = {}
    BY <1>4 DEF Good, Apart
  <2>. QED
    BY <1>2, <1>3, <2>1, <2>2, <2>3 DEF Good, Apart
<1>6. Fits(w) /\ Holding(w, {})
  BY DEF Good
<1>7. Placed(v)
  <2>1. \A c \in Events : h = Server(c) => w.co[c].pc = "ended"
    BY DEF h
  <2>. QED
    BY <1>3, <1>4, <1>6, <2>1 DEF Fits, Placed
<1>8. Timed(v) /\ Closing(v) /\ Conns(v) /\ HoldIsHold(v)
  <2>3. \A x : x \in Due(v) => x \in Due(w)
    BY <1>4
  <2>4. Timed(v)
    BY <1>3, <1>6, <2>3 DEF Fits, Timed
  <2>1. Closing(v)
    BY <1>3, <1>6, <2>3 DEF Fits, Closing
  <2>2. Conns(v) /\ HoldIsHold(v)
    BY <1>3, <1>4, <1>6 DEF Fits, Conns, HoldIsHold
  <2>. QED
    BY <2>1, <2>2, <2>4
<1>9. Holding(v, {})
  <2> SUFFICES ASSUME NEW d \in Events, Server(d) \in Held(v)
               PROVE  /\ v.conn[d].state = "connect" /\ Wanted(v.co[d].pc) \in v.q.event[d].events
                      /\ <<d, v.co[d].waits>> \in TimerIds
                      /\ \/ v.timers[<<d, v.co[d].waits>>] = "armed"
                         \/ (v.timers[<<d, v.co[d].waits>>] = "popped" /\ OnTimeout(<<d, v.co[d].waits>>) \in Due(v))
    BY DEF Holding
  <2>1. /\ w.conn[d].state = "connect" /\ Wanted(w.co[d].pc) \in w.q.event[d].events
        /\ <<d, w.co[d].waits>> \in TimerIds
        /\ \/ w.timers[<<d, w.co[d].waits>>] = "armed"
           \/ (w.timers[<<d, w.co[d].waits>>] = "popped" /\ OnTimeout(<<d, w.co[d].waits>>) \in Due(w))
    BY <1>4, <1>6 DEF Holding
  <2>2. h # OnTimeout(<<d, w.co[d].waits>>)
    <3>1. PICK u \in TimerIds : u = <<d, w.co[d].waits>>
      BY <2>1
    <3>2. h = OnTimeout(u) => Server(u[1]) \notin Held(w)
      BY DEF h
    <3>3. u[1] = d
      BY <3>1
    <3>. QED
      BY <3>1, <3>2, <3>3, <1>4
  <2>. QED
    BY <1>3, <1>4, <2>1, <2>2
<1>. QED
  BY <1>3, <1>5, <1>7, <1>8, <1>9 DEF Good, Fits, R

\* The coroutine of a connection is EXEC while it runs.
Executes(w, x) == IF x[1] = "conn" THEN [w EXCEPT !.co[x[2]].state = "EXEC"] ELSE w
(* The first of the running coroutines is swapped to. *)
LEMMA FirstStarts ==
  ASSUME NEW w, Good(w, {}), NEW x, x = First(w.running), NEW v, v = Executes(w, x)
  PROVE  /\ Good(v, {}) /\ v.broken = w.broken
         /\ x # Idle => v.running # <<>> /\ x = Head(v.running)
<1>1. w.running # <<>> => Head(w.running) \in ToSet(w.running) /\ Head(w.running) \in Coros
  <2> SUFFICES ASSUME w.running # <<>> PROVE Head(w.running) \in ToSet(w.running) /\ Head(w.running) \in Coros
    OBVIOUS
  <2>1. w.running \in Seq(Coros) /\ Once(w.running)
    BY DEF Good, Typed, Apart
  <2>. QED
    BY <2>1, Rest, HeadTailProperties
<1>2. CASE x[1] # "conn"
  BY <1>2 DEF First, Executes
<1>3. CASE x[1] = "conn"
  <2>1. w.running # <<>> /\ x = Head(w.running) /\ x \in ToSet(w.running) /\ x \in Coros
    BY <1>1, <1>3 DEF First, Idle
  <2>2. PICK c \in Events : x = Server(c)
    BY <1>3, <2>1, CorosDiffer DEF Coros, Servers
  <2>3. x[2] = c
    BY <2>2, CorosDiffer
  <2>4. Server(c) \in Due(w) /\ Server(c) \notin Held(w)
    BY <2>1, <2>2 DEF Good, Apart, Due
  <2>5. DOMAIN w = Fields /\ w.co \in [Events -> CoRecords]
    BY DEF Good, Typed
  <2> DEFINE k == [w.co[c] EXCEPT !.state = "EXEC"]
  <2>6. k \in CoRecords /\ k.pc = w.co[c].pc /\ k.waits = w.co[c].waits /\ k.waits \in Nat
    BY <2>5 DEF CoRecords
  <2>7. v = [w EXCEPT !.co[c].state = "EXEC"]
    BY <1>3, <2>3 DEF Executes
  <2>8. /\ DOMAIN v = Fields /\ v.q = w.q /\ SameLists(v, w) /\ v.conn = w.conn /\ v.timers = w.timers
        /\ v.history = w.history /\ v.co = [w.co EXCEPT ![c] = k] /\ v.broken = w.broken
    BY <2>5, <2>7 DEF Fields, SameLists
  <2> HIDE DEF k
  <2>9. /\ k.waits >= w.co[c].waits /\ (k.pc = "start" => w.co[c].pc = "start" /\ k.waits = 0)
        /\ w.co[c].pc = "start" => k.pc = "start"
    BY <2>6 DEF Good, Fits, Timed
  <2>10. Good(v, {})
    BY <2>4, <2>6, <2>8, <2>9, CoroutineGoes
  <2>. QED
    BY <2>1, <2>8, <2>10 DEF SameLists
<1>. QED
  BY <1>2, <1>3

(* What a step makes of the record is what the invariant has to hold of. *)
LEMMA Turned ==
  ASSUME NEW v, Turns(v), v.broken = "no" => Good(v, {}) /\ (cur' # Idle => v.running # <<>> /\ cur' = Head(v.running))
  PROVE  CoInv'
<1>1. /\ Becomes(v.q) /\ running' = v.running /\ hold' = v.hold /\ ready' = v.ready /\ co' = v.co /\ conn' = v.conn
      /\ timers' = v.timers /\ broken' = v.broken /\ history' = v.history
  BY DEF Turns
<1> SUFFICES ASSUME Sound' PROVE Good(World', {}) /\ (cur' # Idle => running' # <<>> /\ cur' = Head(running'))
  BY DEF CoInv
<1>2. v.broken = "no"
  BY <1>1 DEF Sound
<1>3. PICK u : u = World'
  OBVIOUS
<1>4. Good(v, {}) /\ v.q = [fds |-> v.q.fds, map |-> v.q.map, event |-> v.q.event]
  BY <1>2 DEF Good, Typed, IsPoller
<1>5. u.q = [fds |-> pollfds', map |-> events_map', event |-> event']
  BY <1>3 DEF World, Poller
<1>6. u.q = v.q
  BY <1>1, <1>4, <1>5 DEF Becomes
<1>7. /\ DOMAIN u = Fields /\ SameLists(u, v) /\ u.co = v.co /\ u.conn = v.conn
      /\ u.timers = v.timers /\ u.history = v.history
  BY <1>1, <1>3 DEF World, SameLists, Fields
<1>8. Due(u) = Due(v) /\ Held(u) = Held(v)
  BY <1>7 DEF Due, Held, SameLists
<1>9. Typed(u) /\ Apart(u)
  BY <1>4, <1>6, <1>7, <1>8 DEF Good, Typed, Apart, SameLists
<1>10. Fits(u)
  <2>1. Fits(v)
    BY <1>4 DEF Good
  <2>. QED
    BY <1>6, <1>7, <1>8, <2>1 DEF Fits, Placed, Timed, Closing, Conns, HoldIsHold
<1>11. Holding(u, {})
  BY <1>4, <1>6, <1>7, <1>8 DEF Good, Holding
<1>12. Good(u, {})
  BY <1>9, <1>10, <1>11 DEF Good
<1>. QED
  BY <1>1, <1>2, <1>3, <1>12

(* What follows when the coroutine ended: the next one starts, and those that *)
(* are ready when it was the last.                                           *)
LEMMA Ended ==
  ASSUME NEW w, DOMAIN w = Fields, Terminates(w),
         w.broken = "no" =>
           /\ Good(w, {}) /\ w.running # <<>>
           /\ \A c \in Events : Head(w.running) = Server(c) => w.co[c].pc = "ended"
           /\ \A t \in TimerIds : Head(w.running) = OnTimeout(t) => Server(t[1]) \notin Held(w)
  PROVE  CoInv'
<1>1. PICK t : t = IF Len(w.running) = 1 THEN MoveReady(w) ELSE w
  OBVIOUS
<1>2. PICK d : d = [t EXCEPT !.running = Tail(@)]
  OBVIOUS
<1>3. PICK x : x = First(Tail(t.running))
  OBVIOUS
<1>4. PICK v : v = Executes(d, x)
  OBVIOUS
<1>5. cur' = x /\ Turns(v)
  <2>1. Starts(d, x)
    BY <1>1, <1>2, <1>3, Zenon DEF Terminates
  <2>. QED
    BY <2>1, <1>4, Zenon DEF Starts, Executes
<1>6. DOMAIN t = Fields /\ t.broken = w.broken
  BY <1>1 DEF MoveReady, Fields
<1>7. DOMAIN d = Fields /\ d.broken = w.broken /\ d.running = Tail(t.running)
  BY <1>2, <1>6 DEF Fields
<1>8. v.broken = w.broken
  BY <1>4, <1>7 DEF Fields, Executes
<1>9. ASSUME v.broken = "no" PROVE Good(v, {}) /\ (x # Idle => v.running # <<>> /\ x = Head(v.running))
  <2>1. /\ Good(w, {}) /\ w.running # <<>>
        /\ \A c \in Events : Head(w.running) = Server(c) => w.co[c].pc = "ended"
        /\ \A u \in TimerIds : Head(w.running) = OnTimeout(u) => Server(u[1]) \notin Held(w)
    BY <1>8, <1>9
  <2>2. Good(t, {}) /\ t.running # <<>> /\ Head(t.running) = Head(w.running) /\ t.co = w.co /\ Held(t) = Held(w)
    BY <2>1, <1>1, ReadyMoves DEF SameHead
  <2>3. Good(d, {})
    BY <2>1, <2>2, <1>2, FirstLeaves
  <2>4. x = First(d.running)
    BY <1>3, <1>7
  <2>. QED
    BY <2>3, <2>4, <1>4, FirstStarts
<1>. QED
  BY <1>5, <1>9, Turned

(* The coroutine goes on. *)
LEMMA GoesOn ==
  ASSUME NEW w, Continues(w), cur \in Coros,
         w.broken = "no" => Good(w, {}) /\ w.running # <<>> /\ cur = Head(w.running)
  PROVE  CoInv'
<1>1. Turns(w) /\ cur' = cur
  BY DEF Continues
<1>. QED
  BY <1>1, Turned

(* A coroutine that waits goes to the list of those that hold. *)
LEMMA Parked ==
  ASSUME NEW w, Good(w, {}), NEW c \in Events, w.running # <<>>, Head(w.running) = Server(c),
         w.conn[c].state = "connect", Wanted(w.co[c].pc) \in w.q.event[c].events,
         <<c, w.co[c].waits>> \in TimerIds, w.timers[<<c, w.co[c].waits>>] = "armed",
         NEW v, v = [w EXCEPT !.running = Tail(@), !.hold = Append(@, Server(c)), !.co[c].state = "HOLD"]
  PROVE  Good(v, {})
<1> DEFINE R == Tail(w.running)
           h == Server(c)
           H == Append(w.hold, h)
<1>0. PICK k : k = [w.co[c] EXCEPT !.state = "HOLD"]
  OBVIOUS
<1>1. /\ DOMAIN w = Fields /\ w.running \in Seq(Coros) /\ w.ready \in Seq(Coros) /\ w.hold \in Seq(Servers)
      /\ w.co \in [Events -> CoRecords]
  BY DEF Good, Typed
<1>2. R \in Seq(Coros) /\ Once(R) /\ ToSet(R) = ToSet(w.running) \ {h} /\ h \in ToSet(w.running)
  <2>1. Once(w.running)
    BY DEF Good, Apart
  <2>. QED
    BY <1>1, <2>1, Rest
<1>3. h \notin ToSet(w.ready) /\ h \notin ToSet(w.hold)
  BY <1>2 DEF Good, Apart, Due, Held
<1>4. H \in Seq(Servers) /\ Once(H) /\ ToSet(H) = ToSet(w.hold) \cup {h}
  <2>1. Once(w.hold) /\ h \in Servers
    BY DEF Good, Apart, Servers
  <2>. QED
    BY <1>1, <1>3, <2>1, Appended
<1>5. k \in CoRecords /\ k.state = "HOLD" /\ k.pc = w.co[c].pc /\ k.waits = w.co[c].waits
  BY <1>0, <1>1 DEF CoRecords
<1>6. /\ DOMAIN v = Fields /\ v.q = w.q /\ v.running = R /\ v.ready = w.ready /\ v.hold = H /\ v.conn = w.conn
      /\ v.co = [w.co EXCEPT ![c] = k] /\ v.history = w.history /\ v.timers = w.timers
  BY <1>0, <1>1 DEF Fields
<1> HIDE DEF R, H
<1>7. v.co \in [Events -> CoRecords] /\ v.co[c] = k /\ \A d \in Events \ {c} : v.co[d] = w.co[d]
  <2>1. PICK f, g : f = w.co /\ g = v.co
    OBVIOUS
  <2>2. f \in [Events -> CoRecords] /\ g = [f EXCEPT ![c] = k] /\ k \in CoRecords
    BY <2>1, <1>1, <1>5, <1>6
  <2>3. g \in [Events -> CoRecords] /\ g[c] = k /\ \A d \in Events \ {c} : g[d] = f[d]
    BY <2>2
  <2>. QED
    BY <2>1, <2>3
<1>8. SameWaits(v, w)
  BY <1>5, <1>7 DEF SameWaits
<1>9. Due(v) = Due(w) \ {h} /\ Held(v) = Held(w) \cup {h}
  BY <1>2, <1>3, <1>4, <1>6 DEF Due, Held
<1>10. Typed(v)
  BY <1>2, <1>4, <1>6, <1>7 DEF Good, Typed
<1>11. Apart(v)
  <2>1. ToSet(v.running) \cap ToSet(v.ready) = {}
    BY <1>2, <1>6 DEF Good, Apart
  <2>2. Held(v) \cap Due(v) = {}
    BY <1>9 DEF Good, Apart
  <2>. QED
    BY <1>2, <1>4, <1>6, <2>1, <2>2 DEF Good, Apart
<1>12. Fits(w) /\ Holding(w, {})
  BY DEF Good
<1>13. \A x : (x \in Due(v) \cup Held(v) => x \in Due(w) \cup Held(w)) /\ (x \in Due(w) \cup Held(w) => x \in Due(v) \cup Held(v))
               /\ (x \in Due(v) => x \in Due(w))
  <2>1. h \in Due(w)
    BY <1>2 DEF Due
  <2>. QED
    BY <1>9, <2>1
<1>14. Placed(v)
  BY <1>6, <1>8, <1>12, <1>13 DEF Fits, Placed, SameWaits
<1>15. Timed(v)
  <2>1. \A t \in TimerIds : t[1] \in Events
    BY DEF TimerIds
  <2>. QED
    BY <1>6, <1>8, <1>12, <1>13, <2>1 DEF Fits, Timed, SameWaits
<1>16. Closing(v)
  BY <1>6, <1>8, <1>12, <1>13 DEF Fits, Closing, SameWaits
<1>17. Conns(v)
  BY <1>6, <1>8, <1>12 DEF Fits, Conns, SameWaits
<1>18. HoldIsHold(v)
  <2> SUFFICES ASSUME NEW d \in Events, Server(d) \in Held(v) PROVE v.co[d].state = "HOLD"
    BY DEF HoldIsHold
  <2>1. CASE d = c
    BY <2>1, <1>5, <1>7
  <2>2. CASE d # c
    <3>1. Server(d) \in Held(w)
      BY <2>2, <1>9, CorosDiffer
    <3>. QED
      BY <3>1, <2>2, <1>7, <1>12 DEF Fits, HoldIsHold
  <2>. QED
    BY <2>1, <2>2
<1>19. Holding(v, {})
  <2> SUFFICES ASSUME NEW d \in Events, Server(d) \in Held(v)
               PROVE  /\ v.conn[d].state = "connect" /\ Wanted(v.co[d].pc) \in v.q.event[d].events
                      /\ <<d, v.co[d].waits>> \in TimerIds
                      /\ \/ v.timers[<<d, v.co[d].waits>>] = "armed"
                         \/ (v.timers[<<d, v.co[d].waits>>] = "popped" /\ OnTimeout(<<d, v.co[d].waits>>) \in Due(v))
    BY DEF Holding
  <2>1. CASE d = c
    BY <2>1, <1>5, <1>6, <1>7
  <2>2. CASE d # c
    <3>1. Server(d) \in Held(w)
      BY <2>2, <1>9, CorosDiffer
    <3>2. /\ w.conn[d].state = "connect" /\ Wanted(w.co[d].pc) \in w.q.event[d].events
          /\ <<d, w.co[d].waits>> \in TimerIds
          /\ \/ w.timers[<<d, w.co[d].waits>>] = "armed"
             \/ (w.timers[<<d, w.co[d].waits>>] = "popped" /\ OnTimeout(<<d, w.co[d].waits>>) \in Due(w))
      BY <3>1, <1>12 DEF Holding
    <3>3. v.co[d] = w.co[d]
      BY <1>7, <2>2
    <3>4. OnTimeout(<<d, w.co[d].waits>>) # h
      BY CorosDiffer
    <3>. QED
      BY <3>2, <3>3, <3>4, <1>6, <1>9
  <2>. QED
    BY <2>1, <2>2
<1>. QED
  BY <1>10, <1>11, <1>14, <1>15, <1>16, <1>17, <1>18, <1>19 DEF Good, Fits

LEMMA ClosedHasFields ==
  ASSUME NEW w, DOMAIN w = Fields, NEW c, NEW v, v = HandleClose(w, c)
  PROVE  DOMAIN v = Fields
<1>1. PICK w1 : w1 = [w EXCEPT !.conn[c].state = "closed"]
  OBVIOUS
<1>2. PICK t : t = TriggerEvent(w1, c)
  OBVIOUS
<1>3. v = Breaks(w, "poller")
      \/ v = [t EXCEPT !.q = Closed(@, c), !.conn[c].session = FALSE, !.conn[c].removals = @ + 1, !.history.closes[c] = @ + 1]
  BY <1>1, <1>2, Zenon DEF HandleClose
<1>4. DOMAIN w1 = Fields
  BY <1>1 DEF Fields
<1>5. PICK u : u = [w1 EXCEPT !.conn[c].triggered = TRUE]
  OBVIOUS
<1>6. DOMAIN u = Fields
  BY <1>4, <1>5 DEF Fields
<1>7. t = u \/ t = SetReady(u, c)
  BY <1>2, <1>5 DEF TriggerEvent
<1>8. DOMAIN t = Fields
  BY <1>6, <1>7, ReadyBreaks
<1>. QED
  BY <1>3, <1>8 DEF Breaks, Fields

-----------------------------------------------------------------------------
(* The steps. *)
LEMMA Present ==
  ASSUME CoInv, Sound, NEW w, w = World
  PROVE  /\ Good(w, {}) /\ DOMAIN w = Fields /\ w.broken = "no"
         /\ w.running = running /\ w.hold = hold /\ w.ready = ready /\ w.co = co /\ w.conn = conn
         /\ w.timers = timers /\ w.history = history /\ w.q.event = event
         /\ cur # Idle => /\ running # <<>> /\ cur = Head(running)
                          /\ cur \in Coros /\ cur \in Due(w) /\ cur \notin Held(w)
<1>1. /\ DOMAIN w = Fields /\ w.broken = "no"
      /\ w.running = running /\ w.hold = hold /\ w.ready = ready /\ w.co = co /\ w.conn = conn
      /\ w.timers = timers /\ w.history = history /\ w.q.event = event
  BY DEF World, Fields, Poller, Sound
<1>2. Good(w, {}) /\ (cur # Idle => running # <<>> /\ cur = Head(running))
  BY DEF CoInv
<1>3. ASSUME cur # Idle PROVE cur \in Coros /\ cur \in Due(w) /\ cur \notin Held(w)
  <2>1. running \in Seq(Coros) /\ Once(running) /\ running # <<>> /\ cur = Head(running)
    BY <1>1, <1>2, <1>3 DEF Good, Typed, Apart
  <2>2. cur \in Coros /\ cur \in ToSet(running)
    BY <2>1, Rest, HeadTailProperties
  <2>. QED
    BY <2>2, <1>1, <1>2 DEF Good, Apart, Due
<1>. QED
  BY <1>1, <1>2, <1>3

(* The coroutine of a connection that runs. *)
LEMMA ServerRuns ==
  ASSUME CoInv, Sound, NEW c \in Events, cur = Server(c), NEW w, w = World
  PROVE  /\ running # <<>> /\ Head(running) = Server(c) /\ cur # Idle /\ cur \in Coros
         /\ Server(c) \in Due(w) /\ Server(c) \notin Held(w)
         /\ co[c] \in CoRecords /\ ConnFits(co[c].pc, conn[c], event[c].life) /\ event[c].life # "none"
<1>1. cur # Idle
  BY CorosDiffer
<1>2. /\ Good(w, {}) /\ w.co = co /\ w.conn = conn /\ w.q.event = event /\ running # <<>> /\ Head(running) = Server(c)
      /\ cur \in Coros /\ Server(c) \in Due(w) /\ Server(c) \notin Held(w)
  BY <1>1, Present
<1>3. co[c] \in CoRecords
  BY <1>2 DEF Good, Typed
<1>4. ConnFits(co[c].pc, conn[c], event[c].life)
  BY <1>2 DEF Good, Fits, Conns
<1>5. event[c].life # "none"
  BY <1>2 DEF Good, Fits, Placed
<1>. QED
  BY <1>1, <1>2, <1>3, <1>4, <1>5

(* The coroutine of a new connection begins: ConnectEstablished. *)
LEMMA StartStep ==
  ASSUME CoInv, NEW c \in Events, Start(c)
  PROVE  CoInv'
<1>1. PICK w : w = World
  OBVIOUS
<1>2. Sound /\ cur = Server(c) /\ co[c].pc = "start"
  BY DEF Start, Runs
<1>3. PICK v : v = To([w EXCEPT !.q = Interested(@, c, {}), !.conn[c].state = "connect", !.conn[c].session = TRUE], c, "read")
  OBVIOUS
<1>4. Continues(v)
  BY <1>1, <1>3, Zenon DEF Start
<1>5. /\ Good(w, {}) /\ DOMAIN w = Fields /\ w.running = running /\ w.co = co /\ w.conn = conn /\ w.q.event = event
  BY <1>1, <1>2, Present
<1>6. /\ running # <<>> /\ Head(running) = Server(c) /\ cur \in Coros /\ Server(c) \in Due(w) /\ Server(c) \notin Held(w)
      /\ ConnFits(co[c].pc, conn[c], event[c].life) /\ event[c].life # "none"
  BY <1>1, <1>2, ServerRuns
<1>7. conn[c].state = "none" /\ event[c].life = "open" /\ conn[c].removals = 0
  BY <1>2, <1>6 DEF ConnFits
<1>8. /\ IsPoller(w.q) /\ w.co \in [Events -> CoRecords] /\ w.conn \in [Events -> ConnRecords] /\ Fits(w) /\ Holding(w, {})
  BY <1>5 DEF Good, Typed
<1>9. PICK r : r = Interested(w.q, c, {})
  OBVIOUS
<1>10. IsPoller(r) /\ OthersSame(r.event, w.q.event, c) /\ r.event[c].life = "open"
  BY <1>5, <1>7, <1>8, <1>9, PollerInterest
<1>11. PICK n, k : n = [w.conn[c] EXCEPT !.state = "connect", !.session = TRUE] /\ k = [w.co[c] EXCEPT !.pc = "read"]
  OBVIOUS
<1>12. n \in ConnRecords /\ n.state = "connect" /\ n.removals = 0
  BY <1>5, <1>7, <1>8, <1>11 DEF ConnRecords
<1>13. k \in CoRecords /\ k.pc = "read" /\ k.waits = w.co[c].waits
  BY <1>8, <1>11 DEF CoRecords, Places
<1>14. /\ DOMAIN v = Fields /\ v.q = r /\ SameLists(v, w) /\ v.conn = [w.conn EXCEPT ![c] = n] /\ v.timers = w.timers
       /\ v.history = w.history /\ v.co = [w.co EXCEPT ![c] = k]
  <2>1. PICK u : u = [w EXCEPT !.q = r, !.conn = [w.conn EXCEPT ![c] = n]]
    OBVIOUS
  <2>2. u = [w EXCEPT !.q = Interested(@, c, {}), !.conn[c].state = "connect", !.conn[c].session = TRUE]
    BY <2>1, <1>5, <1>8, <1>9, <1>11 DEF Fields, ConnRecords
  <2>3. v = To(u, c, "read")
    BY <2>2, <1>3
  <2>4. /\ DOMAIN u = Fields /\ u.q = r /\ SameLists(u, w) /\ u.conn = [w.conn EXCEPT ![c] = n] /\ u.timers = w.timers
        /\ u.history = w.history /\ u.co = w.co
    BY <2>1, <1>5 DEF Fields, SameLists
  <2>. QED
    BY <2>3, <2>4, <1>11 DEF To, Fields, SameLists
<1>15. PICK f, g : f = v.conn /\ g = v.co
  OBVIOUS
<1>16. /\ f \in [Events -> ConnRecords] /\ f[c] = n /\ \A d \in Events \ {c} : f[d] = w.conn[d]
       /\ g \in [Events -> CoRecords] /\ g[c] = k /\ \A d \in Events \ {c} : g[d] = w.co[d]
  BY <1>8, <1>12, <1>13, <1>14, <1>15
<1>17. Due(v) = Due(w) /\ Held(v) = Held(w)
  BY <1>14 DEF Due, Held, SameLists
<1>18. Typed(v)
  BY <1>5, <1>10, <1>14, <1>15, <1>16 DEF Good, Typed, SameLists
<1>19. Apart(v)
  BY <1>5, <1>14, <1>17 DEF Good, Apart, SameLists
<1>20. Placed(v)
  <2>1. \A d \in Events : r.event[d].life = w.q.event[d].life
    BY <1>5, <1>7, <1>10 DEF OthersSame
  <2>2. Placed(w)
    BY <1>8 DEF Fits
  <2>3. v.q = r /\ v.co = g
    BY <1>14, <1>15
  <2>4. ASSUME NEW d \in Events
        PROVE  /\ v.q.event[d].life = "none" => Server(d) \notin Due(v) \cup Held(v)
               /\ v.q.event[d].life # "none" => Server(d) \in Due(v) \cup Held(v) \/ v.co[d].pc = "ended"
    <3>1. v.q.event[d].life = w.q.event[d].life
      BY <2>1, <2>3
    <3>2. CASE d = c
      BY <1>5, <1>6, <1>17, <3>1, <3>2
    <3>3. CASE d # c
      <4>1. v.co[d] = w.co[d]
        BY <1>16, <2>3, <3>3
      <4>. QED
        BY <1>17, <2>2, <3>1, <4>1 DEF Placed
    <3>. QED
      BY <3>2, <3>3
  <2>. QED
    BY <2>4 DEF Placed
<1>21. Timed(v)
  <2>1. \A t \in TimerIds : t[1] \in Events
    BY DEF TimerIds
  <2>2. \A d \in Events : g[d].waits = w.co[d].waits /\ (g[d].pc = "start" => w.co[d].pc = "start")
    BY <1>13, <1>16
  <2>. QED
    BY <1>8, <1>14, <1>15, <1>17, <2>1, <2>2 DEF Fits, Timed
<1>22. Closing(v)
  BY <1>5, <1>8, <1>13, <1>14, <1>15, <1>16, <1>17 DEF Fits, Closing
<1>23. Conns(v)
  <2>1. ConnFits(k.pc, n, r.event[c].life)
    BY <1>10, <1>12, <1>13 DEF ConnFits
  <2>2. \A d \in Events \ {c} : r.event[d].life = w.q.event[d].life
    BY <1>10 DEF OthersSame
  <2>. QED
    BY <1>8, <1>14, <1>15, <1>16, <2>1, <2>2 DEF Fits, Conns
<1>24. HoldIsHold(v)
  BY <1>6, <1>8, <1>14, <1>15, <1>16, <1>17 DEF Fits, HoldIsHold
<1>25. Holding(v, {})
  BY <1>6, <1>8, <1>10, <1>14, <1>15, <1>16, <1>17 DEF Holding, OthersSame
<1>26. Good(v, {})
  BY <1>18, <1>19, <1>20, <1>21, <1>22, <1>23, <1>24, <1>25 DEF Good, Fits
<1>. QED
  BY <1>2, <1>4, <1>5, <1>6, <1>14, <1>26, GoesOn DEF SameLists

(* block: of io_handler, by a coroutine whose connection is open. *)
LEMMA WaitStep ==
  ASSUME CoInv, Sound, NEW c \in Events, cur = Server(c), co[c].pc # "start", conn[c].state = "connect",
         NEW pc \in {"woken_read", "woken_write"}, NEW w, w = World, Wait(w, c, Wanted(pc), pc)
  PROVE  CoInv'
<1> DEFINE t == <<c, co[c].waits + 1>>
           k == [w.co[c] EXCEPT !.waits = co[c].waits + 1, !.pc = pc]
           tm == [w.timers EXCEPT ![t] = "armed"]
           K == [w.co EXCEPT ![c] = k]
           W == event[c].events \cup {Wanted(pc)}
<1>1. /\ Good(w, {}) /\ DOMAIN w = Fields /\ w.running = running /\ w.co = co /\ w.conn = conn /\ w.q.event = event
  BY Present
<1>2. /\ running # <<>> /\ Head(running) = Server(c) /\ Server(c) \in Due(w) /\ Server(c) \notin Held(w)
      /\ co[c] \in CoRecords /\ event[c].life # "none"
  BY ServerRuns
<1>3. PICK x : x = To([w EXCEPT !.q = Interested(@, c, W), !.timers[t] = "armed", !.co[c].waits = @ + 1], c, pc)
  OBVIOUS
<1>4. co[c].waits < MaxWaits /\ Holds(x, c)
  BY <1>3, Zenon DEF Wait
<1>5. w.co \in [Events -> CoRecords] /\ w.timers \in [TimerIds -> {"none", "armed", "popped", "deleted"}]
      /\ w.q.event \in [Events -> EventRecords]
  BY <1>1 DEF Good, Typed, IsPoller, Polls, PollTypes
<1>6. W \in SUBSET Interest /\ Wanted(pc) \in W
  BY <1>1, <1>5, Zenon DEF Wanted, Interest, EventRecords
<1>7. t \in TimerIds /\ t[1] = c /\ t[2] = co[c].waits + 1
  BY <1>2, <1>4, CoAssumption DEF TimerIds, CoRecords
<1>8. k \in CoRecords /\ k.pc = pc /\ k.waits = co[c].waits + 1 /\ k.waits >= w.co[c].waits
  <2>1. PICK n : n = co[c].waits + 1
    OBVIOUS
  <2>2. n \in Nat /\ n >= co[c].waits /\ pc \in Places
    BY <2>1, <1>2 DEF CoRecords, Places
  <2>3. k = [w.co[c] EXCEPT !.waits = n, !.pc = pc]
    BY <2>1
  <2> HIDE DEF k
  <2>. QED
    BY <2>1, <2>2, <2>3, <1>1, <1>2 DEF CoRecords
<1>9. PICK b : b = Rewanted(w, c, W)
  OBVIOUS
<1> HIDE DEF W, k, tm, K, t
<1>10. /\ Good(b, {c}) /\ SameLists(b, w) /\ b.co = w.co /\ b.conn = w.conn /\ b.timers = w.timers
       /\ b.history = w.history /\ b.q.event[c].life = w.q.event[c].life
  <2>1. PICK V \in SUBSET Interest : V = W
    BY <1>6
  <2>2. b = Rewanted(w, c, V) /\ w.q.event[c].life # "none"
    BY <2>1, <1>1, <1>2, <1>9
  <2>. QED
    BY <2>1, <2>2, <1>1, Unwanted
<1>11. b.q = Interested(w.q, c, W)
  BY <1>1, <1>9 DEF Rewanted, Fields
<1>12. Good(b, {}) /\ Due(b) = Due(w) /\ Held(b) = Held(w)
  <2>1. Due(b) = Due(w) /\ Held(b) = Held(w)
    BY <1>10 DEF Due, Held, SameLists
  <2>. QED
    BY <2>1, <1>2, <1>10, Excused
<1>13. Wanted(pc) \in b.q.event[c].events
  BY <1>1, <1>2, <1>6, <1>11, PollerInterest DEF Good, Typed
<1>14. /\ DOMAIN x = Fields /\ x.q = b.q /\ SameLists(x, w) /\ x.conn = w.conn /\ x.history = w.history
       /\ x.timers = tm /\ x.co = K
  <2>1. PICK y : y = [w EXCEPT !.q = Interested(w.q, c, W), !.timers = tm, !.co = [w.co EXCEPT ![c].waits = co[c].waits + 1]]
    OBVIOUS
  <2>2. x = To(y, c, pc)
    BY <2>1, <1>1, <1>3, <1>5 DEF Fields, tm
  <2>3. /\ DOMAIN y = Fields /\ y.q = b.q /\ SameLists(y, w) /\ y.conn = w.conn /\ y.history = w.history
        /\ y.timers = tm /\ y.co = [w.co EXCEPT ![c].waits = co[c].waits + 1]
    BY <2>1, <1>1, <1>11 DEF Fields, SameLists
  <2>4. /\ DOMAIN x = Fields /\ x.q = b.q /\ SameLists(x, w) /\ x.conn = w.conn /\ x.history = w.history
        /\ x.timers = tm /\ x.co = [y.co EXCEPT ![c].pc = pc]
    BY <2>2, <2>3 DEF To, Fields, SameLists
  <2>5. x.co = K
    BY <2>3, <2>4, <1>5, <1>1 DEF CoRecords, K, k
  <2>. QED
    BY <2>4, <2>5
<1>15. PICK d : d = [b EXCEPT !.co = K]
  OBVIOUS
<1>16. /\ DOMAIN d = Fields /\ d.q = b.q /\ SameLists(d, b) /\ d.conn = b.conn /\ d.timers = b.timers
       /\ d.history = b.history /\ d.co = [b.co EXCEPT ![c] = k]
  BY <1>10, <1>12, <1>15 DEF Fields, SameLists, Good, Typed, K
<1>17. Good(d, {}) /\ Due(d) = Due(w) /\ Held(d) = Held(w)
  BY <1>1, <1>2, <1>8, <1>10, <1>12, <1>16, CoroutineGoes
<1>18. d.co[c] = k
  BY <1>5, <1>10, <1>16
<1>19. OnTimeout(t) \notin Due(d)
  <2>1. w.timers[t] = "none"
    <3>1. Timed(w) /\ co[c].waits \in Nat
      BY <1>1, <1>2 DEF Good, Fits, CoRecords
    <3>. QED
      BY <3>1, <1>1, <1>7 DEF Timed
  <2>2. Timed(w)
    BY <1>1 DEF Good, Fits
  <2>3. OnTimeout(t) \in Due(w) => w.timers[t] \in {"popped", "deleted"}
    BY <2>2, <1>7 DEF Timed
  <2>. QED
    BY <2>1, <2>3, <1>17
<1>20. Good(x, {}) /\ Due(x) = Due(w) /\ Held(x) = Held(w)
  <2>1. Server(t[1]) \notin Held(d) /\ t[2] <= d.co[t[1]].waits
    BY <1>2, <1>7, <1>8, <1>17, <1>18 DEF CoRecords
  <2>2. /\ x.q = d.q /\ SameLists(x, d) /\ x.conn = d.conn /\ x.co = d.co /\ x.history = d.history
        /\ x.timers = [d.timers EXCEPT ![t] = "armed"]
    BY <1>10, <1>14, <1>16 DEF SameLists, K, tm
  <2>3. PICK u \in TimerIds : u = t
    BY <1>7
  <2>4. Good(x, {}) /\ Due(x) = Due(d) /\ Held(x) = Held(d)
    BY <2>1, <2>2, <2>3, <1>14, <1>17, <1>19, TimerGoes
  <2>. QED
    BY <2>4, <1>17
<1>21. PICK p : p = [x EXCEPT !.running = Tail(@), !.hold = Append(@, Server(c)), !.co[c].state = "HOLD"]
  OBVIOUS
<1>22. Good(p, {})
  <2>1. x.running # <<>> /\ Head(x.running) = Server(c) /\ x.conn[c].state = "connect"
    BY <1>1, <1>2, <1>14 DEF SameLists
  <2>2. x.co[c] = k /\ Wanted(x.co[c].pc) \in x.q.event[c].events
    BY <1>5, <1>8, <1>13, <1>14 DEF K
  <2>3. <<c, x.co[c].waits>> = t
    BY <2>2, <1>8 DEF t
  <2>4. x.timers[t] = "armed"
    BY <1>5, <1>7, <1>14 DEF tm
  <2>. QED
    BY <2>1, <2>2, <2>3, <2>4, <1>7, <1>20, <1>21, Parked
<1>23. PICK m : m = MoveReady(p)
  OBVIOUS
<1>24. Good(m, {})
  BY <1>22, <1>23, ReadyMoves
<1>25. cur' = Idle /\ Turns(m)
  BY <1>4, <1>21, <1>23, Zenon DEF Holds
<1>. QED
  BY <1>24, <1>25, Turned

(* The rest of io_handler: the timer of the wait is cancelled. *)
LEMMA Unwaits ==
  ASSUME NEW w, Good(w, {}), NEW c \in Events, Server(c) \notin Held(w), NEW v, v = Unwait(w, c)
  PROVE  /\ Good(v, {}) /\ DOMAIN v = Fields /\ Due(v) = Due(w) /\ Held(v) = Held(w) /\ v.running = w.running
         /\ v.co = w.co /\ v.broken = w.broken
<1> DEFINE t == <<c, w.co[c].waits>>
<1>1. DOMAIN w = Fields /\ w.timers \in [TimerIds -> {"none", "armed", "popped", "deleted"}] /\ w.co \in [Events -> CoRecords]
  BY DEF Good, Typed
<1>2. v = w \/ v = [w EXCEPT !.timers[t] = "deleted"]
  BY DEF Unwait
<1>3. t[1] = c /\ t[2] = w.co[c].waits /\ w.co[c].waits \in Nat
  BY <1>1 DEF CoRecords
<1> HIDE DEF t
<1>4. CASE v = w
  BY <1>1, <1>4
<1>5. CASE v = [w EXCEPT !.timers[t] = "deleted"]
  <2>1. /\ DOMAIN v = Fields /\ v.q = w.q /\ SameLists(v, w) /\ v.conn = w.conn /\ v.co = w.co /\ v.history = w.history
        /\ v.timers = [w.timers EXCEPT ![t] = "deleted"] /\ v.broken = w.broken
    BY <1>1, <1>5 DEF Fields, SameLists
  <2>2. CASE t \in TimerIds
    <3>1. t[2] <= w.co[t[1]].waits
      BY <1>3
    <3>2. Good(v, {}) /\ Due(v) = Due(w) /\ Held(v) = Held(w)
      BY <2>1, <2>2, <3>1, <1>3, TimerGoes
    <3>. QED
      BY <2>1, <3>2 DEF SameLists
  <2>3. CASE t \notin TimerIds
    <3>1. v.timers = w.timers
      BY <2>1, <2>3, <1>1
    <3>2. Due(v) = Due(w) /\ Held(v) = Held(w)
      BY <2>1 DEF Due, Held, SameLists
    <3>3. Good(v, {})
      <4>1. Typed(v) /\ Apart(v)
        BY <2>1, <3>1, <3>2 DEF Good, Typed, Apart, SameLists
      <4>2. Fits(w) /\ Holding(w, {})
        BY DEF Good
      <4>3. Fits(v)
        BY <2>1, <3>1, <3>2, <4>2 DEF Fits, Placed, Timed, Closing, Conns, HoldIsHold
      <4>4. Holding(v, {})
        BY <2>1, <3>1, <3>2, <4>2 DEF Holding
      <4>. QED
        BY <4>1, <4>3, <4>4 DEF Good
    <3>. QED
      BY <2>1, <3>2, <3>3 DEF SameLists
  <2>. QED
    BY <2>2, <2>3
<1>. QED
  BY <1>2, <1>4, <1>5

(* What is broken is not looked at any more. *)
LEMMA Broke ==
  ASSUME CoInv, Sound, cur # Idle, NEW why, why # "no", Continues(Breaks(World, why))
  PROVE  CoInv'
<1>1. PICK w, v : w = World /\ v = Breaks(w, why)
  OBVIOUS
<1>2. DOMAIN w = Fields /\ cur \in Coros
  BY <1>1, Present
<1>3. v.broken # "no"
  BY <1>1, <1>2 DEF Breaks, Fields
<1>4. Continues(v)
  BY <1>1
<1>. QED
  BY <1>2, <1>3, <1>4, GoesOn

(* A connection whose coroutine runs, after the calls that it made. *)
Serving(w, c) ==
  DOMAIN w = Fields /\ (w.broken = "no" => /\ Good(w, {}) /\ w.running # <<>> /\ Head(w.running) = Server(c)
                                           /\ w.co[c].pc # "start")

LEMMA ServesStill ==
  ASSUME NEW w, NEW c \in Events, Serving(w, c), w.broken = "no"
  PROVE  Server(c) \in Due(w) /\ Server(c) \notin Held(w)
<1>1. w.running \in Seq(Coros) /\ Once(w.running) /\ w.running # <<>> /\ Head(w.running) = Server(c) /\ Good(w, {})
  BY DEF Serving, Good, Typed, Apart
<1>2. Server(c) \in ToSet(w.running)
  BY <1>1, Rest
<1>. QED
  BY <1>1, <1>2 DEF Good, Apart, Due

LEMMA CoGoesOn ==
  ASSUME NEW w, NEW c \in Events, Serving(w, c), cur = Server(c), NEW pc \in Places \ {"start"},
         NEW v, v = To(w, c, pc), Continues(v)
  PROVE  CoInv'
<1>1. cur \in Coros
  BY DEF Coros, Servers
<1>2. DOMAIN w = Fields /\ v.broken = w.broken
  BY DEF Serving, To, Fields
<1>3. ASSUME v.broken = "no" PROVE Good(v, {}) /\ v.running # <<>> /\ cur = Head(v.running)
  <2>1. w.broken = "no" /\ Good(w, {}) /\ w.running # <<>> /\ Head(w.running) = Server(c) /\ w.co[c].pc # "start"
    BY <1>2, <1>3 DEF Serving
  <2>2. Server(c) \in Due(w) /\ Server(c) \notin Held(w)
    BY <2>1, ServesStill
  <2>3. Good(v, {}) /\ v.running = w.running
    BY <2>1, <2>2, GoesTo
  <2>. QED
    BY <2>1, <2>3
<1>. QED
  BY <1>1, <1>3, GoesOn

LEMMA CoEnds ==
  ASSUME NEW w, NEW c \in Events, Serving(w, c), NEW v, v = To(w, c, "ended"), Terminates(v)
  PROVE  CoInv'
<1>1. DOMAIN w = Fields /\ DOMAIN v = Fields /\ v.broken = w.broken
  BY DEF Serving, To, Fields
<1>2. ASSUME v.broken = "no"
      PROVE  /\ Good(v, {}) /\ v.running # <<>>
             /\ \A d \in Events : Head(v.running) = Server(d) => v.co[d].pc = "ended"
             /\ \A t \in TimerIds : Head(v.running) = OnTimeout(t) => Server(t[1]) \notin Held(v)
  <2>1. w.broken = "no" /\ Good(w, {}) /\ w.running # <<>> /\ Head(w.running) = Server(c) /\ w.co[c].pc # "start"
    BY <1>1, <1>2 DEF Serving
  <2>2. Server(c) \in Due(w) /\ Server(c) \notin Held(w) /\ "ended" \in Places \ {"start"}
    BY <2>1, ServesStill DEF Places
  <2>3. Good(v, {}) /\ v.running = w.running /\ v.co[c].pc = "ended"
    BY <2>1, <2>2, GoesTo
  <2>. QED
    BY <2>1, <2>3, CorosDiffer
<1>. QED
  BY <1>1, <1>2, Ended

(* handleClose by the coroutine of the connection itself. *)
LEMMA ServingCloses ==
  ASSUME NEW w, NEW c \in Events, Serving(w, c), w.broken = "no", NEW v, v = HandleClose(w, c)
  PROVE  Serving(v, c)
<1>1. DOMAIN w = Fields /\ Good(w, {}) /\ w.running # <<>> /\ Head(w.running) = Server(c) /\ w.co[c].pc # "start"
  BY DEF Serving
<1>2. DOMAIN v = Fields
  BY <1>1, ClosedHasFields
<1>3. ASSUME v.broken = "no" PROVE Good(v, {}) /\ v.running # <<>> /\ Head(v.running) = Server(c) /\ v.co[c].pc # "start"
  <2>1. Good(v, {}) /\ SameWaits(v, w) /\ SameHead(v, w)
    BY <1>1, <1>3, ConnCloses
  <2>. QED
    BY <2>1, <1>1 DEF SameWaits, SameHead
<1>. QED
  BY <1>2, <1>3 DEF Serving

LEMMA ServesNow ==
  ASSUME CoInv, Sound, NEW c \in Events, cur = Server(c), co[c].pc # "start", NEW w, w = World
  PROVE  /\ Serving(w, c) /\ w.broken = "no" /\ w.co = co /\ w.conn = conn /\ cur # Idle
         /\ conn[c].state # "closed" => conn[c].state = "connect"
<1>1. /\ Good(w, {}) /\ DOMAIN w = Fields /\ w.running = running /\ w.co = co /\ w.conn = conn /\ w.broken = "no"
  BY Present
<1>2. running # <<>> /\ Head(running) = Server(c) /\ cur # Idle /\ ConnFits(co[c].pc, conn[c], event[c].life)
  BY ServerRuns
<1>3. conn[c] \in ConnRecords
  BY <1>1 DEF Good, Typed
<1>4. conn[c].state # "closed" => conn[c].state = "connect"
  BY <1>2, <1>3 DEF ConnRecords, ConnFits
<1>. QED
  BY <1>1, <1>2, <1>4 DEF Serving

LEMMA ReadStep ==
  ASSUME CoInv, NEW c \in Events, Read(c)
  PROVE  CoInv'
<1>1. PICK w : w = World
  OBVIOUS
<1>2. Sound /\ cur = Server(c) /\ co[c].pc = "read"
  BY DEF Read, Runs
<1>3. Serving(w, c) /\ w.broken = "no" /\ cur # Idle /\ (conn[c].state # "closed" => conn[c].state = "connect")
  BY <1>1, <1>2, ServesNow
<1>4. CASE Continues(Breaks(World, "connection"))
  BY <1>2, <1>3, <1>4, Broke
<1>5. CASE Terminates(To(w, c, "ended"))
  BY <1>3, <1>5, CoEnds
<1>6. CASE Wait(w, c, "READ", "woken_read") /\ conn[c].state # "closed"
  BY <1>1, <1>2, <1>3, <1>6, WaitStep DEF Wanted
<1>7. CASE Continues(To(w, c, "message"))
  <2>1. "message" \in Places \ {"start"}
    BY DEF Places
  <2>. QED
    BY <2>1, <1>2, <1>3, <1>7, CoGoesOn
<1>8. CASE Terminates(To(HandleClose(w, c), c, "ended"))
  <2>1. PICK v : v = HandleClose(w, c)
    OBVIOUS
  <2>2. Serving(v, c)
    BY <2>1, <1>3, ServingCloses
  <2>. QED
    BY <2>1, <2>2, <1>8, CoEnds
<1>. QED
  BY <1>1, <1>4, <1>5, <1>6, <1>7, <1>8, Zenon DEF Read

LEMMA UnwaitServes ==
  ASSUME NEW w, NEW c \in Events, Serving(w, c), w.broken = "no", NEW v, v = Unwait(w, c)
  PROVE  Serving(v, c) /\ v.broken = "no"
<1>1. DOMAIN w = Fields /\ Good(w, {}) /\ w.running # <<>> /\ Head(w.running) = Server(c) /\ w.co[c].pc # "start"
  BY DEF Serving
<1>2. Server(c) \notin Held(w)
  BY ServesStill
<1>3. Good(v, {}) /\ DOMAIN v = Fields /\ v.running = w.running /\ v.co = w.co /\ v.broken = w.broken
  BY <1>1, <1>2, Unwaits
<1>. QED
  BY <1>1, <1>3 DEF Serving

LEMMA WokenReadStep ==
  ASSUME CoInv, NEW c \in Events, WokenRead(c)
  PROVE  CoInv'
<1>1. PICK w : w = World
  OBVIOUS
<1>2. Sound /\ cur = Server(c) /\ co[c].pc = "woken_read"
  BY DEF WokenRead, Runs
<1>3. Serving(w, c) /\ w.broken = "no" /\ cur # Idle
  BY <1>1, <1>2, ServesNow
<1>4. PICK u : u = Unwait(w, c)
  OBVIOUS
<1>5. Serving(u, c) /\ u.broken = "no"
  BY <1>3, <1>4, UnwaitServes
<1>6. CASE Continues(Breaks(World, "connection"))
  BY <1>2, <1>3, <1>6, Broke
<1>7. CASE Continues(To(u, c, "message"))
  <2>1. "message" \in Places \ {"start"}
    BY DEF Places
  <2>. QED
    BY <2>1, <1>2, <1>5, <1>7, CoGoesOn
<1>8. CASE Terminates(To(HandleClose(u, c), c, "ended"))
  <2>1. PICK v : v = HandleClose(u, c)
    OBVIOUS
  <2>2. Serving(v, c)
    BY <2>1, <1>5, ServingCloses
  <2>. QED
    BY <2>1, <2>2, <1>8, CoEnds
<1>. QED
  BY <1>1, <1>4, <1>6, <1>7, <1>8, Zenon DEF WokenRead

(* message_callback_, of which the connection counts the calls. *)
LEMMA MessageStep ==
  ASSUME CoInv, NEW c \in Events, Message(c)
  PROVE  CoInv'
<1>1. PICK w : w = World
  OBVIOUS
<1>2. Sound /\ cur = Server(c) /\ co[c].pc = "message"
  BY DEF Message, Runs
<1>3. Serving(w, c) /\ w.broken = "no" /\ cur # Idle /\ w.co = co
  BY <1>1, <1>2, ServesNow
<1>4. PICK u : u = [w EXCEPT !.co[c].messages = @ + 1]
  OBVIOUS
<1>5. Serving(u, c) /\ u.broken = "no"
  <2>1. DOMAIN w = Fields /\ Good(w, {}) /\ w.running # <<>> /\ Head(w.running) = Server(c)
    BY <1>3 DEF Serving
  <2>2. Server(c) \in Due(w) /\ Server(c) \notin Held(w)
    BY <1>3, ServesStill
  <2>3. w.co \in [Events -> CoRecords]
    BY <2>1 DEF Good, Typed
  <2>4. PICK n : n = w.co[c].messages + 1
    OBVIOUS
  <2>5. PICK k : k = [w.co[c] EXCEPT !.messages = n]
    OBVIOUS
  <2>6. n \in Nat
    BY <2>3, <2>4 DEF CoRecords
  <2>7. k \in CoRecords /\ k.pc = "message" /\ k.waits = w.co[c].waits /\ k.waits \in Nat
    BY <2>3, <2>5, <2>6, <1>2, <1>3 DEF CoRecords
  <2>8. /\ DOMAIN u = Fields /\ u.q = w.q /\ SameLists(u, w) /\ u.conn = w.conn /\ u.timers = w.timers
        /\ u.history = w.history /\ u.co = [w.co EXCEPT ![c] = k] /\ u.broken = w.broken
    BY <2>1, <2>4, <2>5, <1>4 DEF Fields, SameLists
  <2>9. k.waits >= w.co[c].waits /\ w.co[c].pc # "start"
    BY <2>7, <1>2, <1>3
  <2>10. Good(u, {})
    BY <2>1, <2>2, <2>7, <2>8, <2>9, CoroutineGoes
  <2>11. u.co[c] = k
    BY <2>3, <2>8
  <2>. QED
    BY <2>1, <2>7, <2>8, <2>10, <2>11, <1>3 DEF Serving, SameLists
<1>6. CASE Continues(Breaks(World, "session"))
  BY <1>2, <1>3, <1>6, Broke
<1>7. CASE \E pc \in {"read", "send"} : Continues(To(u, c, pc))
  <2>1. {"read", "send"} \subseteq Places \ {"start"}
    BY DEF Places
  <2>2. PICK pc \in {"read", "send"} : Continues(To(u, c, pc))
    BY <1>7
  <2>3. pc \in Places \ {"start"}
    BY <2>1, <2>2
  <2>. QED
    BY <2>2, <2>3, <1>2, <1>5, CoGoesOn
<1>8. CASE Terminates(To(ForceCloseInLoop(u, c), c, "ended"))
  <2>1. PICK v : v = ForceCloseInLoop(u, c)
    OBVIOUS
  <2>2. v = u \/ v = HandleClose(u, c)
    BY <2>1 DEF ForceCloseInLoop
  <2>3. Serving(v, c)
    BY <2>2, <1>5, ServingCloses
  <2>. QED
    BY <2>1, <2>3, <1>8, CoEnds
<1>. QED
  <2>1. u = [World EXCEPT !.co[c].messages = @ + 1]
    BY <1>1, <1>4
  <2>. QED
    BY <2>1, <1>6, <1>7, <1>8, Zenon DEF Message

LEMMA SendStep ==
  ASSUME CoInv, NEW c \in Events, Send(c)
  PROVE  CoInv'
<1>1. PICK w : w = World
  OBVIOUS
<1>2. Sound /\ cur = Server(c) /\ co[c].pc = "send"
  BY DEF Send, Runs
<1>3. Serving(w, c) /\ w.broken = "no"
  BY <1>1, <1>2, ServesNow
<1>4. CASE conn[c].state = "connect" /\ Wait(w, c, "WRITE", "woken_write")
  BY <1>1, <1>2, <1>4, WaitStep DEF Wanted
<1>5. CASE Continues(To(w, c, "read"))
  <2>1. "read" \in Places \ {"start"}
    BY DEF Places
  <2>. QED
    BY <2>1, <1>2, <1>3, <1>5, CoGoesOn
<1>. QED
  BY <1>1, <1>4, <1>5, Zenon DEF Send

LEMMA WokenWriteStep ==
  ASSUME CoInv, NEW c \in Events, WokenWrite(c)
  PROVE  CoInv'
<1>1. PICK w : w = World
  OBVIOUS
<1>2. Sound /\ cur = Server(c) /\ co[c].pc = "woken_write"
  BY DEF WokenWrite, Runs
<1>3. Serving(w, c) /\ w.broken = "no" /\ cur # Idle
  BY <1>1, <1>2, ServesNow
<1>4. PICK u : u = Unwait(w, c)
  OBVIOUS
<1>5. Serving(u, c)
  BY <1>3, <1>4, UnwaitServes
<1>6. CASE Continues(Breaks(World, "connection"))
  BY <1>2, <1>3, <1>6, Broke
<1>7. CASE \E pc \in {"send", "read"} : Continues(To(u, c, pc))
  <2>1. {"send", "read"} \subseteq Places \ {"start"}
    BY DEF Places
  <2>2. PICK pc \in {"send", "read"} : Continues(To(u, c, pc))
    BY <1>7
  <2>3. pc \in Places \ {"start"}
    BY <2>1, <2>2
  <2>. QED
    BY <2>2, <2>3, <1>2, <1>5, CoGoesOn
<1>. QED
  BY <1>1, <1>4, <1>6, <1>7, Zenon DEF WokenWrite

-----------------------------------------------------------------------------
(* The coroutine of a timer closes the connection of the wait. *)
LEMMA TimeoutStep ==
  ASSUME CoInv, NEW t \in TimerIds, Timeout(t)
  PROVE  CoInv'
<1>1. PICK w : w = World
  OBVIOUS
<1>2. PICK c \in Events : c = t[1]
  BY DEF TimerIds
<1>3. Sound /\ cur = OnTimeout(t) /\ cur # Idle
  BY CorosDiffer DEF Timeout
<1>4. /\ Good(w, {}) /\ DOMAIN w = Fields /\ w.running # <<>> /\ Head(w.running) = OnTimeout(t) /\ OnTimeout(t) \in Due(w)
  BY <1>1, <1>3, Present
<1>5. w.co[c].pc # "start" /\ t[2] <= w.co[c].waits
  <2>1. Timed(w) /\ w.co[c] \in CoRecords
    BY <1>4 DEF Good, Fits, Typed
  <2>2. w.timers[t] # "none"
    BY <2>1, <1>4 DEF Timed
  <2>3. t[2] \in 1 .. MaxWaits /\ w.co[c].waits \in Nat
    BY <2>1 DEF TimerIds, CoRecords
  <2>4. t[2] <= w.co[c].waits
    BY <2>1, <2>2, <2>3, <1>2, CoAssumption DEF Timed
  <2>5. w.co[c].waits # 0
    BY <2>3, <2>4, CoAssumption
  <2>. QED
    BY <2>1, <2>4, <2>5 DEF Timed
<1>6. CASE Continues(Breaks(World, "timer"))
  BY <1>3, <1>6, Broke
<1>7. CASE Continues(Breaks(World, "connection"))
  BY <1>3, <1>7, Broke
<1>8. CASE Terminates([HandleClose(w, c) EXCEPT !.timers[t] = "deleted"])
  <2>1. PICK v : v = HandleClose(w, c)
    OBVIOUS
  <2>2. PICK x : x = [v EXCEPT !.timers[t] = "deleted"]
    OBVIOUS
  <2>3. DOMAIN v = Fields
    BY <2>1, <1>4, ClosedHasFields
  <2>4. /\ DOMAIN x = Fields /\ x.q = v.q /\ SameLists(x, v) /\ x.conn = v.conn /\ x.co = v.co /\ x.history = v.history
        /\ x.timers = [v.timers EXCEPT ![t] = "deleted"] /\ x.broken = v.broken
    BY <2>2, <2>3 DEF Fields, SameLists
  <2>5. ASSUME x.broken = "no"
        PROVE  /\ Good(x, {}) /\ x.running # <<>>
               /\ \A d \in Events : Head(x.running) = Server(d) => x.co[d].pc = "ended"
               /\ \A u \in TimerIds : Head(x.running) = OnTimeout(u) => Server(u[1]) \notin Held(x)
    <3>1. Good(v, {}) /\ Server(c) \notin Held(v) /\ SameWaits(v, w) /\ SameHead(v, w)
      BY <2>1, <2>4, <2>5, <1>4, <1>5, ConnCloses
    <3>2. t[2] <= v.co[t[1]].waits /\ Server(t[1]) \notin Held(v)
      BY <3>1, <1>2, <1>5 DEF SameWaits
    <3>3. Good(x, {}) /\ Held(x) = Held(v)
      BY <2>4, <3>1, <3>2, TimerGoes
    <3>4. x.running # <<>> /\ Head(x.running) = OnTimeout(t)
      BY <2>4, <3>1, <1>4 DEF SameHead, SameLists
    <3>. QED
      BY <3>2, <3>3, <3>4, CorosDiffer
  <2>. QED
    BY <2>1, <2>2, <2>4, <2>5, <1>8, Ended
<1>. QED
  BY <1>1, <1>2, <1>6, <1>7, <1>8, Zenon DEF Timeout

(* The coroutine by which another thread closes a connection. *)
LEMMA RunCloseStep ==
  ASSUME CoInv, NEW c \in Events, RunClose(c)
  PROVE  CoInv'
<1>1. PICK w : w = World
  OBVIOUS
<1>2. Sound /\ cur = OnClose(c) /\ cur # Idle
  BY CorosDiffer DEF RunClose
<1>3. /\ Good(w, {}) /\ DOMAIN w = Fields /\ w.running # <<>> /\ Head(w.running) = OnClose(c) /\ OnClose(c) \in Due(w)
  BY <1>1, <1>2, Present
<1>4. w.co[c].pc # "start"
  BY <1>3 DEF Good, Fits, Closing
<1>5. CASE Continues(Breaks(World, "connection"))
  BY <1>2, <1>5, Broke
<1>6. CASE Terminates(ForceCloseInLoop(w, c))
  <2>1. PICK v : v = ForceCloseInLoop(w, c)
    OBVIOUS
  <2>2. v = w \/ v = HandleClose(w, c)
    BY <2>1 DEF ForceCloseInLoop
  <2>3. DOMAIN v = Fields
    BY <2>2, <1>3, ClosedHasFields
  <2>4. ASSUME v.broken = "no"
        PROVE  /\ Good(v, {}) /\ v.running # <<>>
               /\ \A d \in Events : Head(v.running) = Server(d) => v.co[d].pc = "ended"
               /\ \A u \in TimerIds : Head(v.running) = OnTimeout(u) => Server(u[1]) \notin Held(v)
    <3>1. Good(v, {}) /\ SameHead(v, w)
      BY <2>2, <2>4, <1>3, <1>4, ConnCloses DEF SameHead
    <3>2. v.running # <<>> /\ Head(v.running) = OnClose(c)
      BY <3>1, <1>3 DEF SameHead
    <3>. QED
      BY <3>1, <3>2, CorosDiffer
  <2>. QED
    BY <2>1, <2>3, <2>4, <1>6, Ended
<1>. QED
  BY <1>1, <1>5, <1>6, Zenon DEF RunClose

-----------------------------------------------------------------------------
(* The steps of other threads leave the coroutine that runs alone. *)
LEMMA RunsOn ==
  ASSUME CoInv, Sound, NEW v, Turns(v), cur' = cur, Good(v, {}), v.running = running
  PROVE  CoInv'
<1>1. cur # Idle => running # <<>> /\ cur = Head(running)
  BY DEF CoInv
<1>. QED
  BY <1>1, Turned

LEMMA HeldAreServers ==
  ASSUME NEW w, Typed(w)
  PROVE  Held(w) \subseteq Servers
<1>1. w.hold \in Seq(Servers)
  BY DEF Typed
<1>. QED
  BY <1>1, LenProperties, ElementOfSeq DEF Held, ToSet

\* A coroutine follows those that are ready.
Adds(w, x) == [w EXCEPT !.ready = Append(@, x)]
LEMMA Added ==
  ASSUME NEW w, DOMAIN w = Fields, w.running \in Seq(Coros), w.ready \in Seq(Coros), Apart(w),
         NEW x \in Coros, x \notin Due(w) \cup Held(w), NEW v, v = Adds(w, x)
  PROVE  /\ DOMAIN v = Fields /\ v.running = w.running /\ v.hold = w.hold /\ v.q = w.q /\ v.co = w.co /\ v.conn = w.conn
         /\ v.timers = w.timers /\ v.history = w.history /\ v.ready \in Seq(Coros)
         /\ Due(v) = Due(w) \cup {x} /\ Held(v) = Held(w) /\ Apart(v)
<1> DEFINE R == Append(w.ready, x)
<1>1. R \in Seq(Coros) /\ Once(R) /\ ToSet(R) = ToSet(w.ready) \cup {x}
  <2>1. Once(w.ready) /\ x \notin ToSet(w.ready)
    BY DEF Apart, Due
  <2>. QED
    BY <2>1, Appended
<1> HIDE DEF R
<1>2. /\ DOMAIN v = Fields /\ v.running = w.running /\ v.hold = w.hold /\ v.q = w.q /\ v.co = w.co /\ v.conn = w.conn
      /\ v.timers = w.timers /\ v.history = w.history /\ v.ready = R
  BY DEF Adds, Fields, R
<1>3. Due(v) = Due(w) \cup {x} /\ Held(v) = Held(w)
  BY <1>1, <1>2 DEF Due, Held
<1>4. ToSet(v.running) \cap ToSet(v.ready) = {}
  BY <1>1, <1>2 DEF Apart, Due
<1>5. Held(v) \cap Due(v) = {}
  BY <1>3 DEF Apart
<1>. QED
  BY <1>1, <1>2, <1>3, <1>4, <1>5 DEF Apart

(* A connection is made, and its coroutine added to the loop. *)
LEMMA AcceptStep ==
  ASSUME CoInv, NEW c \in Events, Accept(c)
  PROVE  CoInv'
<1>1. PICK w : w = World
  OBVIOUS
<1>2. Sound /\ event[c].life = "none" /\ Free # {}
  BY DEF Accept
<1>3. /\ Good(w, {}) /\ DOMAIN w = Fields /\ w.running = running /\ w.q.event = event
  BY <1>1, <1>2, Present
<1>4. PICK fd \in Fds :
        /\ Turns(Adds([w EXCEPT !.q.event[c].fd = fd, !.q.event[c].life = "open"], Server(c))) /\ cur' = cur
  <2>1. Free \subseteq Fds /\ Free \subseteq Nat
    BY PollerAssumption DEF Free
  <2>2. \E x \in Free : \A y \in Free : x <= y
    <3>1. PICK k \in Free : \A j \in Free : ~ (<<j, k>> \in OpToRel(<, Nat))
      BY <1>2, <2>1, WFMin, NatLessThanWellFounded
    <3>2. \A j \in Free : ~ (j < k) /\ j \in Nat /\ k \in Nat
      BY <3>1, <2>1 DEF OpToRel
    <3>3. \A j \in Free : k <= j
      BY <3>2
    <3>. QED
      BY <3>1, <3>3
  <2>3. (CHOOSE x \in Free : \A y \in Free : x <= y) \in Fds
    BY <2>1, <2>2
  <2>. QED
    BY <2>3, <1>1 DEF Accept, AddCoroutine, Adds
<1>5. PICK u : u = [w EXCEPT !.q.event[c].fd = fd, !.q.event[c].life = "open"]
  OBVIOUS
<1>6. PICK v : v = Adds(u, Server(c))
  OBVIOUS
<1>7. IsPoller(w.q) /\ w.running \in Seq(Coros) /\ w.ready \in Seq(Coros) /\ Apart(w) /\ Fits(w) /\ Holding(w, {})
  BY <1>3 DEF Good, Typed
<1>8. PICK F, M, E : Polls(F, M, E) /\ w.q = [fds |-> F, map |-> M, event |-> E] /\ w.q.event = E
  BY <1>7, PollerParts
<1>9. PICK D : D = [E EXCEPT ![c] = [E[c] EXCEPT !.fd = fd, !.life = "open"]]
  OBVIOUS
<1>10. /\ D \in [Events -> EventRecords] /\ D[c].life = "open" /\ D[c].fd = fd /\ D[c].events = E[c].events
       /\ \A d \in Events \ {c} : D[d] = E[d]
  <2>1. E \in [Events -> EventRecords]
    BY <1>8 DEF Polls, PollTypes
  <2>. QED
    BY <2>1, <1>9, PollerAssumption DEF EventRecords
<1>11. /\ DOMAIN u = Fields /\ u.q = [fds |-> F, map |-> M, event |-> D] /\ SameLists(u, w) /\ u.co = w.co
       /\ u.conn = w.conn /\ u.timers = w.timers /\ u.history = w.history
  <2>1. E \in [Events -> EventRecords]
    BY <1>8 DEF Polls, PollTypes
  <2>2. D = [E EXCEPT ![c].fd = fd, ![c].life = "open"]
    BY <2>1, <1>9 DEF EventRecords
  <2>3. u.q = [w.q EXCEPT !.event[c].fd = fd, !.event[c].life = "open"]
    BY <1>3, <1>5 DEF Fields
  <2>4. u.q = [fds |-> F, map |-> M, event |-> D]
    <3>1. PICK e1 : e1 = [E EXCEPT ![c].fd = fd]
      OBVIOUS
    <3>2. PICK q1 : q1 = [w.q EXCEPT !.event[c].fd = fd]
      OBVIOUS
    <3>3. q1 = [fds |-> F, map |-> M, event |-> e1]
      BY <3>1, <3>2, <1>8
    <3>4. u.q = [q1 EXCEPT !.event[c].life = "open"]
      BY <2>3, <3>2
    <3>5. D = [e1 EXCEPT ![c].life = "open"]
      BY <2>2, <3>1
    <3>. QED
      BY <3>3, <3>4, <3>5
  <2>. QED
    BY <2>4, <1>3, <1>5 DEF Fields, SameLists
<1>12. IsPoller(u.q) /\ u.q.event = D
  <2>1. Polls(F, M, D)
    BY <1>8, <1>10 DEF Polls, PollTypes
  <2>. QED
    BY <2>1, <1>11, MadePoller
<1>13. Due(u) = Due(w) /\ Held(u) = Held(w) /\ Apart(u)
  BY <1>7, <1>11 DEF Due, Held, Apart, SameLists
<1>14. Server(c) \in Coros /\ Server(c) \notin Due(u) \cup Held(u)
  <2>1. Server(c) \notin Due(w) \cup Held(w)
    BY <1>2, <1>3, <1>7 DEF Fits, Placed
  <2>. QED
    BY <2>1, <1>13 DEF Coros, Servers
<1>15. /\ DOMAIN v = Fields /\ v.running = u.running /\ v.hold = u.hold /\ v.q = u.q /\ v.co = u.co /\ v.conn = u.conn
       /\ v.timers = u.timers /\ v.history = u.history /\ v.ready \in Seq(Coros)
       /\ Due(v) = Due(u) \cup {Server(c)} /\ Held(v) = Held(u) /\ Apart(v)
  BY <1>6, <1>7, <1>11, <1>13, <1>14, Added DEF SameLists
<1>16. Typed(v)
  BY <1>3, <1>11, <1>12, <1>15 DEF Good, Typed, SameLists
<1>17. /\ v.co = w.co /\ v.conn = w.conn /\ v.timers = w.timers /\ v.history = w.history /\ v.q.event = D
       /\ Due(v) = Due(w) \cup {Server(c)} /\ Held(v) = Held(w) /\ v.running = running
  BY <1>3, <1>11, <1>12, <1>13, <1>15 DEF SameLists
<1>18. Placed(v)
  <2>1. ASSUME NEW d \in Events
        PROVE  /\ v.q.event[d].life = "none" => Server(d) \notin Due(v) \cup Held(v)
               /\ v.q.event[d].life # "none" => Server(d) \in Due(v) \cup Held(v) \/ v.co[d].pc = "ended"
    <3>1. CASE d = c
      BY <3>1, <1>10, <1>17
    <3>2. CASE d # c
      <4>1. Server(d) # Server(c) /\ D[d] = E[d]
        BY <3>2, <1>10, CorosDiffer
      <4>. QED
        BY <4>1, <1>7, <1>8, <1>17 DEF Fits, Placed
    <3>. QED
      BY <3>1, <3>2
  <2>. QED
    BY <2>1 DEF Placed
<1>19. Timed(v)
  <2>1. \A t \in TimerIds : OnTimeout(t) \in Due(v) => OnTimeout(t) \in Due(w)
    BY <1>17, CorosDiffer
  <2>. QED
    BY <2>1, <1>7, <1>17 DEF Fits, Timed
<1>20. Closing(v)
  <2>1. \A d \in Events : OnClose(d) \in Due(v) => OnClose(d) \in Due(w)
    BY <1>17, CorosDiffer
  <2>. QED
    BY <2>1, <1>7, <1>17 DEF Fits, Closing
<1>21. Conns(v)
  <2>1. ConnFits(w.co[c].pc, w.conn[c], "none") /\ w.conn[c] \in ConnRecords
    BY <1>2, <1>3, <1>7 DEF Fits, Conns, Good, Typed
  <2>2. ConnFits(w.co[c].pc, w.conn[c], "open")
    BY <2>1 DEF ConnFits, ConnRecords
  <2>. QED
    BY <2>2, <1>7, <1>8, <1>10, <1>17 DEF Fits, Conns
<1>22. HoldIsHold(v)
  BY <1>7, <1>17 DEF Fits, HoldIsHold
<1>23. Holding(v, {})
  <2>1. \A d \in Events : D[d].events = E[d].events
    BY <1>10
  <2>. QED
    BY <2>1, <1>7, <1>8, <1>17 DEF Holding
<1>24. Good(v, {})
  BY <1>15, <1>16, <1>18, <1>19, <1>20, <1>21, <1>22, <1>23 DEF Good, Fits
<1>. QED
  BY <1>2, <1>4, <1>5, <1>6, <1>17, <1>24, RunsOn

(* Another thread closes a connection: a coroutine is added that does it. *)
LEMMA ForceCloseStep ==
  ASSUME CoInv, NEW c \in Events, ForceClose(c)
  PROVE  CoInv'
<1>1. PICK w : w = World
  OBVIOUS
<1>2. Sound /\ conn[c].state = "connect" /\ ~ history.outside
  BY DEF ForceClose
<1>3. /\ Good(w, {}) /\ DOMAIN w = Fields /\ w.running = running /\ w.conn = conn /\ w.history = history
  BY <1>1, <1>2, Present
<1>4. PICK u : u = [w EXCEPT !.history.outside = TRUE]
  OBVIOUS
<1>5. PICK v : v = Adds(u, OnClose(c))
  OBVIOUS
<1>6. Turns(v) /\ cur' = cur
  BY <1>1, <1>4, <1>5 DEF ForceClose, AddCoroutine, Adds
<1>7. Typed(w) /\ Apart(w) /\ Fits(w) /\ Holding(w, {})
  BY <1>3 DEF Good
<1>8. /\ DOMAIN u = Fields /\ SameLists(u, w) /\ u.q = w.q /\ u.co = w.co /\ u.conn = w.conn /\ u.timers = w.timers
      /\ u.history = [w.history EXCEPT !.outside = TRUE]
  BY <1>3, <1>4 DEF Fields, SameLists
<1>9. u.history \in Histories /\ u.history.outside = TRUE
  <2>1. w.history \in Histories
    BY <1>7 DEF Typed
  <2>. QED
    BY <2>1, <1>8 DEF Histories
<1>10. Due(u) = Due(w) /\ Held(u) = Held(w) /\ Apart(u)
  BY <1>7, <1>8 DEF Due, Held, Apart, SameLists
<1>11. OnClose(c) \in Coros /\ OnClose(c) \notin Due(u) \cup Held(u)
  <2>1. OnClose(c) \notin Due(w)
    BY <1>2, <1>3, <1>7 DEF Fits, Closing
  <2>2. OnClose(c) \notin Held(w)
    BY <1>7, HeldAreServers, CorosDiffer DEF Servers
  <2>. QED
    BY <2>1, <2>2, <1>10 DEF Coros
<1>12. w.running \in Seq(Coros) /\ w.ready \in Seq(Coros)
  BY <1>7 DEF Typed
<1>13. /\ DOMAIN v = Fields /\ v.running = u.running /\ v.hold = u.hold /\ v.q = u.q /\ v.co = u.co /\ v.conn = u.conn
       /\ v.timers = u.timers /\ v.history = u.history /\ v.ready \in Seq(Coros)
       /\ Due(v) = Due(u) \cup {OnClose(c)} /\ Held(v) = Held(u) /\ Apart(v)
  BY <1>5, <1>8, <1>10, <1>11, <1>12, Added DEF SameLists
<1>14. /\ v.co = w.co /\ v.conn = w.conn /\ v.timers = w.timers /\ v.q = w.q /\ v.history.outside = TRUE
       /\ Due(v) = Due(w) \cup {OnClose(c)} /\ Held(v) = Held(w) /\ v.running = running
  BY <1>3, <1>8, <1>9, <1>10, <1>13 DEF SameLists
<1>15. Typed(v)
  BY <1>7, <1>8, <1>9, <1>13 DEF Typed, SameLists
<1>16. Placed(v)
  <2>1. \A d \in Events : (Server(d) \in Due(v) => Server(d) \in Due(w)) /\ (Server(d) \in Due(w) => Server(d) \in Due(v))
    BY <1>14, CorosDiffer
  <2>. QED
    BY <2>1, <1>7, <1>14 DEF Fits, Placed
<1>17. Timed(v)
  <2>1. \A t \in TimerIds : OnTimeout(t) \in Due(v) => OnTimeout(t) \in Due(w)
    BY <1>14, CorosDiffer
  <2>. QED
    BY <2>1, <1>7, <1>14 DEF Fits, Timed
<1>18. Closing(v)
  <2>1. \A d \in Events : OnClose(d) \notin Due(w)
    BY <1>2, <1>3, <1>7 DEF Fits, Closing
  <2>2. \A d \in Events : OnClose(d) \in Due(v) => d = c
    BY <2>1, <1>14, CorosDiffer
  <2>3. w.co[c].pc # "start"
    BY <1>2, <1>3, <1>7 DEF Fits, Conns, ConnFits
  <2>. QED
    BY <2>2, <2>3, <1>14 DEF Closing
<1>19. Conns(v) /\ HoldIsHold(v)
  BY <1>7, <1>14 DEF Fits, Conns, HoldIsHold
<1>20. Holding(v, {})
  BY <1>7, <1>14 DEF Holding
<1>21. Good(v, {})
  BY <1>13, <1>15, <1>16, <1>17, <1>18, <1>19, <1>20 DEF Good, Fits
<1>. QED
  BY <1>2, <1>6, <1>14, <1>21, RunsOn

(* The accepting thread destroys a connection that closed. *)
LEMMA RemoveConnectionStep ==
  ASSUME CoInv, NEW c \in Events, RemoveConnection(c)
  PROVE  CoInv'
<1>1. PICK w : w = World
  OBVIOUS
<1>2. Sound /\ conn[c].removals > 0
  BY DEF RemoveConnection
<1>3. /\ Good(w, {}) /\ DOMAIN w = Fields /\ w.running = running /\ w.conn = conn
  BY <1>1, <1>2, Present
<1>4. PICK v : v = [w EXCEPT !.conn[c].removals = @ - 1, !.q.event[c].life = "gone"]
  OBVIOUS
<1>5. Turns(v) /\ cur' = cur
  BY <1>1, <1>4 DEF RemoveConnection
<1>6. IsPoller(w.q) /\ w.conn \in [Events -> ConnRecords] /\ Typed(w) /\ Apart(w) /\ Fits(w) /\ Holding(w, {})
  BY <1>3 DEF Good, Typed
<1>7. PICK n, m : n = w.conn[c] /\ m = n.removals - 1
  OBVIOUS
<1>8. n \in ConnRecords /\ n.state = "closed" /\ m \in Nat /\ ConnFits(w.co[c].pc, n, w.q.event[c].life)
  <2>1. n \in ConnRecords /\ ConnFits(w.co[c].pc, n, w.q.event[c].life) /\ n.removals > 0
    BY <1>2, <1>3, <1>6, <1>7 DEF Fits, Conns
  <2>2. n.removals \in Nat /\ n.removals # 0
    BY <2>1 DEF ConnRecords
  <2>3. n.state = "closed"
    BY <2>1, <2>2 DEF ConnFits, ConnRecords
  <2>. QED
    BY <2>1, <2>2, <2>3, <1>7
<1>9. w.q.event[c].life # "none"
  BY <1>8 DEF ConnFits
<1>10. PICK F, M, E : Polls(F, M, E) /\ w.q = [fds |-> F, map |-> M, event |-> E] /\ w.q.event = E
  BY <1>6, PollerParts
<1>11. PICK D : D = [E EXCEPT ![c] = [E[c] EXCEPT !.life = "gone"]]
  OBVIOUS
<1>12. /\ D \in [Events -> EventRecords] /\ D[c].life = "gone" /\ D[c].fd = E[c].fd /\ D[c].events = E[c].events
       /\ \A d \in Events \ {c} : D[d] = E[d]
  <2>1. E \in [Events -> EventRecords]
    BY <1>10 DEF Polls, PollTypes
  <2>. QED
    BY <2>1, <1>11 DEF EventRecords
<1>13. PICK p : p = [n EXCEPT !.removals = m]
  OBVIOUS
<1>14. p \in ConnRecords /\ p.state = "closed"
  BY <1>8, <1>13 DEF ConnRecords
<1>15. /\ DOMAIN v = Fields /\ v.q = [fds |-> F, map |-> M, event |-> D] /\ SameLists(v, w) /\ v.co = w.co
       /\ v.conn = [w.conn EXCEPT ![c] = p] /\ v.timers = w.timers /\ v.history = w.history
  <2>1. v.q = [w.q EXCEPT !.event[c].life = "gone"] /\ v.conn = [w.conn EXCEPT ![c].removals = @ - 1]
    BY <1>3, <1>4 DEF Fields
  <2>2. v.q = [fds |-> F, map |-> M, event |-> D]
    BY <2>1, <1>10, <1>11
  <2>3. v.conn = [w.conn EXCEPT ![c] = p]
    BY <2>1, <1>7, <1>13
  <2>. QED
    BY <2>2, <2>3, <1>3, <1>4 DEF Fields, SameLists
<1>16. PICK f : f = v.conn
  OBVIOUS
<1>17. f \in [Events -> ConnRecords] /\ f[c] = p /\ \A d \in Events \ {c} : f[d] = w.conn[d]
  BY <1>6, <1>14, <1>15, <1>16
<1>18. IsPoller(v.q) /\ v.q.event = D
  <2>1. Polls(F, M, D)
    BY <1>9, <1>10, <1>12 DEF Polls, PollTypes
  <2>. QED
    BY <2>1, <1>15, MadePoller
<1>19. Due(v) = Due(w) /\ Held(v) = Held(w)
  BY <1>15 DEF Due, Held, SameLists
<1>20. Typed(v) /\ Apart(v)
  BY <1>6, <1>15, <1>16, <1>17, <1>18, <1>19 DEF Typed, Apart, SameLists
<1>21. Placed(v)
  <2>1. \A d \in Events : (D[d].life = "none" => E[d].life = "none") /\ (D[d].life # "none" => E[d].life # "none")
    BY <1>9, <1>10, <1>12
  <2>. QED
    BY <2>1, <1>6, <1>10, <1>15, <1>18, <1>19 DEF Fits, Placed
<1>22. Timed(v) /\ Closing(v) /\ HoldIsHold(v)
  BY <1>6, <1>15, <1>19 DEF Fits, Timed, Closing, HoldIsHold
<1>23. Conns(v)
  <2>1. ConnFits(w.co[c].pc, p, "gone")
    BY <1>8, <1>14 DEF ConnFits
  <2>. QED
    BY <2>1, <1>6, <1>10, <1>12, <1>15, <1>16, <1>17, <1>18 DEF Fits, Conns
<1>24. Holding(v, {})
  <2>1. Server(c) \notin Held(w)
    BY <1>6, <1>7, <1>8 DEF Holding
  <2>. QED
    BY <2>1, <1>6, <1>10, <1>12, <1>15, <1>16, <1>17, <1>18, <1>19 DEF Holding
<1>25. Good(v, {})
  BY <1>20, <1>21, <1>22, <1>23, <1>24 DEF Good, Fits
<1>. QED
  BY <1>2, <1>3, <1>5, <1>15, <1>25, RunsOn DEF SameLists

-----------------------------------------------------------------------------
(* The timers of a pass, in an order that the timing wheel may have. *)
LEMMA DueInOrder ==
  ASSUME NEW due \in SUBSET TimerIds, NEW order \in {SetToSeq(due), Reverse(SetToSeq(due))}
  PROVE  order \in Seq(TimerIds) /\ Once(order) /\ ToSet(order) \subseteq due
<1>1. IsFiniteSet(due)
  <2>1. IsFiniteSet(1 .. MaxWaits)
    BY CoAssumption, FS_Interval
  <2>2. IsFiniteSet(TimerIds)
    BY <2>1, CoAssumption, FS_Product DEF TimerIds
  <2>. QED
    BY <2>2, FS_Subset
<1>2. PICK n \in Nat : n = Cardinality(due)
  BY <1>1, FS_CardinalityType
<1>3. PICK s : s = SetToSeq(due)
  OBVIOUS
<1>4. s \in [1 .. n -> due] /\ IsInjective(s)
  <2>1. \E f \in [1 .. n -> due] : IsInjective(f)
    <3>1. ExistsBijection(1 .. n, due)
      BY <1>1, <1>2, FS_CardinalityType
    <3>. QED
      BY <3>1 DEF ExistsBijection, Bijection, Injection
  <2>2. s = CHOOSE f \in [1 .. n -> due] : IsInjective(f)
    BY <1>2, <1>3 DEF SetToSeq
  <2>. QED
    BY <2>1, <2>2
<1>5. s \in Seq(TimerIds) /\ Len(s) = n /\ DOMAIN s = 1 .. n /\ \A i \in 1 .. n : s[i] \in due
  BY <1>2, <1>4
<1>6. CASE order = s
  <2>1. Once(order)
    BY <1>4, <1>6 DEF Once, IsInjective
  <2>. QED
    BY <2>1, <1>5, <1>6 DEF ToSet
<1>7. CASE order = Reverse(s)
  <2>1. order = [i \in 1 .. n |-> s[n - i + 1]]
    BY <1>5, <1>7 DEF Reverse
  <2>2. \A i \in 1 .. n : n - i + 1 \in 1 .. n /\ n - i + 1 \in DOMAIN s
    BY <1>5
  <2>3. DOMAIN order = 1 .. n /\ \A i \in 1 .. n : order[i] = s[n - i + 1] /\ order[i] \in due
    BY <2>1, <2>2, <1>5
  <2>4. order \in Seq(TimerIds)
    BY <2>1, <2>3
  <2>5. Once(order)
    <3> SUFFICES ASSUME NEW i \in DOMAIN order, NEW j \in DOMAIN order, order[i] = order[j] PROVE i = j
      BY DEF Once
    <3>1. s[n - i + 1] = s[n - j + 1]
      BY <2>3
    <3>2. n - i + 1 = n - j + 1
      BY <3>1, <2>2, <2>3, <1>4 DEF IsInjective
    <3>. QED
      BY <3>2, <2>3
  <2>. QED
    BY <2>3, <2>4, <2>5 DEF ToSet
<1>. QED
  BY <1>3, <1>6, <1>7

(* One pass of the loop up to the first coroutine. *)
LEMMA PassStep ==
  ASSUME CoInv, NEW due \in SUBSET Armed, NEW order \in {SetToSeq(due), Reverse(SetToSeq(due))}, Pass(order)
  PROVE  CoInv'
<1>1. PICK w : w = World
  OBVIOUS
<1>2. Sound /\ cur = Idle
  BY DEF Pass
<1>3. Good(w, {}) /\ w.timers = timers
  BY <1>1, <1>2, Present
<1>4. pollfds \in Seq(PollFds)
  <2>1. IsPoller(w.q) /\ w.q.fds = pollfds
    BY <1>1, <1>3 DEF Good, Typed, World, Poller
  <2>. QED
    BY <2>1 DEF IsPoller, Polls, PollTypes
<1>5. order \in Seq(TimerIds) /\ Once(order) /\ \A t \in ToSet(order) : timers[t] = "armed"
  <2>1. due \subseteq TimerIds /\ \A t \in due : timers[t] = "armed"
    BY DEF Armed
  <2>. QED
    BY <2>1, DueInOrder
<1>6. PICK hit : \E awake \in {HandleActiveEvents(hit)} :
                   \E popped \in {Popped(awake, order)} :
                   \E moved \in {IF popped.running = <<>> THEN MoveReady(popped) ELSE popped} :
                     Starts(moved, First(moved.running))
  BY Zenon DEF Pass
<1>7. PICK a, p, m : /\ a = HandleActiveEvents(hit) /\ p = Popped(a, order)
                     /\ m = IF p.running = <<>> THEN MoveReady(p) ELSE p
                     /\ Starts(m, First(m.running))
  BY <1>6
<1>8. PICK x, v : x = First(m.running) /\ v = Executes(m, x)
  OBVIOUS
<1>9. cur' = x /\ Turns(v)
  BY <1>7, <1>8 DEF Starts, Executes
<1>10. DOMAIN a = Fields /\ (a.broken = "no" => Good(a, {}) /\ a.timers = timers)
  <2>1. Good(World, {})
    BY <1>1, <1>3
  <2>. QED
    BY <2>1, <1>4, <1>7, AllHandled
<1>11. ASSUME v.broken = "no" PROVE a.broken = "no"
  <2>1. DOMAIN p = Fields /\ p.broken = a.broken
    BY <1>7, <1>10 DEF Popped, Fields
  <2>2. DOMAIN m = Fields /\ m.broken = p.broken
    BY <2>1, <1>7 DEF MoveReady, Fields
  <2>3. v.broken = m.broken
    BY <2>2, <1>8 DEF Executes, Fields
  <2>. QED
    BY <2>1, <2>2, <2>3, <1>11
<1>12. ASSUME v.broken = "no" PROVE Good(v, {}) /\ (x # Idle => v.running # <<>> /\ x = Head(v.running))
  <2>1. Good(a, {}) /\ a.timers = timers
    BY <1>10, <1>11, <1>12
  <2>2. Good(p, {})
    BY <2>1, <1>5, <1>7, TimersHanded
  <2>3. Good(m, {})
    BY <2>2, <1>7, ReadyMoves
  <2>. QED
    BY <2>3, <1>8, FirstStarts
<1>. QED
  BY <1>9, <1>12, Turned

-----------------------------------------------------------------------------
LEMMA CoInvHolds == CoInit => CoInv
<1> SUFFICES ASSUME CoInit PROVE CoInv
  OBVIOUS
<1>1. PICK w : w = World
  OBVIOUS
<1>2. /\ DOMAIN w = Fields /\ w.q = [fds |-> pollfds, map |-> events_map, event |-> event]
      /\ w.running = <<>> /\ w.hold = <<>> /\ w.ready = <<>> /\ cur = Idle
      /\ w.co = [c \in Events |-> [state |-> "READY", pc |-> "start", waits |-> 0, messages |-> 0]]
      /\ w.conn = [c \in Events |-> [state |-> "none", triggered |-> FALSE, session |-> FALSE, removals |-> 0]]
      /\ w.timers = [t \in TimerIds |-> "none"]
      /\ w.history = [closes |-> [c \in Events |-> 0], outside |-> FALSE, both |-> FALSE]
  BY <1>1 DEF World, Poller, Fields, CoInit
<1>3. IsPoller(w.q) /\ \A c \in Events : w.q.event[c].life = "none"
  <2>1. Polls(pollfds, events_map, event) /\ \A c \in Events : event[c].life = "none"
    BY PollerAssumption DEF CoInit, PollerInit, Polls, PollTypes, EventRecords, None
  <2>. QED
    BY <2>1, <1>2, MadePoller
<1>4. Due(w) = {} /\ Held(w) = {}
  BY <1>2 DEF Due, Held, ToSet
<1>5. Typed(w)
  <2>1. w.co \in [Events -> CoRecords] /\ w.conn \in [Events -> ConnRecords]
    BY <1>2 DEF CoRecords, ConnRecords, Places
  <2>2. w.timers \in [TimerIds -> {"none", "armed", "popped", "deleted"}] /\ w.history \in Histories
    BY <1>2 DEF Histories
  <2>3. <<>> \in Seq(Coros) /\ <<>> \in Seq(Servers)
    OBVIOUS
  <2>. QED
    BY <2>1, <2>2, <2>3, <1>2, <1>3 DEF Typed
<1>6. Apart(w)
  BY <1>2, <1>4 DEF Apart, Once, ToSet
<1>7. Fits(w)
  <2>1. Placed(w) /\ Closing(w) /\ HoldIsHold(w)
    BY <1>3, <1>4 DEF Placed, Closing, HoldIsHold
  <2>2. Timed(w)
    BY <1>2, <1>4 DEF Timed
  <2>3. Conns(w)
    <3>1. ASSUME NEW c \in Events PROVE ConnFits(w.co[c].pc, w.conn[c], w.q.event[c].life)
      <4>1. w.co[c].pc = "start" /\ w.conn[c].state = "none" /\ w.conn[c].removals = 0 /\ w.q.event[c].life = "none"
        BY <1>2, <1>3
      <4>. QED
        BY <4>1 DEF ConnFits
    <3>. QED
      BY <3>1 DEF Conns
  <2>. QED
    BY <2>1, <2>2, <2>3 DEF Fits
<1>8. Holding(w, {})
  BY <1>4 DEF Holding
<1>. QED
  BY <1>1, <1>2, <1>5, <1>6, <1>7, <1>8 DEF CoInv, Good

LEMMA CoInvStays ==
  ASSUME CoInv, [CoNext]_covars
  PROVE  CoInv'
<1>1. CASE UNCHANGED covars
  BY <1>1 DEF covars, pollvars, loopvars, CoInv, Sound, World, Poller
<1>2. ASSUME NEW c \in Events, Serve(c) PROVE CoInv'
  BY <1>2, StartStep, ReadStep, WokenReadStep, MessageStep, SendStep, WokenWriteStep DEF Serve
<1>3. CASE CoNext
  BY <1>2, <1>3, PassStep, RunCloseStep, AcceptStep, ForceCloseStep, RemoveConnectionStep, TimeoutStep DEF CoNext
<1>. QED
  BY <1>1, <1>3

(* In every state of the coroutine loop, for any number of connections, waits *)
(* and messages, as long as nothing was used that is no more: a coroutine     *)
(* that hooks.cc suspended is in hold_coroutines_ and in no other list of     *)
(* co_eventloop.cc, its connection is open, its Event still wants what it     *)
(* waits for, and its timer is armed or has been handed to a coroutine that   *)
(* is still to run; the coroutine that runs is the first of                   *)
(* running_coroutines_; and none that has begun and not ended is lost.        *)
THEOREM NoCoroutineIsLost == CoSpec => []HeldAreWoken
<1>1. CoInit => CoInv
  BY CoInvHolds
<1>2. CoInv /\ [CoNext]_covars => CoInv'
  BY CoInvStays
<1>3. CoInv => HeldAreWoken
  BY HeldFollows
<1>. QED
  BY <1>1, <1>2, <1>3, PTL DEF CoSpec
=============================================================================
