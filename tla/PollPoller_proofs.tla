-------------------------- MODULE PollPoller_proofs --------------------------
(***************************************************************************)
(* What poll() is called with, for any number of Events and descriptors.   *)
(* The invariant is stated of the poller and its Events as three values,   *)
(* so that a lemma can speak of what one call makes of them; it adds to    *)
(* PollsWhatIsWanted what a closed Event keeps (an index that is out of    *)
(* date) and what protects it (its descriptor is looked up to nothing).    *)
(***************************************************************************)
EXTENDS PollPoller, SequenceTheorems, TLAPS

PollFds == [fd : Fds, events : SUBSET Interest]
EventRecords == [fd : Nat, events : SUBSET Interest, index : Int, life : {"none", "open", "closed", "gone"}]
PollTypes(fds, map, ev) ==
  /\ fds \in Seq(PollFds)
  /\ map \in [Fds -> Events \cup {None}]
  /\ ev \in [Events -> EventRecords]
OpenIsPolled(fds, map, ev) ==
  \A e \in Events : ev[e].life = "open" =>
    /\ ev[e].fd \in Fds /\ ev[e].index + 1 \in 1 .. Len(fds)
    /\ fds[ev[e].index + 1] = [fd |-> ev[e].fd, events |-> ev[e].events]
    /\ map[ev[e].fd] = e
ClosedIsForgotten(map, ev) ==
  \A e \in Events : ev[e].life = "closed" => ev[e].fd \in Fds /\ ev[e].index >= 0 /\ map[ev[e].fd] = None
KnownIsOpen(map, ev) ==
  \A fd \in Fds : map[fd] # None => ev[map[fd]].life = "open" /\ ev[map[fd]].fd = fd
PolledIsOpen(fds, ev) ==
  \A i \in 1 .. Len(fds) : \E e \in Events : ev[e].life = "open" /\ ev[e].index + 1 = i
NewIsUnknown(ev) == \A e \in Events : ev[e].life = "none" => ev[e].index = -1 /\ ev[e].events = {}
Table(fds, map, ev) ==
  /\ PollTypes(fds, map, ev) /\ OpenIsPolled(fds, map, ev) /\ ClosedIsForgotten(map, ev)
  /\ KnownIsOpen(map, ev) /\ PolledIsOpen(fds, ev) /\ NewIsUnknown(ev)
\* The same of the record that a call makes.
IsTable(q) == q = [fds |-> q.fds, map |-> q.map, event |-> q.event] /\ Table(q.fds, q.map, q.event)
\* The Events of a pass still have their descriptors.
ActiveHasDescriptor ==
  active \in Seq([ev : Events, revents : SUBSET Interest])
  /\ \A k \in 1 .. Len(active) : event[active[k].ev].life \in {"open", "closed"}
PollInv == Table(pollfds, events_map, event) /\ ActiveHasDescriptor

(* EnableReading and its like set what is wanted, then call UpdateEvent. *)
LEMMA InterestedUpdates ==
  ASSUME NEW fds, NEW map, NEW ev, NEW e, NEW wanted
  PROVE  Interested([fds |-> fds, map |-> map, event |-> ev], e, wanted)
         = UpdateEvent([fds |-> fds, map |-> map, event |-> [ev EXCEPT ![e] = [ev[e] EXCEPT !.events = wanted]]], e)
  BY DEF Interested

(* UpdateEvent of an Event that is open puts what it wants into its place of *)
(* pollfds_ and changes nothing else (poll_poller.cc).                       *)
LEMMA OpenIsUpdated ==
  ASSUME NEW fds, NEW map, NEW ev, Table(fds, map, ev), NEW e \in Events, ev[e].life = "open",
         NEW wanted \in SUBSET Interest
  PROVE  \A q : q = Interested([fds |-> fds, map |-> map, event |-> ev], e, wanted)
               => IsTable(q) /\ \A d \in Events : q.event[d].life = ev[d].life
<1> DEFINE x == Interested([fds |-> fds, map |-> map, event |-> ev], e, wanted)
           i == ev[e].index + 1
           pfd == [fd |-> ev[e].fd, events |-> wanted]
           upd == [ev EXCEPT ![e] = [ev[e] EXCEPT !.events = wanted]]
<1>1. /\ fds \in Seq(PollFds) /\ map \in [Fds -> Events \cup {None}] /\ ev \in [Events -> EventRecords]
      /\ ev[e].fd \in Fds /\ i \in 1 .. Len(fds) /\ ev[e].index >= 0 /\ map[ev[e].fd] = e
      /\ fds[i] = [fd |-> ev[e].fd, events |-> ev[e].events] /\ None \notin Events
  BY PollerAssumption DEF Table, PollTypes, OpenIsPolled, EventRecords, None
<1>2. upd \in [Events -> EventRecords] /\ upd[e].fd = ev[e].fd /\ upd[e].index = ev[e].index
      /\ upd[e].life = "open" /\ upd[e].events = wanted /\ \A d \in Events \ {e} : upd[d] = ev[d]
  BY <1>1 DEF EventRecords
<1>3. pfd \in PollFds
  BY <1>1 DEF PollFds
<1>4. /\ [fds EXCEPT ![i] = pfd] \in Seq(PollFds) /\ Len([fds EXCEPT ![i] = pfd]) = Len(fds)
      /\ \A j \in 1 .. Len(fds) : [fds EXCEPT ![i] = pfd][j] = IF j = i THEN pfd ELSE fds[j]
  BY <1>1, <1>3, ExceptSeq
<1>5. x = [fds |-> [fds EXCEPT ![i] = pfd], map |-> map, event |-> upd]
  <2> DEFINE p == [fds |-> fds, map |-> map, event |-> upd]
  <2>1. x = UpdateEvent(p, e)
    BY DEF Interested
  <2>2. /\ p.fds = fds /\ p.map = map /\ p.event = upd
    OBVIOUS
  <2>3. [p EXCEPT !.fds[i].events = wanted] = [fds |-> [fds EXCEPT ![i] = pfd], map |-> map, event |-> upd]
    <3>1. [fds[i] EXCEPT !.events = wanted] = pfd
      BY <1>1
    <3>2. [fds EXCEPT ![i].events = wanted] = [fds EXCEPT ![i] = pfd]
      BY <3>1
    <3>3. [p EXCEPT !.fds[i].events = wanted] = [p EXCEPT !.fds = [fds EXCEPT ![i].events = wanted]]
      BY <2>2
    <3> HIDE DEF pfd, upd
    <3>. QED
      BY <3>2, <3>3
  <2>4. p.event[e].index + 1 = i /\ p.event[e].index >= 0 /\ p.event[e].events = wanted /\ p.map[p.event[e].fd] # None
        /\ i \in DOMAIN p.fds
    BY <2>2, <1>1, <1>2
  <2> HIDE DEF p, pfd, upd, x, i
  <2>5. ~ p.event[e].index < 0
    BY <2>2, <2>4, <1>2 DEF EventRecords
  <2>. QED
    BY <2>1, <2>3, <2>4, <2>5, Zenon DEF UpdateEvent, Reaches
<1> HIDE DEF pfd, upd, x
<1>6. x.fds = [fds EXCEPT ![i] = pfd] /\ x.map = map /\ x.event = upd
  BY <1>5
<1>7. PollTypes(x.fds, x.map, x.event)
  BY <1>1, <1>2, <1>4, <1>6 DEF PollTypes
<1>8. OpenIsPolled(x.fds, x.map, x.event)
  <2> SUFFICES ASSUME NEW d \in Events, upd[d].life = "open"
               PROVE  /\ upd[d].fd \in Fds /\ upd[d].index + 1 \in 1 .. Len(fds)
                      /\ [fds EXCEPT ![i] = pfd][upd[d].index + 1] = [fd |-> upd[d].fd, events |-> upd[d].events]
                      /\ map[upd[d].fd] = d
    BY <1>4, <1>6 DEF OpenIsPolled
  <2>1. CASE d = e
    BY <2>1, <1>1, <1>2, <1>4 DEF pfd
  <2>2. CASE d # e
    <3>1. upd[d] = ev[d]
      BY <2>2, <1>2
    <3>2. ev[d].index + 1 # i
      <4>1. fds[ev[d].index + 1].fd = ev[d].fd /\ fds[i].fd = ev[e].fd /\ map[ev[d].fd] = d
        <5>1. ev[d].life = "open"
          BY <3>1
        <5>2. fds[ev[d].index + 1] = [fd |-> ev[d].fd, events |-> ev[d].events] /\ map[ev[d].fd] = d
          BY <5>1 DEF Table, OpenIsPolled
        <5>. QED
          BY <5>2, <1>1
      <4>. QED
        BY <4>1, <2>2, <1>1
    <3>. QED
      BY <3>1, <3>2, <1>4 DEF Table, OpenIsPolled
  <2>. QED
    BY <2>1, <2>2
<1>9. /\ ClosedIsForgotten(x.map, x.event) /\ KnownIsOpen(x.map, x.event)
      /\ PolledIsOpen(x.fds, x.event) /\ NewIsUnknown(x.event)
  BY <1>1, <1>2, <1>4, <1>6, SMTT(30) DEF Table, ClosedIsForgotten, KnownIsOpen, PolledIsOpen, NewIsUnknown
<1>10. Table(x.fds, x.map, x.event)
  BY <1>7, <1>8, <1>9 DEF Table
<1>11. x = [fds |-> x.fds, map |-> x.map, event |-> x.event]
  BY <1>5, <1>6
<1>12. \A d \in Events : x.event[d].life = ev[d].life
  BY <1>2, <1>6
<1>13. IsTable(x)
  BY <1>10, <1>11 DEF IsTable
<1>. QED
  BY <1>12, <1>13, Zenon DEF x

(* No two open Events have the same place in pollfds_. *)
LEMMA PlaceIsOwned ==
  ASSUME NEW fds, NEW map, NEW ev, Table(fds, map, ev), NEW d \in Events, NEW e \in Events,
         ev[d].life = "open", ev[e].life = "open", ev[d].index = ev[e].index
  PROVE  d = e
<1>1. fds[ev[d].index + 1] = [fd |-> ev[d].fd, events |-> ev[d].events] /\ map[ev[d].fd] = d
  BY DEF Table, OpenIsPolled
<1>2. fds[ev[e].index + 1] = [fd |-> ev[e].fd, events |-> ev[e].events] /\ map[ev[e].fd] = e
  BY DEF Table, OpenIsPolled
<1>3. fds[ev[d].index + 1].fd = ev[d].fd /\ fds[ev[e].index + 1].fd = ev[e].fd
  BY <1>1, <1>2
<1>. QED
  BY <1>1, <1>2, <1>3

\* What is left of the poller when an Event is removed, and closed with that.
Removed(p, e) == [RemoveEvent(p, e) EXCEPT !.event[e].life = "closed"]

(* RemoveEvent fills the place of the removed Event with the last one, tells *)
(* it so, and leaves all others where they are (poll_poller.cc).             *)
LEMMA OpenIsRemoved ==
  ASSUME NEW fds, NEW map, NEW ev, Table(fds, map, ev), NEW e \in Events, ev[e].life = "open"
  PROVE  \A q : q = Removed([fds |-> fds, map |-> map, event |-> ev], e)
               => IsTable(q) /\ q.event[e].life = "closed" /\ \A d \in Events \ {e} : q.event[d].life = ev[d].life
<1> DEFINE p == [fds |-> fds, map |-> map, event |-> ev]
           x == [RemoveEvent(p, e) EXCEPT !.event[e].life = "closed"]
           i == ev[e].index + 1
           n == Len(fds)
           F == SubSeq([fds EXCEPT ![i] = fds[n]], 1, n - 1)
           M == [map EXCEPT ![ev[e].fd] = None]
<1> HIDE DEF p, x, F, M
<1>1. /\ fds \in Seq(PollFds) /\ map \in [Fds -> Events \cup {None}] /\ ev \in [Events -> EventRecords]
      /\ ev[e].fd \in Fds /\ i \in 1 .. n /\ ev[e].index >= 0 /\ map[ev[e].fd] = e
      /\ None \notin Events
  <2>1. fds \in Seq(PollFds) /\ map \in [Fds -> Events \cup {None}] /\ ev \in [Events -> EventRecords]
    BY DEF Table, PollTypes
  <2>2. ev[e].fd \in Fds /\ i \in 1 .. n /\ map[ev[e].fd] = e
    BY DEF Table, OpenIsPolled
  <2>3. ev[e].index \in Int
    BY <2>1 DEF EventRecords
  <2>. QED
    BY <2>1, <2>2, <2>3, PollerAssumption DEF None
<1>2. PICK m \in Events : ev[m].life = "open" /\ ev[m].index + 1 = n
  BY <1>1 DEF Table, PolledIsOpen
<1>3. /\ F \in Seq(PollFds) /\ Len(F) = n - 1
      /\ \A j \in 1 .. n - 1 : F[j] = IF j = i THEN fds[n] ELSE fds[j]
  <2> DEFINE G == [fds EXCEPT ![i] = fds[n]]
  <2>1. fds[n] \in PollFds
    BY <1>1
  <2>2. G \in Seq(PollFds) /\ Len(G) = n /\ \A j \in 1 .. n : G[j] = IF j = i THEN fds[n] ELSE fds[j]
    BY <1>1, <2>1, ExceptSeq
  <2> HIDE DEF G
  <2>3. \A j \in 1 .. n - 1 : G[j] \in PollFds
    BY <2>2
  <2>4. /\ SubSeq(G, 1, n - 1) \in Seq(PollFds)
        /\ Len(SubSeq(G, 1, n - 1)) = IF 1 <= n - 1 THEN n - 1 - 1 + 1 ELSE 0
        /\ \A j \in 1 .. n - 1 - 1 + 1 : SubSeq(G, 1, n - 1)[j] = G[1 + j - 1]
    BY <2>3, <1>1, SubSeqProperties
  <2>5. F = SubSeq(G, 1, n - 1)
    BY DEF F, G
  <2>. QED
    BY <2>2, <2>4, <2>5, <1>1
<1>4. i = n <=> m = e
  <2>1. i = n => m = e
    BY <1>1, <1>2, PlaceIsOwned DEF EventRecords
  <2>. QED
    BY <2>1, <1>2
<1>5. /\ x = [fds |-> F, map |-> M, event |-> x.event] /\ x.event \in [Events -> EventRecords]
      /\ x.fds = F /\ x.map = M
      /\ x.event[e].life = "closed" /\ x.event[e].fd = ev[e].fd /\ x.event[e].index >= 0
      /\ \A d \in Events \ {e} :
           /\ x.event[d].life = ev[d].life /\ x.event[d].fd = ev[d].fd /\ x.event[d].events = ev[d].events
           /\ x.event[d].index = IF d = m THEN i - 1 ELSE ev[d].index
  <2>1. fds[n] = [fd |-> ev[m].fd, events |-> ev[m].events] /\ map[ev[m].fd] = m
    BY <1>2 DEF Table, OpenIsPolled
  <2>2. map[fds[n].fd] = m /\ m # None
    BY <2>1, <1>1, <1>2
  <2>0. p.fds = fds /\ p.map = map /\ p.event = ev
    BY DEF p
  <2> DEFINE gone == [fds |-> F, map |-> M, event |-> ev]
  <2> HIDE DEF gone
  <2>4. RemoveEvent(p, e) = IF i = n THEN gone ELSE [gone EXCEPT !.event[m].index = i - 1]
    <3>1. i \in DOMAIN p.fds
      BY <2>0, <1>1
    <3>. QED
      BY <3>1, <2>0, <2>2, Zenon DEF RemoveEvent, Reaches, F, M, gone
  <2>5. CASE i = n
    <3>1. x = [gone EXCEPT !.event[e].life = "closed"]
      BY <2>4, <2>5 DEF x
    <3>2. /\ x.fds = F /\ x.map = M /\ x.event = [ev EXCEPT ![e] = [ev[e] EXCEPT !.life = "closed"]]
          /\ x = [fds |-> F, map |-> M, event |-> x.event]
      BY <3>1 DEF gone
    <3>3. [ev[e] EXCEPT !.life = "closed"] \in EventRecords
      BY <1>1 DEF EventRecords
    <3>4. /\ x.event \in [Events -> EventRecords] /\ x.event[e] = [ev[e] EXCEPT !.life = "closed"]
          /\ \A d \in Events \ {e} : x.event[d] = ev[d]
      BY <3>2, <3>3, <1>1
    <3>5. x.event[e].life = "closed" /\ x.event[e].fd = ev[e].fd /\ x.event[e].index = ev[e].index
      BY <3>4, <1>1 DEF EventRecords
    <3>6. m = e
      BY <1>4, <2>5
    <3>. QED
      BY <3>2, <3>4, <3>5, <3>6, <1>1
  <2>6. CASE i # n
    <3> DEFINE E == [ev EXCEPT ![m] = [ev[m] EXCEPT !.index = i - 1]]
               r == [fds |-> F, map |-> M, event |-> E]
    <3>0. m # e
      BY <1>4, <2>6
    <3>1. RemoveEvent(p, e) = r
      BY <2>4, <2>6 DEF gone
    <3>2. /\ E \in [Events -> EventRecords] /\ E[e] = ev[e] /\ E[m] = [ev[m] EXCEPT !.index = i - 1]
          /\ \A d \in Events \ {m} : E[d] = ev[d]
      <4>1. [ev[m] EXCEPT !.index = i - 1] \in EventRecords
        <5>1. i - 1 \in Int /\ ev[m] \in EventRecords
          BY <1>1
        <5>. HIDE DEF i
        <5>. QED
          BY <5>1 DEF EventRecords
      <4>. QED
        BY <4>1, <3>0, <1>1
    <3>3. r.fds = F /\ r.map = M /\ r.event = E
      OBVIOUS
    <3> HIDE DEF E, r
    <3>4. /\ x.fds = F /\ x.map = M /\ x.event = [E EXCEPT ![e] = [E[e] EXCEPT !.life = "closed"]]
          /\ x = [fds |-> F, map |-> M, event |-> x.event]
      <4>1. x = [r EXCEPT !.event[e].life = "closed"]
        BY <3>1 DEF x
      <4>. QED
        BY <4>1, <3>3 DEF r
    <3>5. /\ E[m].life = ev[m].life /\ E[m].fd = ev[m].fd /\ E[m].events = ev[m].events /\ E[m].index = i - 1
      <4>1. ev[m] \in EventRecords
        BY <1>1
      <4>. QED
        BY <4>1, <3>2 DEF EventRecords
    <3>6. [E[e] EXCEPT !.life = "closed"] \in EventRecords
      BY <3>2 DEF EventRecords
    <3>7. /\ x.event \in [Events -> EventRecords] /\ \A d \in Events \ {e} : x.event[d] = E[d]
          /\ x.event[e] = [E[e] EXCEPT !.life = "closed"]
      BY <3>2, <3>4, <3>6
    <3>8. x.event[e].life = "closed" /\ x.event[e].fd = ev[e].fd /\ x.event[e].index = ev[e].index
      BY <3>2, <3>7, <1>1 DEF EventRecords
    <3>9. ASSUME NEW d \in Events \ {e}
          PROVE  /\ x.event[d].life = ev[d].life /\ x.event[d].fd = ev[d].fd /\ x.event[d].events = ev[d].events
                 /\ x.event[d].index = IF d = m THEN i - 1 ELSE ev[d].index
      BY <3>2, <3>5, <3>7
    <3>. QED
      BY <3>4, <3>7, <3>8, <3>9, <1>1
  <2>. QED
    BY <2>5, <2>6
<1>6. PollTypes(x.fds, x.map, x.event)
  BY <1>1, <1>3, <1>5 DEF PollTypes, M
<1>7. OpenIsPolled(x.fds, x.map, x.event)
  <2> SUFFICES ASSUME NEW d \in Events, x.event[d].life = "open"
               PROVE  /\ x.event[d].fd \in Fds /\ x.event[d].index + 1 \in 1 .. Len(x.fds)
                      /\ x.fds[x.event[d].index + 1] = [fd |-> x.event[d].fd, events |-> x.event[d].events]
                      /\ x.map[x.event[d].fd] = d
    BY DEF OpenIsPolled
  <2>1. d # e /\ ev[d].life = "open"
    BY <1>5
  <2>2. /\ ev[d].fd \in Fds /\ ev[d].index + 1 \in 1 .. n /\ map[ev[d].fd] = d
        /\ fds[ev[d].index + 1] = [fd |-> ev[d].fd, events |-> ev[d].events]
    BY <2>1 DEF Table, OpenIsPolled
  <2>3. x.map[x.event[d].fd] = d
    BY <2>1, <2>2, <1>1, <1>5 DEF M
  <2>4. CASE d = m
    <3>1. x.event[d].index + 1 = i /\ i # n /\ fds[n] = [fd |-> ev[d].fd, events |-> ev[d].events]
      BY <2>1, <2>2, <2>4, <1>1, <1>2, <1>4, <1>5
    <3>2. i \in 1 .. n - 1 /\ x.fds[i] = fds[n] /\ Len(x.fds) = n - 1
      BY <3>1, <1>1, <1>3, <1>5
    <3>3. x.event[d].fd = ev[d].fd /\ x.event[d].events = ev[d].events
      BY <2>1, <1>5
    <3>. QED
      BY <3>1, <3>2, <3>3, <2>2, <2>3
  <2>5. CASE d # m
    <3>1. ev[d].index + 1 # i /\ ev[d].index + 1 # n
      BY <2>1, <2>5, <1>1, <1>2, PlaceIsOwned DEF EventRecords
    <3>2. x.event[d].fd = ev[d].fd /\ x.event[d].events = ev[d].events /\ x.event[d].index = ev[d].index
      BY <2>1, <2>5, <1>5
    <3>3. ev[d].index + 1 \in 1 .. n - 1 /\ x.fds[ev[d].index + 1] = fds[ev[d].index + 1] /\ Len(x.fds) = n - 1
      BY <3>1, <2>2, <1>1, <1>3, <1>5
    <3>. QED
      BY <3>2, <3>3, <2>2, <2>3
  <2>. QED
    BY <2>4, <2>5
<1>8. ClosedIsForgotten(x.map, x.event)
  BY <1>1, <1>5 DEF Table, M, ClosedIsForgotten
<1>9. KnownIsOpen(x.map, x.event)
  BY <1>1, <1>5 DEF Table, M, KnownIsOpen
<1>10. PolledIsOpen(x.fds, x.event)
  <2> SUFFICES ASSUME NEW j \in 1 .. n - 1
               PROVE  \E d \in Events : x.event[d].life = "open" /\ x.event[d].index + 1 = j
    BY <1>3, <1>5 DEF PolledIsOpen
  <2>1. CASE j = i
    BY <2>1, <1>1, <1>2, <1>4, <1>5
  <2>2. CASE j # i
    <3>1. PICK d \in Events : ev[d].life = "open" /\ ev[d].index + 1 = j
      BY <1>1 DEF Table, PolledIsOpen
    <3>2. d # e /\ d # m
      BY <3>1, <2>2, <1>1, <1>2
    <3>. QED
      BY <3>1, <3>2, <1>5
  <2>. QED
    BY <2>1, <2>2
<1>11. NewIsUnknown(x.event)
  BY <1>2, <1>5 DEF Table, NewIsUnknown
<1>12. Table(x.fds, x.map, x.event)
  BY <1>6, <1>7, <1>8, <1>9, <1>10, <1>11 DEF Table
<1>13. x.event[e].life = "closed" /\ \A d \in Events \ {e} : x.event[d].life = ev[d].life
  BY <1>5
<1>14. x = [fds |-> x.fds, map |-> x.map, event |-> x.event]
  BY <1>5
<1>15. IsTable(x)
  BY <1>12, <1>14 DEF IsTable
<1>. QED
  BY <1>13, <1>15, Zenon DEF p, x, Removed

(* A late UpdateEvent of an Event that is removed changes nothing but what   *)
(* the Event wants, although its index_ may name the place of another.       *)
LEMMA ClosedIsUpdated ==
  ASSUME NEW fds, NEW map, NEW ev, Table(fds, map, ev), NEW e \in Events, ev[e].life = "closed",
         NEW wanted \in SUBSET Interest
  PROVE  \A q : q = Interested([fds |-> fds, map |-> map, event |-> ev], e, wanted)
               => IsTable(q) /\ \A d \in Events : q.event[d].life = ev[d].life
<1> DEFINE p == [fds |-> fds, map |-> map, event |-> ev]
           upd == [ev EXCEPT ![e] = [ev[e] EXCEPT !.events = wanted]]
           u == [fds |-> fds, map |-> map, event |-> upd]
           x == Interested(p, e, wanted)
<1>1. ev \in [Events -> EventRecords] /\ ev[e].index >= 0 /\ map[ev[e].fd] = None
  BY DEF Table, PollTypes, ClosedIsForgotten
<1>2. upd \in [Events -> EventRecords] /\ upd[e].fd = ev[e].fd /\ upd[e].index = ev[e].index
      /\ upd[e].life = "closed" /\ \A d \in Events \ {e} : upd[d] = ev[d]
  BY <1>1 DEF EventRecords
<1>3. x = u
  <2>1. x = UpdateEvent(u, e)
    BY DEF Interested
  <2>2. u.fds = fds /\ u.map = map /\ u.event = upd
    OBVIOUS
  <2> HIDE DEF u, upd, x
  <2>3. ~ u.event[e].index < 0 /\ u.map[u.event[e].fd] = None
    BY <2>2, <1>1, <1>2 DEF EventRecords
  <2>. QED
    BY <2>1, <2>3, Zenon DEF UpdateEvent
<1> HIDE DEF upd, x
<1>4. x = [fds |-> fds, map |-> map, event |-> upd]
  BY <1>3
<1>5. Table(fds, map, upd)
  <2>1. PollTypes(fds, map, upd) /\ OpenIsPolled(fds, map, upd) /\ ClosedIsForgotten(map, upd)
    BY <1>1, <1>2 DEF Table, PollTypes, OpenIsPolled, ClosedIsForgotten
  <2>2. KnownIsOpen(map, upd)
    BY <1>1, <1>2 DEF Table, PollTypes, KnownIsOpen
  <2>3. PolledIsOpen(fds, upd) /\ NewIsUnknown(upd)
    BY <1>1, <1>2 DEF Table, PolledIsOpen, NewIsUnknown
  <2>. QED
    BY <2>1, <2>2, <2>3 DEF Table
<1>6. \A d \in Events : upd[d].life = ev[d].life
  BY <1>2
<1>7. x.fds = fds /\ x.map = map /\ x.event = upd
  BY <1>4
<1>8. IsTable(x)
  BY <1>4, <1>5, <1>7 DEF IsTable
<1>. QED
  BY <1>6, <1>7, <1>8, Zenon DEF x

(* A new Event gets the place behind the last one, under a descriptor that   *)
(* nobody has.                                                               *)
LEMMA NewIsOpened ==
  ASSUME NEW fds, NEW map, NEW ev, Table(fds, map, ev), NEW e \in Events, ev[e].life = "none",
         NEW fd \in Fds, \A d \in Events : ev[d].life \in {"open", "closed"} => ev[d].fd # fd
  PROVE  \A new, q :
             /\ new = [fd |-> fd, events |-> {}, index |-> -1, life |-> "open"]
             /\ q = Interested([fds |-> fds, map |-> map, event |-> [ev EXCEPT ![e] = new]], e, {"READ"})
           => IsTable(q) /\ \A d \in Events \ {e} : q.event[d].life = ev[d].life
<1> DEFINE made == [fds |-> fds, map |-> map,
                    event |-> [ev EXCEPT ![e] = [fd |-> fd, events |-> {}, index |-> -1, life |-> "open"]]]
           r == Interested(made, e, {"READ"})
           n == Len(fds)
           pfd == [fd |-> fd, events |-> {"READ"}]
           placed == [fd |-> fd, events |-> {"READ"}, index |-> -1, life |-> "open"]
           final == [placed EXCEPT !.index = n]
           F == Append(fds, pfd)
           M == [map EXCEPT ![fd] = e]
           E == [ev EXCEPT ![e] = final]
<1>1. /\ fds \in Seq(PollFds) /\ map \in [Fds -> Events \cup {None}] /\ ev \in [Events -> EventRecords]
      /\ ev[e].index = -1 /\ None \notin Events /\ fd \in Nat
  BY PollerAssumption DEF Table, PollTypes, NewIsUnknown, None
<1>2. map[fd] = None
  BY <1>1 DEF Table, KnownIsOpen
<1>3. pfd \in PollFds /\ n \in Nat
  BY <1>1 DEF PollFds, Interest
<1>. HIDE DEF placed, n
<1>13. /\ placed \in EventRecords /\ placed.fd = fd /\ placed.events = {"READ"}
       /\ placed.index = -1 /\ placed.life = "open"
  BY <1>1 DEF EventRecords, Interest, placed
<1>14. final \in EventRecords /\ final.fd = fd /\ final.events = {"READ"} /\ final.index = n /\ final.life = "open"
  BY <1>3, <1>13 DEF EventRecords
<1>. USE DEF n
<1>4. F \in Seq(PollFds) /\ Len(F) = n + 1 /\ F[n + 1] = pfd /\ \A j \in 1 .. n : F[j] = fds[j]
  BY <1>1, <1>3, AppendProperties
<1> HIDE DEF final, F, M
<1>5. E \in [Events -> EventRecords] /\ E[e] = final /\ \A d \in Events \ {e} : E[d] = ev[d]
  BY <1>1, <1>14
<1>6. r = [fds |-> F, map |-> M, event |-> E]
  <2> DEFINE ev1 == [ev EXCEPT ![e] = [fd |-> fd, events |-> {}, index |-> -1, life |-> "open"]]
             ev3 == [ev1 EXCEPT ![e] = [ev1[e] EXCEPT !.events = {"READ"}]]
             u == [fds |-> fds, map |-> map, event |-> ev3]
  <2>1. made = [fds |-> fds, map |-> map, event |-> ev1]
    OBVIOUS
  <2> HIDE DEF ev1, made
  <2>2. r = UpdateEvent(u, e)
    <3>1. Interested([fds |-> fds, map |-> map, event |-> ev1], e, {"READ"}) = UpdateEvent(u, e)
      <4> HIDE DEF final, E, r
      <4>1. \A f : Interested([fds |-> fds, map |-> map, event |-> f], e, {"READ"})
                  = UpdateEvent([fds |-> fds, map |-> map, event |-> [f EXCEPT ![e] = [f[e] EXCEPT !.events = {"READ"}]]], e)
        BY InterestedUpdates
      <4>. QED
        BY <4>1, Zenon
    <3>. QED
      BY <3>1, <2>1
  <2>3. u.fds = fds /\ u.map = map /\ u.event = ev3
    OBVIOUS
  <2>4. ev3[e] = placed /\ ev3 = [ev EXCEPT ![e] = placed]
    BY <1>1, SMTT(30) DEF ev1, placed
  <2>5. [ev3 EXCEPT ![e].index = n] = E
    BY <2>4, <1>1 DEF final
  <2> HIDE DEF u, ev3, E, r
  <2>6. u.event[e].index < 0 /\ u.event[e].fd = fd /\ u.event[e].events = {"READ"}
    BY <2>3, <2>4, <1>13
  <2>. QED
    BY <2>2, <2>3, <2>5, <2>6, <1>2, Zenon DEF UpdateEvent, F, M
<1> HIDE DEF E, r, made, pfd
<1>8. PollTypes(F, M, E)
  BY <1>1, <1>4, <1>14, <1>5 DEF PollTypes, M
<1>9. OpenIsPolled(F, M, E)
  <2> SUFFICES ASSUME NEW d \in Events, E[d].life = "open"
               PROVE  /\ E[d].fd \in Fds /\ E[d].index + 1 \in 1 .. Len(F)
                      /\ F[E[d].index + 1] = [fd |-> E[d].fd, events |-> E[d].events]
                      /\ M[E[d].fd] = d
    BY DEF OpenIsPolled
  <2>1. CASE d = e
    <3>1. E[d].fd = fd /\ E[d].events = {"READ"} /\ E[d].index = n
      BY <2>1, <1>14, <1>5
    <3>2. F[n + 1] = [fd |-> fd, events |-> {"READ"}] /\ n + 1 \in 1 .. Len(F)
      BY <1>3, <1>4 DEF pfd
    <3>3. M[fd] = d
      BY <2>1, <1>1 DEF M
    <3>. QED
      BY <3>1, <3>2, <3>3
  <2>2. CASE d # e
    <3>1. E[d] = ev[d] /\ ev[d].life = "open" /\ ev[d].fd # fd
      BY <2>2, <1>5
    <3>2. /\ ev[d].fd \in Fds /\ ev[d].index + 1 \in 1 .. n /\ map[ev[d].fd] = d
          /\ fds[ev[d].index + 1] = [fd |-> ev[d].fd, events |-> ev[d].events]
      BY <3>1 DEF Table, OpenIsPolled
    <3>. QED
      BY <3>1, <3>2, <1>1, <1>3, <1>4 DEF M
  <2>. QED
    BY <2>1, <2>2
<1>10. ClosedIsForgotten(M, E) /\ KnownIsOpen(M, E) /\ NewIsUnknown(E)
  <2>1. ClosedIsForgotten(M, E)
    BY <1>1, <1>14, <1>5 DEF Table, ClosedIsForgotten, M
  <2>2. KnownIsOpen(M, E)
    BY <1>1, <1>14, <1>5 DEF Table, KnownIsOpen, M
  <2>3. NewIsUnknown(E)
    BY <1>1, <1>14, <1>5 DEF Table, NewIsUnknown
  <2>. QED
    BY <2>1, <2>2, <2>3
<1>11. PolledIsOpen(F, E)
  <2> SUFFICES ASSUME NEW j \in 1 .. n + 1
               PROVE  \E d \in Events : E[d].life = "open" /\ E[d].index + 1 = j
    BY <1>4 DEF PolledIsOpen
  <2>1. CASE j = n + 1
    BY <2>1, <1>14, <1>5 
  <2>2. CASE j \in 1 .. n
    <3>1. PICK d \in Events : ev[d].life = "open" /\ ev[d].index + 1 = j
      BY <2>2 DEF Table, PolledIsOpen
    <3>. QED
      BY <3>1, <1>5
  <2>. QED
    BY <2>1, <2>2, <1>3
<1>12. \A d \in Events \ {e} : E[d].life = ev[d].life
  BY <1>5
<1>7. Table(F, M, E)
  BY <1>8, <1>9, <1>10, <1>11 DEF Table
<1>15. r.fds = F /\ r.map = M /\ r.event = E
  BY <1>6
<1>16. IsTable(r)
  BY <1>6, <1>7, <1>15 DEF IsTable
<1>. QED
  BY <1>12, <1>15, <1>16, Zenon DEF r, made

(* The calls that follow each other when a connection closes. *)
LEMMA OpenIsClosed ==
  ASSUME NEW fds, NEW map, NEW ev, Table(fds, map, ev), NEW e \in Events, ev[e].life = "open",
         NEW q, q = Closed([fds |-> fds, map |-> map, event |-> ev], e)
  PROVE  IsTable(q) /\ q.event[e].life = "closed" /\ \A d \in Events \ {e} : q.event[d].life = ev[d].life
<1>1. PICK r : r = Interested([fds |-> fds, map |-> map, event |-> ev], e, {})
  OBVIOUS
<1>2. IsTable(r) /\ \A d \in Events : r.event[d].life = ev[d].life
  BY <1>1, OpenIsUpdated
<1>3. r = [fds |-> r.fds, map |-> r.map, event |-> r.event] /\ Table(r.fds, r.map, r.event) /\ r.event[e].life = "open"
  BY <1>2 DEF IsTable
<1>4. PICK F, M, E : F = r.fds /\ M = r.map /\ E = r.event
  OBVIOUS
<1>5. Table(F, M, E) /\ E[e].life = "open" /\ r = [fds |-> F, map |-> M, event |-> E]
  BY <1>3, <1>4
<1>6. q = Removed([fds |-> F, map |-> M, event |-> E], e)
  BY <1>1, <1>5, Zenon DEF Closed, Removed
<1>7. IsTable(q) /\ q.event[e].life = "closed" /\ \A d \in Events \ {e} : q.event[d].life = E[d].life
  <2>1. Table(F, M, E) /\ E[e].life = "open"
    BY <1>5
  <2>2. \A x : x = Removed([fds |-> F, map |-> M, event |-> E], e)
             => IsTable(x) /\ x.event[e].life = "closed" /\ \A d \in Events \ {e} : x.event[d].life = E[d].life
    BY <2>1, OpenIsRemoved
  <2>. QED
    BY <2>2, <1>6, Zenon
<1>. QED
  BY <1>2, <1>4, <1>7

(* Becomes copies a record to the variables. *)
LEMMA BecomesTable ==
  ASSUME NEW q, IsTable(q), Becomes(q)
  PROVE  Table(pollfds', events_map', event') /\ event' = q.event
  BY Zenon DEF Becomes, IsTable

(* The Events that are handled in this pass keep their descriptors. *)
LEMMA ActiveIsKept ==
  ASSUME ActiveHasDescriptor, active' = active,
         \A d \in Events : event[d].life \in {"open", "closed"} => event'[d].life \in {"open", "closed"}
  PROVE  ActiveHasDescriptor'
<1> DEFINE A == [ev : Events, revents : SUBSET Interest]
<1>1. active \in Seq(A) /\ \A a \in A : a.ev \in Events
  BY DEF ActiveHasDescriptor
<1> HIDE DEF A
<1>2. \A k \in 1 .. Len(active) : active[k].ev \in Events
  BY <1>1
<1>. QED
  BY <1>2 DEF ActiveHasDescriptor

(* The poller starts without an Event. *)
LEMMA PollerInitial == PollerInit => PollInv
  BY PollerAssumption DEF PollerInit, PollInv, ActiveHasDescriptor, Table, PollTypes, OpenIsPolled, ClosedIsForgotten,
     KnownIsOpen, PolledIsOpen, NewIsUnknown, EventRecords, Interest

(* A new Event takes a descriptor that is free and is read from. *)
LEMMA OpenStep ==
  ASSUME PollInv, NEW e \in Events, Open(e)
  PROVE  PollInv'
<1>1. PICK fd \in Free :
        LET new == [fd |-> fd, events |-> {}, index |-> -1, life |-> "open"]
            made == [fds |-> pollfds, map |-> events_map, event |-> [event EXCEPT ![e] = new]]
        IN  Becomes(Interested(made, e, {"READ"}))
  BY DEF Open
<1>2. event[e].life = "none" /\ active' = active
  BY DEF Open
<1>3. fd \in Fds /\ \A d \in Events : event[d].life \in {"open", "closed"} => event[d].fd # fd
  BY DEF Free, InUse
<1>4. Table(pollfds', events_map', event') /\ \A d \in Events \ {e} : event'[d].life = event[d].life
  <2>1. PICK new : new = [fd |-> fd, events |-> {}, index |-> -1, life |-> "open"]
    OBVIOUS
  <2>2. PICK q : q = Interested([fds |-> pollfds, map |-> events_map, event |-> [event EXCEPT ![e] = new]], e, {"READ"})
    OBVIOUS
  <2>3. IsTable(q) /\ \A d \in Events \ {e} : q.event[d].life = event[d].life
    BY <2>1, <2>2, <1>2, <1>3, NewIsOpened DEF PollInv
  <2>4. Becomes(q)
    BY <2>1, <2>2, <1>1, Zenon
  <2>. QED
    BY <2>3, <2>4, BecomesTable
<1>. QED
  BY <1>2, <1>4, ActiveIsKept DEF PollInv

(* What a step makes of the poller, where it updates an Event. *)
LEMMA UpdatedStep ==
  ASSUME Table(pollfds, events_map, event), NEW e \in Events, event[e].life \in {"open", "closed"},
         NEW wanted \in SUBSET Interest, Becomes(Interested(Poller, e, wanted))
  PROVE  Table(pollfds', events_map', event') /\ \A d \in Events : event'[d].life = event[d].life
<1>1. PICK q : q = Interested([fds |-> pollfds, map |-> events_map, event |-> event], e, wanted)
  OBVIOUS
<1>2. IsTable(q) /\ \A d \in Events : q.event[d].life = event[d].life
  BY <1>1, OpenIsUpdated, ClosedIsUpdated
<1>3. Becomes(q)
  BY <1>1, Zenon DEF Poller
<1>. QED
  BY <1>2, <1>3, BecomesTable

(* EnableWriting and DisableWriting, of an open Event or of a removed one. *)
LEMMA SetWritingStep ==
  ASSUME PollInv, NEW e \in Events, SetWriting(e)
  PROVE  PollInv'
<1>1. PICK wanted \in {event[e].events \cup {"WRITE"}, event[e].events \ {"WRITE"}} :
        Becomes(Interested([fds |-> pollfds, map |-> events_map, event |-> event], e, wanted))
  BY DEF SetWriting, Poller
<1>2. wanted \in SUBSET Interest
  BY <1>1 DEF PollInv, Table, PollTypes, EventRecords, Interest
<1>3. Table(pollfds', events_map', event') /\ \A d \in Events : event'[d].life = event[d].life
  BY <1>1, <1>2, UpdatedStep DEF SetWriting, PollInv, Poller
<1>. QED
  BY <1>3, ActiveIsKept DEF SetWriting, PollInv

(* What a step makes of the poller, where it closes an Event. *)
LEMMA ClosedStep ==
  ASSUME Table(pollfds, events_map, event), NEW e \in Events, event[e].life = "open", Becomes(Closed(Poller, e))
  PROVE  /\ Table(pollfds', events_map', event') /\ event'[e].life = "closed"
         /\ \A d \in Events \ {e} : event'[d].life = event[d].life
<1>1. PICK q : q = Closed([fds |-> pollfds, map |-> events_map, event |-> event], e)
  OBVIOUS
<1>2. IsTable(q) /\ q.event[e].life = "closed" /\ \A d \in Events \ {e} : q.event[d].life = event[d].life
  BY <1>1, OpenIsClosed
<1>3. Becomes(q)
  BY <1>1, Zenon DEF Poller
<1>. QED
  BY <1>2, <1>3, BecomesTable

(* handleClose: the Event is removed, and what is left to come is late. *)
LEMMA CloseStep ==
  ASSUME PollInv, NEW e \in Events, Close(e)
  PROVE  PollInv'
<1>1. /\ Table(pollfds', events_map', event') /\ event'[e].life = "closed"
      /\ \A d \in Events \ {e} : event'[d].life = event[d].life
  BY ClosedStep DEF Close, PollInv
<1>. QED
  BY <1>1, ActiveIsKept DEF Close, PollInv

(* The destructor of an Event that is removed frees its descriptor. *)
LEMMA DestroyStep ==
  ASSUME PollInv, NEW e \in Events, Destroy(e)
  PROVE  PollInv'
<1>1. event \in [Events -> EventRecords]
  BY DEF PollInv, Table, PollTypes
<1>2. event' \in [Events -> EventRecords] /\ event'[e].life = "gone" /\ \A d \in Events \ {e} : event'[d] = event[d]
  BY <1>1 DEF Destroy, EventRecords
<1>3. event[e].life = "closed" /\ pollfds' = pollfds /\ events_map' = events_map /\ active' = active
  BY DEF Destroy
<1>4. OpenIsPolled(pollfds, events_map, event')
  BY <1>2 DEF PollInv, Table, OpenIsPolled
<1>5. ClosedIsForgotten(events_map, event') /\ NewIsUnknown(event')
  BY <1>2 DEF PollInv, Table, ClosedIsForgotten, NewIsUnknown
<1>6. KnownIsOpen(events_map, event')
  BY <1>2, <1>3 DEF PollInv, Table, PollTypes, KnownIsOpen
<1>7. PolledIsOpen(pollfds, event')
  BY <1>2, <1>3 DEF PollInv, Table, PolledIsOpen
<1>8. ActiveHasDescriptor'
  BY <1>2, <1>3 DEF PollInv, ActiveHasDescriptor, Destroy
<1>. QED
  BY <1>2, <1>3, <1>4, <1>5, <1>6, <1>7, <1>8 DEF PollInv, Table, PollTypes

(* poll() makes active_events_ of the Events the poller knows. *)
LEMMA PollStep ==
  ASSUME PollInv, Poll
  PROVE  PollInv'
<1>1. PICK n \in 1 .. Len(pollfds) : \E hit \in [1 .. n -> {i \in DOMAIN pollfds : events_map[pollfds[i].fd] # None}] :
        \E revents \in [1 .. n -> SUBSET Interest \ {{}}] :
          active' = [k \in 1 .. n |-> [ev |-> events_map[pollfds[hit[k]].fd], revents |-> revents[k]]]
  BY DEF Poll
<1>2. PICK hit \in [1 .. n -> {i \in DOMAIN pollfds : events_map[pollfds[i].fd] # None}] :
        \E revents \in [1 .. n -> SUBSET Interest \ {{}}] :
          active' = [k \in 1 .. n |-> [ev |-> events_map[pollfds[hit[k]].fd], revents |-> revents[k]]]
  BY <1>1
<1>3. PICK revents \in [1 .. n -> SUBSET Interest \ {{}}] :
        active' = [k \in 1 .. n |-> [ev |-> events_map[pollfds[hit[k]].fd], revents |-> revents[k]]]
  BY <1>2
<1>4. \A k \in 1 .. n : /\ events_map[pollfds[hit[k]].fd] \in Events
                        /\ event[events_map[pollfds[hit[k]].fd]].life = "open"
  <2> SUFFICES ASSUME NEW k \in 1 .. n
               PROVE  /\ events_map[pollfds[hit[k]].fd] \in Events
                      /\ event[events_map[pollfds[hit[k]].fd]].life = "open"
    OBVIOUS
  <2>0. hit[k] \in DOMAIN pollfds /\ events_map[pollfds[hit[k]].fd] # None
    BY <1>2
  <2>1. pollfds[hit[k]].fd \in Fds
    <3>1. pollfds[hit[k]] \in PollFds
      BY <2>0 DEF PollInv, Table, PollTypes
    <3>. QED
      BY <3>1 DEF PollFds
  <2>. QED
    BY <2>0, <2>1 DEF PollInv, Table, PollTypes, KnownIsOpen
<1>5. /\ active' \in Seq([ev : Events, revents : SUBSET Interest])
      /\ \A k \in 1 .. Len(active') : event[active'[k].ev].life = "open"
  <2>1. \A k \in 1 .. n : [ev |-> events_map[pollfds[hit[k]].fd], revents |-> revents[k]]
                            \in [ev : Events, revents : SUBSET Interest]
    BY <1>3, <1>4
  <2>2. n \in Nat
    OBVIOUS
  <2> DEFINE A == [ev : Events, revents : SUBSET Interest]
             a == [k \in 1 .. n |-> [ev |-> events_map[pollfds[hit[k]].fd], revents |-> revents[k]]]
  <2>3. a \in [1 .. n -> A] /\ \A k \in 1 .. n : event[a[k].ev].life = "open"
    BY <1>4, <2>1
  <2> HIDE DEF A, a
  <2>4. a \in Seq(A) /\ Len(a) = n
    BY <2>2, <2>3
  <2>. QED
    BY <1>3, <2>3, <2>4 DEF a, A
<1>. QED
  BY <1>5 DEF Poll, PollInv, ActiveHasDescriptor

(* The loop takes one of active_events_ and does what its callbacks do. *)
LEMMA HandleEventStep ==
  ASSUME PollInv, HandleEvent
  PROVE  PollInv'
<1> DEFINE e == Head(active).ev
           A == [ev : Events, revents : SUBSET Interest]
<1>1. active \in Seq(A) /\ active # <<>> /\ active' = Tail(active)
  BY DEF PollInv, ActiveHasDescriptor, HandleEvent
<1> HIDE DEF A
<1>2. /\ Head(active) \in A /\ Head(active) = active[1] /\ Tail(active) \in Seq(A)
      /\ Len(Tail(active)) = Len(active) - 1 /\ \A k \in 1 .. Len(Tail(active)) : Tail(active)[k] = active[k + 1]
  BY <1>1, HeadTailProperties
<1>3. e \in Events /\ event[e].life \in {"open", "closed"}
  BY <1>1, <1>2 DEF PollInv, ActiveHasDescriptor, A
<1>4. \A k \in 1 .. Len(active') : event[active'[k].ev].life \in {"open", "closed"}
  BY <1>1, <1>2 DEF PollInv, ActiveHasDescriptor
<1>5. Table(pollfds', events_map', event')
      /\ \A d \in Events : event[d].life \in {"open", "closed"} => event'[d].life \in {"open", "closed"}
  <2>1. CASE UNCHANGED <<pollfds, events_map, event>>
    BY <2>1 DEF PollInv
  <2>2. CASE event[e].life = "open" /\ Becomes(Closed(Poller, e))
    BY <2>2, <1>3, ClosedStep DEF PollInv
  <2>3. CASE Becomes(Interested(Poller, e, event[e].events \ {"WRITE"}))
    <3>1. event[e].events \ {"WRITE"} \in SUBSET Interest
      BY <1>3 DEF PollInv, Table, PollTypes, EventRecords
    <3>. QED
      BY <1>3, <2>3, <3>1, UpdatedStep DEF PollInv
  <2>. QED
    BY <2>1, <2>2, <2>3 DEF HandleEvent
<1>6. \A k \in 1 .. Len(active') : active'[k].ev \in Events
  <2>1. \A a \in A : a.ev \in Events
    BY DEF A
  <2>. QED
    BY <2>1, <1>1, <1>2
<1>. QED
  BY <1>1, <1>2, <1>4, <1>5, <1>6 DEF PollInv, ActiveHasDescriptor, A

(* poll() is called with the descriptors of the open Events, each once and   *)
(* with what its Event wants, however the Events are opened, removed and     *)
(* updated late (poll_poller.cc).                                            *)
THEOREM PolledAreWanted == PollerSpec => []PollsWhatIsWanted
<1>1. PollInv /\ [PollerNext]_pollvars => PollInv'
  <2> SUFFICES ASSUME PollInv, [PollerNext]_pollvars PROVE PollInv'
    OBVIOUS
  <2>1. CASE UNCHANGED pollvars
    BY <2>1 DEF pollvars, PollInv, ActiveHasDescriptor
  <2>2. CASE PollerNext
    BY <2>2, OpenStep, SetWritingStep, CloseStep, DestroyStep, PollStep, HandleEventStep DEF PollerNext
  <2>. QED
    BY <2>1, <2>2
<1>2. PollInv => PollsWhatIsWanted
  <2> SUFFICES ASSUME PollInv PROVE PollsWhatIsWanted
    OBVIOUS
  <2>1. DOMAIN pollfds = 1 .. Len(pollfds)
    BY DEF PollInv, Table, PollTypes
  <2>. QED
    BY <2>1 DEF PollInv, Table, OpenIsPolled, PolledIsOpen, PollsWhatIsWanted, OpenEvents
<1>. QED
  BY PollerInitial, <1>1, <1>2, PTL DEF PollerSpec
=============================================================================
