----------------------------- MODULE PollPoller -----------------------------
(***************************************************************************)
(* poll_poller.cc and event.cc: the descriptors that a loop polls and the  *)
(* Events that own them, under the calls that a connection makes: it       *)
(* enables reading, turns writing on and off, and when it closes disables  *)
(* everything and removes its Event, once.  A Send that comes late may     *)
(* still enable writing on the removed Event.  The descriptor is closed,   *)
(* and may be used for another connection, when the Event is destroyed.    *)
(***************************************************************************)
EXTENDS Integers, Sequences

CONSTANTS
  Events,  \* the Event objects of a run, each made once
  Fds      \* file descriptors, numbers: the lowest free one is used

ASSUME PollerAssumption == Fds \subseteq Nat /\ "none" \notin Events

VARIABLES
  pollfds,     \* pollfds_: what poll() is called with
  events_map,  \* events_map_: the Event of a descriptor, or None
  event,       \* the fields of each Event, and what became of it
  active       \* active_events_: the Events of this pass still to be handled, and revents_

pollvars == <<pollfds, events_map, event, active>>

None == "none"
Interest == {"READ", "WRITE"}
PollerInit ==
  /\ pollfds = <<>> /\ active = <<>>
  /\ events_map = [fd \in Fds |-> None]
  /\ event = [e \in Events |-> [fd |-> 0, events |-> {}, index |-> -1, life |-> "none"]]

(* The poller and its Events as one record, for calls that follow each other. *)
Poller == [fds |-> pollfds, map |-> events_map, event |-> event]
Becomes(q) == pollfds' = q.fds /\ events_map' = q.map /\ event' = q.event

\* The place that index_ names exists; without it the calls below are undefined.
Reaches(q, e) == q.event[e].index + 1 \in DOMAIN q.fds

UpdateEvent(q, e) ==
  LET ev == q.event[e]
      known == q.map[ev.fd] # None
      pfd == [fd |-> ev.fd, events |-> ev.events]
  IN  IF ev.index < 0 /\ ~ known
      THEN [fds |-> Append(q.fds, pfd), map |-> [q.map EXCEPT ![ev.fd] = e],
            event |-> [q.event EXCEPT ![e].index = Len(q.fds)]]
      ELSE IF ev.index >= 0 /\ known /\ Reaches(q, e) THEN [q EXCEPT !.fds[ev.index + 1].events = ev.events]
      ELSE q

\* Fault: the Event whose descriptor takes the place is not told its new index.
RemoveEventOnly(q, e) ==
  LET i == q.event[e].index + 1
      last == Len(q.fds)
  IN  IF i \in 1 .. last
      THEN [q EXCEPT !.map[q.event[e].fd] = None, !.fds = SubSeq([q.fds EXCEPT ![i] = q.fds[last]], 1, last - 1)]
      ELSE q
\* The last descriptor takes the place of the removed one; index_ of the
\* removed Event stays as it was.
RemoveEvent(q, e) ==
  LET i == q.event[e].index + 1
      last == Len(q.fds)
      moved == q.map[q.fds[last].fd]
      gone == [fds |-> SubSeq([q.fds EXCEPT ![i] = q.fds[last]], 1, last - 1),
               map |-> [q.map EXCEPT ![q.event[e].fd] = None], event |-> q.event]
  IN  IF ~ Reaches(q, e) THEN q
      ELSE IF i = last THEN gone
      ELSE IF moved = None THEN gone
      ELSE [gone EXCEPT !.event[moved].index = i - 1]

Interested(q, e, wanted) == UpdateEvent([q EXCEPT !.event[e].events = wanted], e)
\* DisableAll and Remove of a connection that closes.
Closed(q, e) == [RemoveEvent(Interested(q, e, {}), e) EXCEPT !.event[e].life = "closed"]

-----------------------------------------------------------------------------
InUse == {event[e].fd : e \in {x \in Events : event[x].life \in {"open", "closed"}}}
Free == Fds \ InUse
Open(e) ==
  /\ event[e].life = "none"
  /\ \E fd \in Free :
       /\ \A other \in Free : fd <= other
       /\ LET new == [fd |-> fd, events |-> {}, index |-> -1, life |-> "open"]
              made == [fds |-> pollfds, map |-> events_map, event |-> [event EXCEPT ![e] = new]]
          IN  Becomes(Interested(made, e, {"READ"}))
  /\ UNCHANGED active
SetWriting(e) ==
  /\ event[e].life \in {"open", "closed"}
  /\ \E wanted \in {event[e].events \cup {"WRITE"}, event[e].events \ {"WRITE"}} :
       wanted # event[e].events /\ Becomes(Interested(Poller, e, wanted))
  /\ UNCHANGED active
\* Between the passes: a task, or the timer of the connection.
Close(e) ==
  /\ event[e].life = "open" /\ active = <<>>
  /\ Becomes(Closed(Poller, e)) /\ UNCHANGED active
Destroy(e) ==
  /\ event[e].life = "closed" /\ \A k \in DOMAIN active : active[k].ev # e
  /\ event' = [event EXCEPT ![e].life = "gone"]
  /\ UNCHANGED <<pollfds, events_map, active>>

\* poll() finds what is wanted, in the order of pollfds_; a descriptor without
\* an Event is passed over.  READ stands for an error or the peer's end too.
Poll ==
  /\ active = <<>>
  /\ LET known == {i \in DOMAIN pollfds : events_map[pollfds[i].fd] # None}
     IN  \E n \in 1 .. Len(pollfds) : \E hit \in [1 .. n -> known] :
           /\ \A j, k \in 1 .. n : j < k => hit[j] < hit[k]
           /\ \E revents \in [1 .. n -> SUBSET Interest \ {{}}] :
                /\ \A k \in 1 .. n : revents[k] \subseteq pollfds[hit[k]].events
                /\ active' = [k \in 1 .. n |-> [ev |-> events_map[pollfds[hit[k]].fd], revents |-> revents[k]]]
  /\ UNCHANGED <<pollfds, events_map, event>>
\* HandleEvent: the read callback may close; the write callback may find the
\* queue empty.
HandleEvent ==
  /\ active # <<>> /\ active' = Tail(active)
  /\ LET e == Head(active).ev
         revents == Head(active).revents
     IN  \/ UNCHANGED <<pollfds, events_map, event>>
         \/ "READ" \in revents /\ event[e].life = "open" /\ Becomes(Closed(Poller, e))
         \/ "WRITE" \in revents \cap event[e].events
            /\ Becomes(Interested(Poller, e, event[e].events \ {"WRITE"}))

PollerNext ==
  \/ Poll \/ HandleEvent
  \/ \E e \in Events : Open(e) \/ SetWriting(e) \/ Close(e) \/ Destroy(e)

PollerSpec == PollerInit /\ [][PollerNext]_pollvars

-----------------------------------------------------------------------------
(* poll() is called with exactly the descriptors of the open Events, each    *)
(* once and with what its Event wants, and each is looked up to its Event,   *)
(* whatever was removed from the middle, updated late or opened again under  *)
(* the same number.                                                          *)
OpenEvents == {e \in Events : event[e].life = "open"}
PollsWhatIsWanted ==
  /\ \A e \in OpenEvents :
       LET i == event[e].index + 1
       IN  /\ i \in DOMAIN pollfds
           /\ pollfds[i] = [fd |-> event[e].fd, events |-> event[e].events]
           /\ events_map[event[e].fd] = e
  /\ \A i \in DOMAIN pollfds : \E e \in OpenEvents : event[e].index + 1 = i
=============================================================================
