----------------------------- MODULE WebSocket -----------------------------
(***************************************************************************)
(* websocket.cc, in the version without coroutines: how the frames of a    *)
(* client are read out of the input buffer, unmasked and put together to   *)
(* messages, and how the two sides close.  The stream is made of units:    *)
(* the halves of each field of a header, and the bytes of the payload.  A  *)
(* byte carries the set of the masks that are applied to it.  The handler  *)
(* sets both callbacks and echoes what it hears, as the one in README.md.  *)
(***************************************************************************)
EXTENDS Integers, Sequences, SequencesExt, FiniteSetsExt

CONSTANTS
  Frames,    \* what a client may send: [op, fin, length, field, masked]
  MaxFrames  \* bound of the frames that it sends

ASSUME FramesAssumption == MaxFrames \in Nat /\ \A f \in Frames : f.length \in Nat /\ f.field \in {"none", "Len16", "Len64"}

VARIABLES
  frames,   \* the frames that the client sent
  ws        \* the WebSocket; how far its stream came in (arrived) and was taken out (taken)

wsvars == <<frames, ws>>

Units(f) ==
  LET fr == frames[f]
      field(name) == <<[of |-> f, field |-> name, at |-> 1], [of |-> f, field |-> name, at |-> 2]>>
  IN  field("MiniHeader") \o (IF fr.field = "none" THEN <<>> ELSE field(fr.field))
      \o (IF fr.masked THEN field("Mask") ELSE <<>>)
      \o [k \in 1 .. fr.length |-> [of |-> f, field |-> "Payload", at |-> k - 1]]
Stream == FlattenSeq([f \in DOMAIN frames |-> Units(f)])

-----------------------------------------------------------------------------
(* What a frame does when its payload is complete.                           *)
FragmentFIN(q) == [q EXCEPT !.data = <<>>, !.recv_begin = 0, !.recv_end = 0]
\* The connection leaves the loop, the session is destroyed, and tells the WebSocket.
ForceCloseSocket(q) == IF q.open THEN [q EXCEPT !.open = FALSE, !.closes = @ + 1] ELSE q
\* Fault: the answer to a close frame does not close the connection.
CloseHalf(q) == [q EXCEPT !.sent_close = TRUE, !.out = Append(@, "close")]
Close(q) ==
  LET p == [q EXCEPT !.sent_close = TRUE, !.out = Append(@, "close")]
  IN  IF p.recv_close THEN ForceCloseSocket(p) ELSE p
Message(q) ==
  IF ~ frames[q.header].fin THEN q
  ELSE FragmentFIN([q EXCEPT !.heard = Append(@, [type |-> q.type, data |-> q.data]), !.out = Append(@, q.type)])

\* Fault: a fragment is unmasked from the beginning of the message.
UnmaskAll(q) ==
  [q EXCEPT !.data = [i \in DOMAIN @ |-> [@[i] EXCEPT !.masks = SymDiff(@, {<<q.mask, (i - 1) % 4>>})]],
            !.recv_begin = q.recv_end]
Unmask(q) ==
  [q EXCEPT !.data = [i \in DOMAIN @ |->
       IF i <= q.recv_begin \/ i > q.recv_end THEN @[i]
       ELSE [@[i] EXCEPT !.masks = SymDiff(@, {<<q.mask, (i - q.recv_begin - 1) % 4>>})]],
     !.recv_begin = q.recv_end]

CloseFrame(q) ==
  LET p == [q EXCEPT !.recv_close = TRUE]
  IN  IF p.sent_close THEN ForceCloseSocket([p EXCEPT !.closes = @ + 1]) ELSE Close(p)
HandleFragment(q) ==
  LET p == Unmask([q EXCEPT !.recv_end = Len(q.data)])
      op == frames[q.header].op
  IN  CASE op = 0 -> Message(p)
        [] op = 1 -> Message([p EXCEPT !.type = "Text"])
        [] op = 2 -> Message([p EXCEPT !.type = "Binary"])
        [] op = 8 -> CloseFrame(p)
        [] op = 9 -> FragmentFIN([p EXCEPT !.out = Append(@, "pong")])
        [] OTHER -> ForceCloseSocket(p)

-----------------------------------------------------------------------------
(* The states of handleMessage.  ReadSome leaves a field that is not whole.  *)
Unread(q) == q.arrived - q.taken
NextUnit(q) == Stream[q.taken + 1]
Field(q, next) == IF Unread(q) < 2 THEN [q EXCEPT !.done = TRUE] ELSE [next EXCEPT !.taken = @ + 2]
MiniHeader(q) ==
  LET f == NextUnit(q).of
      fr == frames[f]
  IN  IF Unread(q) < 2 THEN [q EXCEPT !.done = TRUE]
      ELSE IF ~ fr.masked THEN [ForceCloseSocket(q) EXCEPT !.done = TRUE]
      ELSE [q EXCEPT !.header = f, !.taken = @ + 2,
                     !.needrecv = IF fr.field = "none" THEN fr.length ELSE @,
                     !.parse_state = IF fr.field = "none" THEN "Mask" ELSE fr.field]
Length(q) == Field(q, [q EXCEPT !.needrecv = frames[q.header].length, !.parse_state = "Mask"])
Mask(q) == Field(q, [q EXCEPT !.mask = q.header, !.parse_state = "Payload"])
Wired(unit) == [of |-> unit.of, at |-> unit.at, masks |-> {<<unit.of, unit.at % 4>>}]
Payload(q) ==
  LET n == Min({Unread(q), q.needrecv})
      p == [q EXCEPT !.done = TRUE, !.needrecv = @ - n, !.taken = @ + n,
                     !.data = @ \o [k \in 1 .. n |-> Wired(Stream[q.taken + k])]]
  IN  IF p.needrecv = 0 THEN HandleFragment([p EXCEPT !.parse_state = "MiniHeader"]) ELSE p
Turn(q) ==
  IF q.done THEN q
  ELSE CASE q.parse_state = "MiniHeader" -> MiniHeader(q)
         [] q.parse_state \in {"Len16", "Len64"} -> Length(q)
         [] q.parse_state = "Mask" -> Mask(q)
         [] OTHER -> Payload(q)
\* It returns after a payload: the frames behind it wait in the buffer for the next read.
HandleFrames(q) == [Turn(Turn(Turn(Turn([q EXCEPT !.done = FALSE])))) EXCEPT !.done = FALSE]

ReadFrames ==
  /\ ws.open
  /\ \E n \in ws.arrived + 1 .. Len(Stream) : ws' = HandleFrames([ws EXCEPT !.arrived = n])
  /\ UNCHANGED frames

-----------------------------------------------------------------------------
InMessage == \E i \in DOMAIN frames : ~ frames[i].fin /\ \A j \in i + 1 .. Len(frames) : frames[j].op \in {9, 10}
ClientSends(f) ==
  /\ ws.open /\ Len(frames) < MaxFrames
  /\ \A i \in DOMAIN frames : frames[i].op # 8
  /\ f.op = 0 => InMessage
  /\ f.op \in {1, 2} => ~ InMessage
  /\ frames' = Append(frames, f) /\ UNCHANGED ws
\* The end of the stream: handleRead closes the connection.
ClientHangsUp == ws.open /\ ws' = ForceCloseSocket(ws) /\ UNCHANGED frames
\* A handler closes the channel.
ServerCloses == ws.open /\ ~ ws.sent_close /\ ws' = Close(ws) /\ UNCHANGED frames

WsInit ==
  /\ frames = <<>>
  /\ ws = [open |-> TRUE, arrived |-> 0, parse_state |-> "MiniHeader", header |-> 0, mask |-> 0, needrecv |-> 0, taken |-> 0, done |-> FALSE,
           data |-> <<>>, recv_begin |-> 0, recv_end |-> 0, type |-> "Binary", recv_close |-> FALSE, sent_close |-> FALSE,
           heard |-> <<>>, out |-> <<>>, closes |-> 0]
WsNext == ReadFrames \/ ClientHangsUp \/ ServerCloses \/ \E f \in Frames : ClientSends(f)
WsSpec == WsInit /\ [][WsNext]_wsvars

-----------------------------------------------------------------------------
IsData(i) == frames[i].op \in {0, 1, 2}
Ends == SetToSortSeq({i \in DOMAIN frames : IsData(i) /\ frames[i].fin}, <)
Began(e) == Max({b \in 1 .. e : frames[b].op \in {1, 2}})
Bytes(i) == [k \in 1 .. frames[i].length |-> [of |-> i, at |-> k - 1, masks |-> {}]]
Kept(e) == SelectSeq([k \in 1 .. e - Began(e) + 1 |-> Began(e) + k - 1],
                     LAMBDA i : IsData(i) /\ \A j \in i + 1 .. e : frames[j].op # 9)
Expected(e) == [type |-> IF frames[Began(e)].op = 1 THEN "Text" ELSE "Binary",
                data |-> FlattenSeq([k \in DOMAIN Kept(e) |-> Bytes(Kept(e)[k])])]
(* However the stream is cut into reads, the handler hears the messages of   *)
(* the client in order, each once, with all its bytes unmasked; except that  *)
(* a ping between two fragments takes the fragments before it away.          *)
MessagesAreUnmasked ==
  /\ Len(ws.heard) <= Len(Ends)
  /\ \A m \in DOMAIN ws.heard : ws.heard[m] = Expected(Ends[m])

(* A channel that is gone was reported to the handler; more than once only   *)
(* if both sides closed it, and then twice.                                  *)
CloseIsHeard ==
  /\ ws.closes \in IF ws.open THEN {0} ELSE {1, 2}
  /\ ws.closes = 2 => ws.sent_close /\ ws.recv_close
  /\ ws.recv_close => ~ ws.open
=============================================================================
