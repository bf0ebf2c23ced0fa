---------------------------- MODULE HttpSession ----------------------------
(***************************************************************************)
(* httpsession.cc and httpparser.cc: how the callbacks of http_parser are  *)
(* put together to requests, what a complete request does to its session,  *)
(* and when the connection is closed.  One loop thread reads the           *)
(* connections in turn, a chunk at a time.  HttpParser.tla says how bytes  *)
(* become callbacks; here a chunk is a run of pieces: the two halves of    *)
(* each string, the delimiter behind it (half 0), the halves of the body,  *)
(* and the beginning and the completion of a message.                      *)
(***************************************************************************)
EXTENDS Integers, Sequences, SequencesExt, FiniteSets

CONSTANTS
  Sessions,     \* the connections of one loop
  Requests,     \* what clients send: [minor, url, headers, body, upgrade]
  MaxRequests,  \* bound of the requests of each client
  Cuts          \* the pieces <<kind, half>> in front of which a read may end

ASSUME SessionAssumption ==
  /\ MaxRequests \in [Sessions -> Nat]
  /\ Cuts \subseteq {"begin", "url", "field", "value", "body", "complete"} \X (0 .. 2)

VARIABLES
  sess,             \* [s \in Sessions |-> the session, its parser, its connection]
  header_key_temp,  \* header_key_temp_: one for all the parsers
  wire,             \* the pieces on their way
  sent,             \* history: the requests that each client sent
  got,              \* history: what request_callback_ was called with
  crossed,          \* history: the sessions whose key another one took before their value came
  broken            \* a freed parser went on, and nothing holds from there

sessvars == <<sess, header_key_temp, wire, sent, got, crossed, broken>>

Whole(text) == << <<text, 1>>, <<text, 2>> >>
NoRequest == [url |-> <<>>, headers |-> {}, body |-> <<>>]

-----------------------------------------------------------------------------
(* The client.                                                               *)
Piece(kind, text, half) == [kind |-> kind, text |-> text, half |-> half]
String(kind, text) == <<Piece(kind, text, 1), Piece(kind, text, 2), Piece(kind, text, 0)>>
Body(text) == IF text = "none" THEN <<>> ELSE <<Piece("body", text, 1), Piece("body", text, 2)>>
Pieces(r) ==
  <<Piece("begin", r.minor, 0)>> \o String("url", r.url)
  \o FlattenSeq([i \in DOMAIN r.headers |-> String("field", r.headers[i][1]) \o String("value", r.headers[i][2])])
  \o Body(r.body) \o <<Piece(IF r.upgrade THEN "upgrade" ELSE "complete", "", 0)>>

\* A client that upgraded its connection speaks WebSocket.
SendRequest(s, r) ==
  /\ Len(sent[s]) < MaxRequests[s] /\ \A i \in DOMAIN sent[s] : ~ sent[s][i].upgrade
  /\ sent' = [sent EXCEPT ![s] = Append(@, r)]
  /\ wire' = [wire EXCEPT ![s] = @ \o Pieces(r)]
  /\ UNCHANGED <<sess, header_key_temp, got, crossed, broken>>

-----------------------------------------------------------------------------
(* The callbacks of http_parser.  A state is the session c, the shared key,  *)
(* the requests handed on so far and the string that the chunk is in.        *)
\* Fault: a message goes on with the request of the one before.
OnMessageBeginAgain(q, minor) == [q EXCEPT !.c.process = "PROCESS", !.c.minor = minor]
OnMessageBegin(q, minor) == [q EXCEPT !.c.process = "PROCESS", !.c.request = NoRequest, !.c.minor = minor]
\* A malformed query string fails the parse, until something sets the state again.
OnUrl(q) ==
  [q EXCEPT !.c.request.url = q.text, !.c.process = IF q.text = Whole("malformed") THEN "FAIL" ELSE @]
OnHeaderField(q) == [q EXCEPT !.key = q.text]
OnHeaderValue(q) ==
  [q EXCEPT !.c.request.headers = {h \in @ : h[1] # q.key} \cup {<<q.key, q.text>>}, !.key = <<>>]
OnBody(q) == [q EXCEPT !.c.request.body = @ \o q.text]
Call(q, kind) ==
  LET p == CASE kind = "url" -> OnUrl(q) [] kind = "field" -> OnHeaderField(q)
             [] kind = "value" -> OnHeaderValue(q) [] kind = "body" -> OnBody(q)
  IN  [p EXCEPT !.text = <<>>, !.mark = ""]
Flush(q) == IF q.mark = "" THEN q ELSE Call(q, q.mark)

Headers(request, name) == {h[2] : h \in {g \in request.headers : g[1] = Whole(name)}}
\* HttpRequest::ParseBody, of a body that must be JSON
ParseBody(request) == Headers(request, "Content-Type") = {} \/ request.body = Whole("json")
\* need_close_ stays as it is where neither version names the header as here.
NeedClose(c) ==
  LET connection == Headers(c.request, "connection")
  IN  IF \/ c.minor = "0" /\ Whole("Keep-Alive") \in connection
         \/ c.minor = "1" /\ (connection = {} \/ Whole("close") \in connection)
      THEN FALSE ELSE c.need_close
HandOn(q) == [q EXCEPT !.handed = Append(@, q.c.request)]
\* ForceClose in the loop thread takes the session from httpsessions_, which
\* destroys it as soon as the callback of the parser lets go of it.
ForceClose(q) == [q EXCEPT !.c.open = FALSE]
\* The parser dies with its session, and has yet to return from the callback.
CloseInside(q) == [ForceClose(q) EXCEPT !.freed = TRUE]
HandleParsedMessage(q) ==
  LET p == [q EXCEPT !.c.need_close = NeedClose(q.c)]
  IN  IF ~ ParseBody(q.c.request) THEN p
      ELSE IF p.c.need_close THEN CloseInside(HandOn(p)) ELSE HandOn(p)
Upgrade(q) == HandOn([q EXCEPT !.c.upgrade = TRUE])
OnMessageComplete(q, upgrade) ==
  LET p == [q EXCEPT !.c.process = "SUCCESS"]
  IN  IF q.freed THEN p ELSE IF upgrade THEN Upgrade(p) ELSE HandleParsedMessage(p)

\* A piece of the chunk.  After an upgrade the parser reads no further.  A freed
\* parser whose memory still reads as it was finds no session to lock any more.
Feed(q, piece) ==
  IF q.c.upgrade THEN [q EXCEPT !.c.process = "FAIL"]
  ELSE CASE piece.kind = "begin" -> OnMessageBegin(q, piece.text)
    [] piece.kind \in {"complete", "upgrade"} -> OnMessageComplete(Flush(q), piece.kind = "upgrade")
    [] piece.kind \notin {"begin", "complete", "upgrade"} /\ piece.half = 0 -> Call(q, piece.kind)
    [] OTHER -> [q EXCEPT !.mark = piece.kind, !.text = Append(@, <<piece.text, piece.half>>)]

Parse(s, chunk) ==
  Flush(FoldLeft(Feed, [c |-> sess[s], key |-> header_key_temp, handed |-> <<>>, text |-> <<>>, mark |-> "",
                       freed |-> FALSE], chunk))
HandleMessage(s, chunk) ==
  LET q == Parse(s, chunk) IN IF q.c.process = "FAIL" THEN ForceClose(q) ELSE q

MayCut(pieces, n) == n < Len(pieces) => <<pieces[n + 1].kind, pieces[n + 1].half>> \in Cuts
\* header_key_temp_ is no longer that of a session that has the value still to come.
LosesKey(t, key) == wire[t] # <<>> /\ Head(wire[t]).kind = "value" /\ key # header_key_temp
\* handleRead: what has come in so far, of a connection that the loop still polls
Read(s) ==
  /\ sess[s].open /\ ~ sess[s].upgrade
  /\ \E n \in 1 .. Len(wire[s]) :
       /\ MayCut(wire[s], n)
       /\ \E q \in {HandleMessage(s, SubSeq(wire[s], 1, n))} :
            /\ sess' = [sess EXCEPT ![s] = q.c] /\ header_key_temp' = q.key
            /\ got' = [got EXCEPT ![s] = @ \o q.handed]
            /\ crossed' = crossed \cup {t \in Sessions \ {s} : LosesKey(t, q.key)}
            /\ broken' \in {q.freed, FALSE}
       /\ wire' = [wire EXCEPT ![s] = SubSeq(@, n + 1, Len(@))]
  /\ UNCHANGED sent

SessionInit ==
  /\ sess = [s \in Sessions |-> [open |-> TRUE, upgrade |-> FALSE, need_close |-> TRUE, process |-> "PROCESS",
                                 minor |-> "0", request |-> NoRequest]]
  /\ header_key_temp = <<>>
  /\ crossed = {} /\ broken = FALSE
  /\ wire = [s \in Sessions |-> <<>>] /\ sent = [s \in Sessions |-> <<>>] /\ got = [s \in Sessions |-> <<>>]
SessionNext == ~ broken /\ \E s \in Sessions : Read(s) \/ \E r \in Requests : SendRequest(s, r)
SessionSpec == SessionInit /\ [][SessionNext]_sessvars

-----------------------------------------------------------------------------
AsSent(r) ==
  [url |-> Whole(r.url), headers |-> {<<Whole(h[1]), Whole(h[2])>> : h \in ToSet(r.headers)},
   body |-> IF r.body = "none" THEN <<>> ELSE Whole(r.body)]
Answerable(r) == r.upgrade \/ ParseBody(AsSent(r))
(* The handlers see the requests of a connection whole, in the order in     *)
(* which the client sent them, each once; one is left out only when its     *)
(* body does not parse, and the rest only when the connection is closed.    *)
(* The exception is a session that another one crossed, whose value gets    *)
(* the key of the other: the key is kept for all the parsers at once.       *)
RequestsAsSent ==
  \A s \in Sessions \ crossed :
    LET wanted == SelectSeq(sent[s], Answerable)
    IN  /\ got[s] = [i \in 1 .. Len(got[s]) |-> AsSent(wanted[i])] /\ Len(got[s]) <= Len(wanted)
        /\ sess[s].open /\ wire[s] = <<>> => Len(got[s]) = Len(wanted)

(* The comment of http_parser.h says that the callbacks of a string will be *)
(* called arbitrarily many times: a request is whole then, too.             *)
UrlsAreWhole == \A s \in Sessions : \A i \in DOMAIN got[s] : \E r \in ToSet(sent[s]) : got[s][i].url = Whole(r.url)
=============================================================================
