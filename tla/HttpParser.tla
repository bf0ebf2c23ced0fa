----------------------------- MODULE HttpParser -----------------------------
(***************************************************************************)
(* http_parser.cc: the incremental parser of requests under the sessions,  *)
(* one step per byte.  The peer's bytes arrive in reads of any size; each  *)
(* read is one call of http_parser_execute, which runs the six callbacks   *)
(* that httpparser.cc installs and returns how many bytes it took.         *)
(*                                                                         *)
(* A byte is one of the strings below.  Words that the parser matches      *)
(* letter by letter (methods, header names, tokens of a value) are         *)
(* shortened; the matching by index is kept.  The inner loops over a       *)
(* header or a body are the same steps without the switch: they are taken  *)
(* byte by byte.  The states of a response are left out (the parser is     *)
(* made with HTTP_REQUEST), as are lenient_http_headers and                *)
(* allow_chunked_length (zero) and the callbacks nobody installs.          *)
(***************************************************************************)
EXTENDS Naturals, Sequences, SequencesExt

CONSTANTS
  ULLONG_MAX,     \* the largest content length, and the mark of an absent one
  MaxHeaderSize,  \* max_header_size
  MaxRead,        \* the most bytes that a read brings
  Streams         \* what a peer may send: sequences of requests

ASSUME ParserAssumption ==
  ULLONG_MAX \in Nat /\ ULLONG_MAX >= 16 /\ MaxHeaderSize \in Nat /\ MaxRead \in Nat

VARIABLES
  parser,   \* struct http_parser
  data,     \* the bytes of the current call of http_parser_execute
  p,        \* the index of the byte looked at
  counted,  \* the byte was counted in nread (REEXECUTE does not count again)
  mark,     \* the marks: where the datum of a callback begins in data, or 0
  call,     \* the callback that runs, or NoCall
  run,      \* "idle" between calls, "run" in the loop, "return" about to return
  unread,     \* bytes sent that no read took yet
  stream,     \* what the peer sends (never changes)
  heard     \* history: the messages the callbacks told of, data joined

reading == <<data, p, counted, mark, call, run>>
history == <<unread, stream, heard>>
pvars == <<parser, reading, history>>

-----------------------------------------------------------------------------
(* Characters and words. *)
Num == {"0", "1", "2", "9"}
Value == [d \in Num |-> CASE d = "0" -> 0 [] d = "1" -> 1 [] d = "2" -> 2 [] OTHER -> 9]
Upper == {"C", "D", "E", "G", "H", "N", "O", "P", "R", "T", "U"}
Lower == [c \in Upper |-> CASE c = "C" -> "c" [] c = "E" -> "e" [] c = "H" -> "h"
                            [] c = "N" -> "n" [] c = "T" -> "t" [] c = "U" -> "u" [] OTHER -> "x"]
LowerOf(c) == IF c \in Upper THEN Lower[c] ELSE c
Alpha == Upper \cup {"a", "c", "e", "h", "k", "l", "n", "p", "t", "u", "x"}
Token == Alpha \cup Num
UserinfoChar == Token \cup {".", ":", "&", "=", ",", "*", ";"}
UrlChar == UserinfoChar \cup {"/", "@", "[", "]"}
Blank == {" ", "HT"}
Newline == {"CR", "LF"}
WireBytes == UrlChar \cup Blank \cup Newline \cup {"?", "#", "NUL"}
HeaderChar == WireBytes \ {"NUL"}

MethodStrings ==
  [DELETE |-> <<"D", "E">>, GET |-> <<"G", "T">>, HEAD |-> <<"H", "E">>,
   POST |-> <<"P", "O", "T">>, PUT |-> <<"P", "U", "T">>, PURGE |-> <<"P", "U", "R">>,
   CONNECT |-> <<"C", "N">>]
MethodByLetter == [C |-> "CONNECT", D |-> "DELETE", G |-> "GET", H |-> "HEAD", P |-> "POST"]
\* The method so far, the position and the letter that turn it into another.
MethodSwitch == {<<"POST", 1, "U", "PUT">>, <<"PUT", 2, "R", "PURGE">>}

HeaderName ==
  [connection |-> <<"c", "n", "e">>, content_length |-> <<"c", "t", "l">>,
   proxy_connection |-> <<"p", "c">>, transfer_encoding |-> <<"t", "e">>, upgrade |-> <<"u", "p">>]
ValueWord ==
  [chunked |-> <<"c", "h">>, keep_alive |-> <<"k", "a">>, close |-> <<"c", "l">>, upgrade |-> <<"u", "p">>]

-----------------------------------------------------------------------------
(* enum state, enum header_states and flags. *)
UrlNoSpaceStates == {"req_schema", "req_schema_slash", "req_schema_slash_slash", "req_server_start"}
UrlEndStates == {"req_server", "req_server_with_at", "req_path", "req_query_string_start",
                 "req_query_string", "req_fragment_start", "req_fragment"}
UrlStates == UrlNoSpaceStates \cup UrlEndStates
HttpLetters == [req_http_H |-> <<"T", "req_http_HT">>, req_http_HT |-> <<"T", "req_http_HTT">>,
                req_http_HTT |-> <<"P", "req_http_HTTP">>, req_http_HTTP |-> <<"/", "req_http_major">>]
ChunkHeadStates == {"chunk_size_start", "chunk_size", "chunk_parameters", "chunk_size_almost_done"}
ChunkBodyStates == {"chunk_data", "chunk_data_almost_done", "chunk_data_done"}
BodyStates == ChunkBodyStates \cup {"body_identity", "message_done"}
States ==
  {"dead", "start_req", "req_method", "req_spaces_before_url"} \cup UrlStates
  \cup {"req_http_start"} \cup DOMAIN HttpLetters
  \cup {"req_http_major", "req_http_dot", "req_http_minor", "req_http_end", "req_line_almost_done",
        "header_field_start", "header_field", "header_value_discard_ws",
        "header_value_discard_ws_almost_done", "header_value_discard_lws", "header_value_start",
        "header_value", "header_value_lws", "header_almost_done", "headers_almost_done", "headers_done"}
  \cup ChunkHeadStates \cup BodyStates
MatchingKinds == {"matching_name", "matching_value"}
WordKinds == MatchingKinds \cup {"name", "value"}
TokenKinds == {"te_start", "te_token", "connection_start", "connection_token"}
HeaderStates == WordKinds \cup TokenKinds \cup {"general", "C", "content_length_num", "content_length_ws"}
HeaderWords == DOMAIN HeaderName \cup DOMAIN ValueWord \cup {"none"}
Flags == {"CHUNKED", "CONNECTION_KEEP_ALIVE", "CONNECTION_CLOSE", "CONNECTION_UPGRADE",
          "TRAILING", "UPGRADE", "CONTENTLENGTH"}
FlagOf == [keep_alive |-> "CONNECTION_KEEP_ALIVE", close |-> "CONNECTION_CLOSE",
           upgrade |-> "CONNECTION_UPGRADE", chunked |-> "CHUNKED"]
DataCallbacks == {"header_field", "header_value", "url", "body"}
NoCall == [cb |-> "none", at |-> <<>>]

-----------------------------------------------------------------------------
(* What a peer sends.  A request is a record of what it means; Wire spells it. *)
Spell(words, sep) ==
  FoldLeft(LAMBDA b, w : b \o (IF b = <<>> THEN <<>> ELSE sep)
                           \o (IF w \in DOMAIN ValueWord THEN ValueWord[w] ELSE <<"x">>), <<>>, words)
\* The fields in the order of the wire, each a name and a value.
HeaderFields(r) ==
  (IF r.connection = <<>> THEN <<>> ELSE << <<"connection", Spell(r.connection, <<",", " ">>)>> >>)
  \o (IF r.upgrade THEN << <<"upgrade", <<"x">> >> >> ELSE <<>>)
  \o (IF r.coding = <<>> THEN <<>> ELSE << <<"transfer_encoding", Spell(r.coding, <<",", " ">>)>> >>)
  \o [i \in DOMAIN r.lengths |-> <<"content_length", r.lengths[i]>>]
  \o r.extra
Header(name, value, eol) == HeaderName[name] \o <<":", " ">> \o value \o eol
Joined(seqs) == FoldLeft(LAMBDA b, s : b \o s, <<>>, seqs)
\* A chunk of one byte has an extension.
Chunk(bytes) == << <<"0">>, <<"1", ";", "x">>, <<"2">> >>[Len(bytes) + 1] \o <<"CR", "LF">> \o bytes \o <<"CR", "LF">>
IsChunked(r) == r.coding # <<>> /\ Last(r.coding) = "chunked"
Version(r) == IF r.minor = "9" THEN <<>> ELSE <<" ", "H", "T", "T", "P", "/", "1", ".", r.minor>>
PlainHead(r) ==
  r.lead \o MethodStrings[r.method] \o <<" ">> \o r.url \o Version(r) \o r.eol
  \o Joined([i \in DOMAIN HeaderFields(r) |-> Header(HeaderFields(r)[i][1], HeaderFields(r)[i][2], r.eol)]) \o r.eol
\* With one byte spoiled, unless junk is 0.
RequestHead(r) == [i \in DOMAIN PlainHead(r) |-> IF i = r.junk THEN "NUL" ELSE PlainHead(r)[i]]
Wire(r) ==
  RequestHead(r) \o (IF IsChunked(r) THEN Joined([i \in DOMAIN r.body |-> Chunk(r.body[i])]) \o Chunk(<<>>)
                             ELSE Joined(r.body))

(* What HTTP says of a request: it ends the connection, changes the protocol, *)
(* or must be refused because its end is not certain or its head is too long. *)
Persistent(r) == IF r.minor = "1" THEN ~ Contains(r.connection, "close") ELSE Contains(r.connection, "keep_alive")
Upgrading(r) == r.method = "CONNECT" \/ (r.upgrade /\ Contains(r.connection, "upgrade"))
LengthOf(text) == FoldLeft(LAMBDA n, d : 10 * n + Value[d], 0, SelectSeq(text, LAMBDA c : c \in Num))
Refused(r) ==
  \/ r.coding # <<>> /\ (r.lengths # <<>> \/ ~ IsChunked(r))
  \/ r.junk # 0
  \/ Len(r.lengths) > 1
  \/ \E i \in DOMAIN r.lengths : r.lengths[i] = <<>> \/ LengthOf(r.lengths[i]) >= ULLONG_MAX
  \/ Len(RequestHead(r)) > MaxHeaderSize

\* A value without its folds and the blanks before it.
Text(value) ==
  LET plain == SelectSeq(value, LAMBDA c : c \notin Newline)
      first == {i \in DOMAIN plain : plain[i] \notin Blank}
  IN  IF first = {} THEN <<>> ELSE SubSeq(plain, CHOOSE i \in first : \A j \in first : i <= j, Len(plain))
Event(cb, bytes) == [cb |-> cb, at |-> bytes]
Events(r) ==
  <<Event("message_begin", <<>>), Event("url", r.url)>>
  \o Joined([i \in DOMAIN HeaderFields(r) |->
       <<Event("header_field", HeaderName[HeaderFields(r)[i][1]]), Event("header_value", Text(HeaderFields(r)[i][2]))>>])
  \o (IF Joined(r.body) = <<>> THEN <<>> ELSE <<Event("body", Joined(r.body))>>)
  \o (IF Refused(r) THEN <<>> ELSE <<Event("message_complete", <<>>)>>)
\* The requests of a stream that are to be told of: those up to the first that is the last.
ServedOf(s) == {i \in DOMAIN s : \A j \in 1 .. i - 1 : Persistent(s[j]) /\ ~ Upgrading(s[j]) /\ ~ Refused(s[j])}
Verdict ==
  [s \in Streams |-> [heard |-> Joined([i \in ServedOf(s) |-> Events(s[i])]),
                      refused |-> \E i \in ServedOf(s) : Refused(s[i]), allServed |-> ServedOf(s) = DOMAIN s]]
ExpectedEvents == Verdict[stream].heard

-----------------------------------------------------------------------------
(* http_parser_init, and the call that hands a read to the parser. *)
ParserInit ==
  [state |-> "start_req", header_state |-> "general", word |-> "none", index |-> 0, flags |-> {},
   uses_transfer_encoding |-> FALSE, nread |-> 0, content_length |-> 0, http_major |-> "0",
   http_minor |-> "0", method |-> "DELETE", errno |-> "OK", upgrade |-> FALSE]
Init ==
  /\ stream \in Streams
  /\ unread = Joined([i \in DOMAIN stream |-> Wire(stream[i])])
  /\ parser = ParserInit
  /\ data = <<>> /\ p = 1 /\ counted = FALSE /\ call = NoCall /\ run = "idle" /\ heard = <<>>
  /\ mark = [k \in DataCallbacks |-> 0]

\* The protocol changed: the caller has other uses for what follows.
Upgraded == parser.upgrade /\ parser.state \in {"start_req", "dead"}
\* Fault: a datum that began in an earlier read is not marked again.
MarkedNowhere(state) == [k \in DataCallbacks |-> 0]
\* The marks at the start of a call: a datum that an earlier read began goes on.
Marked(state) ==
  [k \in DataCallbacks |-> IF \/ k = state
                              \/ k = "url" /\ state \in UrlStates THEN 1 ELSE 0]
\* The start of http_parser_execute.
ExecuteRead(n) ==
  /\ run = "idle" /\ ~ Upgraded /\ n \in 1 .. Len(unread) /\ n <= MaxRead
  /\ data' = SubSeq(unread, 1, n) /\ unread' = SubSeq(unread, n + 1, Len(unread))
  /\ p' = 1 /\ counted' = FALSE
  /\ IF parser.errno = "OK" THEN run' = "run" /\ mark' = Marked(parser.state)
                            ELSE run' = "return" /\ mark' = [k \in DataCallbacks |-> 0]
  /\ UNCHANGED <<parser, call, stream, heard>>

(* The loop: the byte at p in state s, counted while the head is parsed. *)
InHead == parser.state \notin BodyStates
TooLong == InHead /\ ~ counted /\ parser.nread >= MaxHeaderSize
Looking == run = "run" /\ call = NoCall /\ p \in DOMAIN data
At(S) == Looking /\ ~ TooLong /\ parser.state \in S
ch == data[p]
pr == IF InHead /\ ~ counted THEN [parser EXCEPT !.nread = @ + 1] ELSE parser
UpdateState(state) == [pr EXCEPT !.state = state]

(* How a case of the switch ends: with the byte taken, looked at again in    *)
(* another state, refused, or taken as the last one of this call.            *)
Consume(ps) == parser' = ps /\ p' = p + 1 /\ counted' = FALSE /\ UNCHANGED <<run, data, history>>
Reexecute(ps) == parser' = ps /\ p' = p /\ counted' = TRUE /\ UNCHANGED <<run, data, history>>
Stop(ps) == parser' = ps /\ p' = p + 1 /\ counted' = FALSE /\ run' = "return" /\ UNCHANGED <<data, history>>
Fail(e) ==
  /\ parser' = [pr EXCEPT !.errno = e] /\ run' = "return"
  /\ UNCHANGED <<p, counted, mark, call, data, history>>

(* The macros for marks and callbacks. *)
Quiet == UNCHANGED <<mark, call>>
Mark(k) == mark' = [mark EXCEPT ![k] = IF @ = 0 THEN p ELSE @] /\ UNCHANGED call
Notify(cb) == call' = Event(cb, <<>>) /\ UNCHANGED mark
\* The datum up to the byte last; nothing when it is not marked.
CallbackData(k, last) ==
  IF mark[k] = 0 THEN Quiet
  ELSE call' = Event(k, SubSeq(data, mark[k], last)) /\ mark' = [mark EXCEPT ![k] = 0]

-----------------------------------------------------------------------------
(* The request line. *)
HeaderOverflow == Looking /\ TooLong /\ Fail("HEADER_OVERFLOW")

Dead ==
  /\ At({"dead"})
  /\ IF ch \in Newline THEN Consume(pr) /\ Quiet ELSE Fail("CLOSED_CONNECTION")

StartReq ==
  /\ At({"start_req"})
  /\ LET begun == [UpdateState("req_method") EXCEPT !.flags = {}, !.uses_transfer_encoding = FALSE,
                     !.content_length = ULLONG_MAX, !.index = 1]
     IN  IF ch \in Newline THEN Consume(pr) /\ Quiet
         ELSE IF ch \in DOMAIN MethodByLetter
              THEN Consume([begun EXCEPT !.method = MethodByLetter[ch]]) /\ Notify("message_begin")
         ELSE Fail("INVALID_METHOD")

ReqMethod ==
  /\ At({"req_method"})
  /\ LET matcher == MethodStrings[pr.method]
         more == {new \in DOMAIN MethodStrings : <<pr.method, pr.index, ch, new>> \in MethodSwitch}
         step == [pr EXCEPT !.index = @ + 1]
     IN  IF ch = " " /\ pr.index = Len(matcher) THEN Consume([step EXCEPT !.state = "req_spaces_before_url"]) /\ Quiet
         ELSE IF pr.index < Len(matcher) /\ ch = matcher[pr.index + 1] THEN Consume(step) /\ Quiet
         ELSE IF more # {} THEN Consume([step EXCEPT !.method = CHOOSE new \in more : TRUE]) /\ Quiet
         ELSE Fail("INVALID_METHOD")

ParseUrlChar(s, c) ==
  CASE c \in {" ", "CR", "LF", "HT"} -> "dead"
    [] s = "req_spaces_before_url" /\ c \in {"/", "*"} -> "req_path"
    [] s \in {"req_spaces_before_url", "req_schema"} /\ c \in Alpha -> "req_schema"
    [] s = "req_schema" /\ c = ":" -> "req_schema_slash"
    [] s = "req_schema_slash" /\ c = "/" -> "req_schema_slash_slash"
    [] s = "req_schema_slash_slash" /\ c = "/" -> "req_server_start"
    [] s \in {"req_server_with_at", "req_server_start", "req_server"} ->
         CASE c = "/" -> "req_path" [] c = "?" -> "req_query_string_start"
           [] c = "@" -> IF s = "req_server_with_at" THEN "dead" ELSE "req_server_with_at"
           [] c \in UserinfoChar \cup {"[", "]"} -> "req_server" [] OTHER -> "dead"
    [] s = "req_path" /\ c = "?" -> "req_query_string_start"
    [] s \in {"req_path", "req_query_string_start", "req_query_string"} /\ c = "#" -> "req_fragment_start"
    [] s = "req_path" /\ c \in UrlChar -> "req_path"
    [] s \in {"req_query_string_start", "req_query_string"} /\ c \in UrlChar \cup {"?"} -> "req_query_string"
    [] s = "req_fragment_start" /\ c = "#" -> "req_fragment_start"
    [] s \in {"req_fragment_start", "req_fragment"} /\ c \in UrlChar \cup {"?", "#"} -> "req_fragment"
    [] OTHER -> "dead"
SpacesBeforeUrl ==
  /\ At({"req_spaces_before_url"})
  /\ LET s == IF pr.method = "CONNECT" THEN "req_server_start" ELSE "req_spaces_before_url"
     IN  IF ch = " " THEN Consume(pr) /\ Quiet
         ELSE IF ParseUrlChar(s, ch) = "dead" THEN Fail("INVALID_URL")
         ELSE Consume(UpdateState(ParseUrlChar(s, ch))) /\ Mark("url")

UrlChars ==
  /\ At(UrlStates)
  /\ IF pr.state \in UrlEndStates /\ ch \in {" ", "CR", "LF"}
     THEN /\ CallbackData("url", p - 1)
          /\ Consume(IF ch = " " THEN UpdateState("req_http_start")
                     ELSE [UpdateState(IF ch = "CR" THEN "req_line_almost_done" ELSE "header_field_start")
                             EXCEPT !.http_major = "0", !.http_minor = "9"])
     ELSE IF ParseUrlChar(pr.state, ch) = "dead" THEN Fail("INVALID_URL")
     ELSE Consume(UpdateState(ParseUrlChar(pr.state, ch))) /\ Quiet

HttpStart ==
  /\ At({"req_http_start"})
  /\ CASE ch = " " -> Consume(pr) /\ Quiet
       [] ch = "H" -> Consume(UpdateState("req_http_H")) /\ Quiet
       [] OTHER -> Fail("INVALID_CONSTANT")

HttpWord ==
  /\ At(DOMAIN HttpLetters)
  /\ IF ch = HttpLetters[pr.state][1] THEN Consume(UpdateState(HttpLetters[pr.state][2])) /\ Quiet ELSE Fail("STRICT")

HttpVersion ==
  /\ At({"req_http_major", "req_http_dot", "req_http_minor"})
  /\ CASE pr.state = "req_http_dot" /\ ch = "." -> Consume(UpdateState("req_http_minor")) /\ Quiet
       [] pr.state = "req_http_major" /\ ch \in Num -> Consume([UpdateState("req_http_dot") EXCEPT !.http_major = ch]) /\ Quiet
       [] pr.state = "req_http_minor" /\ ch \in Num -> Consume([UpdateState("req_http_end") EXCEPT !.http_minor = ch]) /\ Quiet
       [] OTHER -> Fail("INVALID_VERSION")

LineEnd ==
  /\ At({"req_http_end", "req_line_almost_done"})
  /\ CASE pr.state = "req_http_end" /\ ch = "CR" -> Consume(UpdateState("req_line_almost_done")) /\ Quiet
       [] ch = "LF" -> Consume(UpdateState("header_field_start")) /\ Quiet
       [] OTHER -> Fail(IF pr.state = "req_http_end" THEN "INVALID_VERSION" ELSE "LF_EXPECTED")

-----------------------------------------------------------------------------
(* Header fields. *)
NamedHeader(kind, word) == [UpdateState("header_field") EXCEPT !.header_state = kind, !.word = word, !.index = 0]
HeaderFieldStart ==
  /\ At({"header_field_start"})
  /\ CASE ch = "CR" -> Consume(UpdateState("headers_almost_done")) /\ Quiet
       [] ch = "LF" -> Reexecute(UpdateState("headers_almost_done")) /\ Quiet
       [] ch \in Token ->
            /\ Mark("header_field")
            /\ Consume(CASE LowerOf(ch) = "c" -> NamedHeader("C", "none")
                         [] LowerOf(ch) = "p" -> NamedHeader("matching_name", "proxy_connection")
                         [] LowerOf(ch) = "t" -> NamedHeader("matching_name", "transfer_encoding")
                         [] LowerOf(ch) = "u" -> NamedHeader("matching_name", "upgrade")
                         [] OTHER -> NamedHeader("general", "none"))
       [] OTHER -> Fail("INVALID_HEADER_TOKEN")

\* The letter c of a word being matched: as the word goes on, at its end, or not.
Matched(w, i, c) == IF i + 1 > Len(w) \/ c # w[i + 1] THEN "no" ELSE IF i = Len(w) - 1 THEN "all" ELSE "so far"
NameChar(ps, c) ==
  LET i == ps.index + 1
      next == [ps EXCEPT !.index = i]
      general == [next EXCEPT !.header_state = "general", !.word = "none"]
  IN  CASE ps.header_state = "general" -> ps
        [] ps.header_state = "name" -> [ps EXCEPT !.header_state = "general", !.word = "none"]
        [] ps.header_state = "C" ->
             CASE c = "n" -> [next EXCEPT !.header_state = "matching_name", !.word = "connection"]
               [] c = "t" -> [next EXCEPT !.header_state = "matching_name", !.word = "content_length"]
               [] OTHER -> general
        [] ps.header_state = "matching_name" ->
             CASE Matched(HeaderName[ps.word], i, c) = "no" -> general
               [] Matched(HeaderName[ps.word], i, c) = "so far" -> next
               [] OTHER -> [next EXCEPT !.header_state = "name",
                              !.word = IF @ = "proxy_connection" THEN "connection" ELSE @,
                              !.uses_transfer_encoding = @ \/ ps.word = "transfer_encoding"]
        [] OTHER -> ps

HeaderFieldByte ==
  /\ At({"header_field"})
  /\ CASE ch \in Token -> Consume(NameChar(pr, LowerOf(ch))) /\ Quiet
       [] ch = ":" -> Consume(UpdateState("header_value_discard_ws")) /\ CallbackData("header_field", p - 1)
       [] OTHER -> Fail("INVALID_HEADER_TOKEN")

BeginsValue == parser.state = "header_value_start" \/ (parser.state = "header_value_discard_ws" /\ ch \notin Blank \cup Newline)
ValueDiscardWs ==
  /\ At({"header_value_discard_ws"}) /\ ch \in Blank \cup Newline
  /\ Quiet
  /\ Consume(CASE ch \in Blank -> pr
               [] ch = "CR" -> UpdateState("header_value_discard_ws_almost_done")
               [] ch = "LF" -> UpdateState("header_value_discard_lws"))

\* The words that may begin with a letter of a Connection value.
ConnectionWord == [k |-> "keep_alive", c |-> "close", u |-> "upgrade"]
Family(word) == IF word = "chunked" THEN "te_token" ELSE "connection_token"
Valued(ps, kind, word) == [ps EXCEPT !.header_state = kind, !.word = word]
ValueStart ==
  /\ At({"header_value_start", "header_value_discard_ws"}) /\ BeginsValue
  /\ LET c == LowerOf(ch)
         v == [UpdateState("header_value") EXCEPT !.index = 0]
         is(name) == v.header_state = "name" /\ v.word = name
     IN  IF is("content_length") /\ ch \notin Num THEN Fail("INVALID_CONTENT_LENGTH")
         ELSE IF is("content_length") /\ "CONTENTLENGTH" \in v.flags THEN Fail("UNEXPECTED_CONTENT_LENGTH")
         ELSE /\ Mark("header_value")
              /\ Consume(
                   CASE is("upgrade") -> [Valued(v, "general", "none") EXCEPT !.flags = @ \cup {"UPGRADE"}]
                     [] is("transfer_encoding") -> IF c = "c" THEN Valued(v, "matching_value", "chunked")
                                                              ELSE Valued(v, "te_token", "none")
                     [] is("content_length") -> [Valued(v, "content_length_num", "none") EXCEPT
                                                   !.flags = @ \cup {"CONTENTLENGTH"}, !.content_length = Value[ch]]
                     [] is("connection") -> IF c \in DOMAIN ConnectionWord
                                            THEN Valued(v, "matching_value", ConnectionWord[c])
                                            ELSE Valued(v, "connection_token", "none")
                     [] v.header_state \in {"te_start", "connection_start", "content_length_ws"} -> v
                     [] OTHER -> Valued(v, "general", "none"))

\* A character of the value; h_state tells which value it is.
ValueChar(ps, c) ==
  LET i == ps.index + 1
      next == [ps EXCEPT !.index = i]
      list(kind) == [Valued(ps, kind, "none") EXCEPT !.index = 0]
      first == IF ps.header_state = "te_start" THEN [c |-> "chunked"] ELSE ConnectionWord
      token == IF ps.header_state = "te_start" THEN "te_token" ELSE "connection_token"
  IN  CASE ps.header_state = "content_length_num" /\ c = " " -> Valued(ps, "content_length_ws", "none")
        [] ps.header_state = "content_length_num" /\ c # " " -> [ps EXCEPT !.content_length = 10 * @ + Value[c]]
        [] ps.header_state \in {"te_start", "connection_start"} ->
             CASE c \in DOMAIN first -> Valued(ps, "matching_value", first[c])
               [] c \in Token \ DOMAIN first -> Valued(ps, token, "none")
               [] c \in Blank -> ps
               [] OTHER -> Valued(ps, "general", "none")
        [] ps.header_state = "matching_value" ->
             CASE Matched(ValueWord[ps.word], i, c) = "no" -> Valued(next, Family(ps.word), "none")
               [] Matched(ValueWord[ps.word], i, c) = "so far" -> next
               [] OTHER -> Valued(next, "value", ps.word)
        [] ps.header_state = "te_token" /\ c = "," -> list("te_start")
        [] ps.header_state = "connection_token" /\ c = "," -> list("connection_start")
        [] ps.header_state = "value" /\ ps.word # "chunked" /\ c = "," ->
             [list("connection_start") EXCEPT !.flags = @ \cup {FlagOf[ps.word]}]
        [] ps.header_state = "value" /\ (ps.word = "chunked" \/ c # ",") /\ c # " " -> Valued(ps, Family(ps.word), "none")
        [] OTHER -> ps

\* The conservative test for n * base + digit.
LengthOverflows(n, base) == (ULLONG_MAX - base) \div base < n

HeaderValueByte ==
  /\ At({"header_value"})
  /\ CASE ch = "CR" -> Consume(UpdateState("header_almost_done")) /\ CallbackData("header_value", p - 1)
       [] ch = "LF" -> Reexecute(UpdateState("header_almost_done")) /\ CallbackData("header_value", p - 1)
       [] ch \notin HeaderChar -> Fail("INVALID_HEADER_TOKEN")
       [] ch \in HeaderChar \ Newline ->
            IF \/ pr.header_state = "content_length_ws" /\ ch # " "
               \/ pr.header_state = "content_length_num" /\ ch \notin Num \cup {" "}
               \/ pr.header_state = "content_length_num" /\ ch \in Num /\ LengthOverflows(pr.content_length, 10)
            THEN Fail("INVALID_CONTENT_LENGTH")
            ELSE Consume(ValueChar(pr, LowerOf(ch))) /\ Quiet

HeaderAlmostDone ==
  /\ At({"header_almost_done"})
  /\ IF ch = "LF" THEN Consume(UpdateState("header_value_lws")) /\ Quiet ELSE Fail("LF_EXPECTED")

\* What a header whose value is complete sets.
Flagged(ps) ==
  IF ps.header_state = "value" THEN [ps EXCEPT !.flags = @ \cup {FlagOf[ps.word]}] ELSE ps
HeaderValueLws ==
  /\ At({"header_value_lws"})
  /\ Quiet
  /\ IF ch \in Blank
     THEN Reexecute([UpdateState("header_value_start") EXCEPT
                       !.header_state = IF @ = "content_length_num" THEN "content_length_ws" ELSE @])
     ELSE Reexecute(Flagged(UpdateState("header_field_start")))

DiscardWsAlmostDone ==
  /\ At({"header_value_discard_ws_almost_done"})
  /\ IF ch = "LF" THEN Consume(UpdateState("header_value_discard_lws")) /\ Quiet ELSE Fail("STRICT")

\* An empty value; nothing is marked, so that the datum is empty too.
DiscardLws ==
  /\ At({"header_value_discard_lws"})
  /\ CASE ch \in Blank -> Consume(UpdateState("header_value_discard_ws")) /\ Quiet
       [] ch \notin Blank /\ pr.header_state = "name" /\ pr.word = "content_length" -> Fail("INVALID_CONTENT_LENGTH")
       [] OTHER -> Reexecute(Flagged(UpdateState("header_field_start"))) /\ call' = Event("header_value", <<>>) /\ UNCHANGED mark

-----------------------------------------------------------------------------
(* The end of the head: is there a body, and where does it end? *)
ShouldKeepAlive(ps) ==
  IF ps.http_major # "0" /\ ps.http_minor # "0" THEN "CONNECTION_CLOSE" \notin ps.flags
                                               ELSE "CONNECTION_KEEP_ALIVE" \in ps.flags
NewMessage(ps) == [ps EXCEPT !.state = IF ShouldKeepAlive(ps) THEN "start_req" ELSE "dead"]

Ambiguous(ps) == ps.uses_transfer_encoding /\ "CONTENTLENGTH" \in ps.flags

HeadersAlmostDone ==
  /\ At({"headers_almost_done"})
  /\ IF ch # "LF" THEN Fail("STRICT")
     ELSE IF "TRAILING" \in pr.flags THEN Reexecute(UpdateState("message_done")) /\ Quiet
     ELSE IF Ambiguous(pr) THEN Fail("UNEXPECTED_CONTENT_LENGTH")
     ELSE /\ Quiet
          /\ Reexecute([UpdateState("headers_done") EXCEPT
                          !.upgrade = {"UPGRADE", "CONNECTION_UPGRADE"} \subseteq pr.flags \/ pr.method = "CONNECT"])

HasBody(ps) == "CHUNKED" \in ps.flags \/ ps.content_length \notin {0, ULLONG_MAX}
HeadersDone ==
  /\ At({"headers_done"})
  /\ LET done == [parser EXCEPT !.nread = 0]
     IN  IF ch # "LF" THEN Fail("STRICT")
         ELSE IF done.upgrade /\ (done.method = "CONNECT" \/ ~ HasBody(done))
              THEN Stop(NewMessage(done)) /\ Notify("message_complete")
         ELSE IF "CHUNKED" \in done.flags THEN Consume([done EXCEPT !.state = "chunk_size_start"]) /\ Quiet
         ELSE IF done.uses_transfer_encoding
              THEN /\ parser' = [done EXCEPT !.errno = "INVALID_TRANSFER_ENCODING"] /\ run' = "return"
                   /\ UNCHANGED <<p, counted, mark, call, data, history>>
         ELSE IF HasBody(done) THEN Consume([done EXCEPT !.state = "body_identity"]) /\ Quiet
         ELSE Consume(NewMessage(done)) /\ Notify("message_complete")

\* Fault: the last byte of the body is taken for the end of the message already.
BodyLeavesOne(n) == n <= 2
\* The body ends with this byte.
BodyEnds(n) == n = 1

(* The body: the last byte is looked at twice, to complete the message. *)
BodyIdentity ==
  /\ At({"body_identity"})
  /\ LET taken == [pr EXCEPT !.content_length = @ - 1]
         from == IF mark.body = 0 THEN p ELSE mark.body
     IN  IF BodyEnds(pr.content_length)
         THEN /\ Reexecute([taken EXCEPT !.state = "message_done"])
              /\ call' = Event("body", SubSeq(data, from, p)) /\ mark' = [mark EXCEPT !.body = 0]
         ELSE Consume(taken) /\ Mark("body")

MessageDone ==
  /\ At({"message_done"})
  /\ Notify("message_complete")
  /\ IF pr.upgrade THEN Stop(NewMessage(pr)) ELSE Consume(NewMessage(pr))

ChunkSize ==
  /\ At({"chunk_size_start", "chunk_size"})
  /\ LET first == pr.state = "chunk_size_start"
     IN  CASE ch \in Num /\ first -> Consume([UpdateState("chunk_size") EXCEPT !.content_length = Value[ch]]) /\ Quiet
           [] ch \in Num /\ ~ first /\ ~ LengthOverflows(pr.content_length, 16) ->
                Consume([pr EXCEPT !.content_length = 16 * @ + Value[ch]]) /\ Quiet
           [] ch \in Num /\ ~ first /\ LengthOverflows(pr.content_length, 16) -> Fail("INVALID_CONTENT_LENGTH")
           [] ch = "CR" /\ ~ first -> Consume(UpdateState("chunk_size_almost_done")) /\ Quiet
           [] ch \in {";", " "} /\ ~ first -> Consume(UpdateState("chunk_parameters")) /\ Quiet
           [] OTHER -> Fail("INVALID_CHUNK_SIZE")

ChunkParameters ==
  /\ At({"chunk_parameters"})
  /\ Consume(IF ch = "CR" THEN UpdateState("chunk_size_almost_done") ELSE pr) /\ Quiet

ChunkSizeAlmostDone ==
  /\ At({"chunk_size_almost_done"})
  /\ IF ch # "LF" THEN Fail("STRICT")
     ELSE /\ Quiet
          /\ Consume(IF pr.content_length = 0
                     THEN [UpdateState("header_field_start") EXCEPT !.nread = 0, !.flags = @ \cup {"TRAILING"}]
                     ELSE [UpdateState("chunk_data") EXCEPT !.nread = 0])

ChunkData ==
  /\ At({"chunk_data"})
  /\ Mark("body")
  /\ Consume([pr EXCEPT !.content_length = @ - 1,
                        !.state = IF BodyEnds(pr.content_length) THEN "chunk_data_almost_done" ELSE @])

ChunkDataAlmostDone ==
  /\ At({"chunk_data_almost_done"})
  /\ IF ch = "CR" THEN Consume(UpdateState("chunk_data_done")) /\ CallbackData("body", p - 1) ELSE Fail("STRICT")

ChunkDataDone ==
  /\ At({"chunk_data_done"})
  /\ IF ch = "LF" THEN Consume([UpdateState("chunk_size_start") EXCEPT !.nread = 0]) /\ Quiet ELSE Fail("STRICT")

-----------------------------------------------------------------------------
(* The end of a read: the data still marked go to their callbacks. *)
OutOfBytes == run = "run" /\ call = NoCall /\ p = Len(data) + 1
FlushDatum(k) ==
  /\ OutOfBytes /\ mark[k] # 0
  /\ CallbackData(k, Len(data))
  /\ UNCHANGED <<parser, data, p, counted, run, history>>
EndOfRead ==
  /\ OutOfBytes /\ \A k \in DataCallbacks : mark[k] = 0
  /\ run' = "return"
  /\ UNCHANGED <<parser, data, p, counted, mark, call, history>>
\* What http_parser_execute returns, and the return itself.
Parsed == p - 1
Return ==
  /\ run = "return" /\ call = NoCall
  /\ run' = "idle" /\ data' = <<>> /\ p' = 1 /\ counted' = FALSE /\ mark' = [k \in DataCallbacks |-> 0]
  /\ UNCHANGED <<parser, call, history>>

\* The callback has returned; a datum told of in pieces is joined in the history.
Told(ev) ==
  IF heard # <<>> /\ ev.cb \in DataCallbacks /\ Last(heard).cb = ev.cb
  THEN [heard EXCEPT ![Len(heard)].at = @ \o ev.at] ELSE Append(heard, ev)
Callback ==
  /\ call # NoCall
  /\ heard' = Told(call) /\ call' = NoCall
  /\ UNCHANGED <<parser, data, p, counted, mark, run, unread, stream>>

LineByte == StartReq \/ ReqMethod \/ SpacesBeforeUrl \/ UrlChars \/ HttpStart \/ HttpWord \/ HttpVersion \/ LineEnd
FieldByte == HeaderFieldStart \/ HeaderFieldByte \/ ValueDiscardWs \/ ValueStart \/ HeaderValueByte \/ HeaderAlmostDone
          \/ HeaderValueLws \/ DiscardWsAlmostDone \/ DiscardLws
BodyByte == HeadersAlmostDone \/ HeadersDone \/ BodyIdentity \/ MessageDone \/ ChunkSize \/ ChunkParameters
        \/ ChunkSizeAlmostDone \/ ChunkData \/ ChunkDataAlmostDone \/ ChunkDataDone
Byte == HeaderOverflow \/ Dead \/ LineByte \/ FieldByte \/ BodyByte
ParserStep == Byte \/ (\E k \in DataCallbacks : FlushDatum(k)) \/ EndOfRead
Next == (\E n \in 1 .. Len(unread) : ExecuteRead(n)) \/ ParserStep \/ Callback \/ Return

Spec == Init /\ [][Next]_pvars

-----------------------------------------------------------------------------
(* Type invariant. *)
TypeOK ==
  /\ parser \in [state : States, header_state : HeaderStates, word : HeaderWords, index : Nat,
                 flags : SUBSET Flags, uses_transfer_encoding : BOOLEAN, nread : 0 .. MaxHeaderSize + 1,
                 content_length : 0 .. ULLONG_MAX, http_major : Num, http_minor : Num,
                 method : DOMAIN MethodStrings, errno : STRING, upgrade : BOOLEAN]
  /\ data \in Seq(WireBytes) /\ p \in 1 .. Len(data) + 1 /\ counted \in BOOLEAN
  /\ mark \in [DataCallbacks -> 0 .. Len(data)]
  /\ call \in [cb : DataCallbacks \cup {"none", "message_begin", "message_complete"}, at : Seq(WireBytes)]
  /\ run \in {"idle", "run", "return"} /\ unread \in Seq(WireBytes)

(* The assertions of http_parser_execute, each where the code has it; the    *)
(* build keeps them, so that one that failed would end the server.           *)
AssertionsHold ==
  /\ Looking =>
       /\ parser.state = "header_field" => parser.header_state \in {"general", "C", "matching_name", "name"}
       /\ parser.state = "header_value" => parser.header_state \notin {"name", "C", "matching_name"}
       /\ parser.state \in {"body_identity", "chunk_data"} => parser.content_length \notin {0, ULLONG_MAX}
       /\ parser.state \in ChunkHeadStates \cup ChunkBodyStates => "CHUNKED" \in parser.flags
       /\ parser.state = "chunk_size_start" => parser.nread = 0
       /\ parser.state = "chunk_data_almost_done" => parser.content_length = 0
  /\ OutOfBytes => \A k, l \in DataCallbacks : mark[k] # 0 /\ mark[l] # 0 => k = l
  /\ call # NoCall => parser.errno = "OK"

\* What the parser promises itself, whatever comes in.
ParserInv == TypeOK /\ AssertionsHold

(* The callbacks tell of what the peer sent and of nothing else, in order,   *)
(* however the bytes fall into reads: no message after the last one of a     *)
(* connection, none out of a request with two lengths, with a length that    *)
(* 64 bits do not hold, or with a spoiled head.                              *)
HeardIsExpected ==
  \E expected \in {ExpectedEvents}, n \in {Len(heard)} :
    /\ n <= Len(expected)
    /\ \A i \in 1 .. n : heard[i].cb = expected[i].cb /\ (i < n => heard[i].at = expected[i].at)
    /\ n > 0 => IsPrefix(heard[n].at, expected[n].at)

(* When all bytes are read, every request that is to be served was told of   *)
(* completely, and the parser is in error exactly when a request was refused *)
(* or followed the last one.                                                 *)
AllIsHeard ==
  run = "idle" /\ call = NoCall /\ (unread = <<>> \/ Upgraded) =>
    IF Verdict[stream].refused THEN parser.errno # "OK"
    ELSE heard = ExpectedEvents /\ (parser.errno = "OK" <=> Upgraded \/ Verdict[stream].allServed)

(* However a stream falls into reads, the callbacks tell of its requests, in  *)
(* order, whole, and of nothing else.                                        *)
HeardIsSent == HeardIsExpected /\ AllIsHeard
=============================================================================
