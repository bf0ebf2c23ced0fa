----------------------------- MODULE MCRequests -----------------------------
(* What a server makes of the bytes of a client, one part in each behaviour. *)
EXTENDS HttpParser, HttpSession, WebSocket, RequestBody, Router, JsonReader, JsonValue
CONSTANTS s1, s2
VARIABLE part
Parts == {"session", "websocket", "body", "router", "document", "value", "scalar", "parser"}

GetRequest == [method |-> "GET", url |-> <<"/", "?", "x", "=", "x">>, minor |-> "1", eol |-> <<"CR", "LF">>, lead |-> <<>>,
        connection |-> <<>>, upgrade |-> FALSE, coding |-> <<>>, lengths |-> <<>>, extra |-> <<>>,
        body |-> <<>>, junk |-> 0]
Post(length, bytes) == [GetRequest EXCEPT !.method = "POST", !.url = <<"/">>, !.lengths = <<length>>, !.body = <<bytes>>]
Chunked(codings) == [GetRequest EXCEPT !.method = "PUT", !.url = <<"/">>, !.coding = codings,
                     !.body = << <<"x", "CR">>, <<"LF">> >>]
Url(u) == [GetRequest EXCEPT !.url = u]
ExtraField(name, text) == [GetRequest EXCEPT !.extra = << <<name, text>> >>, !.url = <<"/">>]
X(n) == [i \in 1 .. n |-> "x"]

Pipelined == {
  <<Post(<<"2">>, <<"x", "G">>), Chunked(<<"chunked">>), [GetRequest EXCEPT !.lead = <<"CR", "LF">>, !.eol = <<"LF">>]>>,
  <<Post(<<"1", "1">>, X(11)), Post(<<"0">>, <<>>), [GetRequest EXCEPT !.method = "PURGE", !.url = <<"*">>]>>,
  <<[GetRequest EXCEPT !.connection = <<"keep_alive", "other">>, !.minor = "0"], [GetRequest EXCEPT !.connection = <<"other", "close">>], GetRequest>>,
  <<[GetRequest EXCEPT !.method = "HEAD", !.minor = "0"], GetRequest>>,
  <<[GetRequest EXCEPT !.minor = "9"], [GetRequest EXCEPT !.lead = <<"CR", "LF">>]>>,
  <<[Chunked(<<"chunked">>) EXCEPT !.connection = <<"upgrade">>, !.upgrade = TRUE]>>,
  <<[GetRequest EXCEPT !.connection = <<"keep_alive", "upgrade">>, !.upgrade = TRUE], GetRequest>>,
  <<[GetRequest EXCEPT !.method = "CONNECT", !.url = <<"x", ":", "1">>], GetRequest>>,
  <<Url(<<"x", ":", "/", "/", "a", "@", "x", "/", "x">>), Url(<<"/", "#", "x", "?">>), Url(<<"/", "#", "#", "x">>)>>,
  <<ExtraField("proxy_connection", <<>>), ExtraField("upgrade", <<"CR", "LF", " ", "x">>), ExtraField("proxy_connection", <<"x", "CR", "LF", " ", "x">>)>>,
  <<[Post(<<"1", " ", "CR", "LF", "HT">>, <<"x">>) EXCEPT !.url = <<"/", "?", "#">>]>> }
RefusedOnes == {
  [Post(<<"2">>, <<"x", "x">>) EXCEPT !.lengths = @ \o << <<"2">> >>],
  Post(<<"9", "9">>, <<"x", "x", "x">>),
  Post(<<>>, <<"x">>),
  [Chunked(<<"chunked">>) EXCEPT !.lengths = << <<"1">> >>],
  [Chunked(<<"other", "chunked">>) EXCEPT !.lengths = << <<"1">> >>],
  Chunked(<<"chunked", "other">>),
  Url(<<"/">> \o X(60)) }
\* One byte spoiled, except the first of a value, which the parser does not check.
Spoiled == {[ExtraField("proxy_connection", <<"x">>) EXCEPT !.junk = i] : i \in {1, 2, 4, 5, 6, 10, 12, 13, 14, 15, 17, 18, 21, 22, 24}}

Streams_ == Pipelined \cup {<<r>> : r \in RefusedOnes \cup Spoiled}
                      \cup {<<[Chunked(<<"other", "chunked">>) EXCEPT !.method = "DELETE", !.body = << <<"x">> >>], Post(<<"9", "9">>, <<"x">>)>>}

Request(minor, url, headers, body) == [minor |-> minor, url |-> url, headers |-> headers, body |-> body, upgrade |-> FALSE]
Requests_ ==
  {Request("1", "a", << <<"x", "1">> >>, "json"),
   Request("1", "b", << <<"Content-Type", "json">>, <<"x", "2">> >>, "bad"),
   Request("1", "malformed", << <<"connection", "close">>, <<"Content-Type", "json">> >>, "json"),
   Request("0", "c", << <<"x", "1">>, <<"connection", "Keep-Alive">> >>, "none"),
   Request("0", "d", <<>>, "none"),
   [Request("1", "e", << <<"x", "3">> >>, "none") EXCEPT !.upgrade = TRUE]}
MaxRequests_ == s1 :> 2 @@ s2 :> 1
\* A read ends in front of a whole string, of the body, or in the body.
Cuts_ == {<<"begin", 0>>, <<"field", 1>>, <<"value", 1>>, <<"body", 1>>, <<"body", 2>>, <<"complete", 0>>}

Frame(op, fin, length, field) == [op |-> op, fin |-> fin, length |-> length, field |-> field, masked |-> TRUE]
Frames_ ==
  {Frame(1, TRUE, 2, "none"), Frame(2, FALSE, 1, "none"), Frame(1, FALSE, 3, "Len16"), Frame(0, TRUE, 1, "Len64"), Frame(0, FALSE, 2, "none"),
   Frame(2, TRUE, 0, "none"), Frame(8, TRUE, 0, "none"), Frame(9, TRUE, 1, "none"), Frame(10, TRUE, 0, "none"),
   [Frame(1, TRUE, 1, "none") EXCEPT !.masked = FALSE]}

Boundary_ == <<"-", "b">>
Dispositions_ == [file |-> << <<"name", "file">>, <<"filename", "f">> >>, text |-> << <<"name", "text">> >>]
Plain(disposition, bytes) == [headers |-> << <<"Content-Disposition", <<disposition>>>> >>, data |-> bytes]
Typed(disposition, bytes) == [Plain(disposition, bytes) EXCEPT !.headers = << <<"Content-Type", <<"a", " ", ":">>>> >> \o @]
Datas == {<<>>, <<"a">>, <<"a", "CR", "b">>, <<"LF", "-", "-", "-", "b">>, <<"a", "CR", "LF", "-", "a">>, <<"CR", "LF", "-", "-", "-", "a">>,
          <<"a", "CR">>, <<"a", "CR", "LF">>, <<"CR", "LF", "-", "-", "-", "CR", "LF", "a">>}
Form(parts) == [preamble |-> <<>>, parts |-> parts, spoiled |-> 0]
Forms_ == {Form(<<Plain("text", d), Typed("file", e)>>) : d, e \in Datas} \cup {Form(<<Typed("text", d)>>) : d \in Datas}
            \cup {[Form(<<Plain("file", <<"a">>)>>) EXCEPT !.preamble = <<"a", "-", "CR", "LF">>]}
            \cup {[Form(<<Typed("text", <<"a", "CR", "LF", "a">>)>>) EXCEPT !.spoiled = i] : i \in 1 .. 33}
FieldOf(keys) == {[key |-> k, value |-> v, bare |-> b] : k \in keys, v \in {<<>>, <<"a">>, <<"b", "=">>}, b \in BOOLEAN}
Fields_ == UNION {[1 .. n -> FieldOf({<<"a">>, <<"b">>})] : n \in 1 .. 3}

Patterns_ == { <<"/", "a">>, <<"/", ":", "x">>, <<"/", "a", "/", ":", "y">>, <<"/", ":", "x", "/", "b">> }
GroupPrefixes_ == { <<"/", "a">>, <<"b">>, <<"/", ":", "x">> }
Paths_ == { <<"/", "a">>, <<"/", "b">>, <<"/", "a", "/", "a">>, <<"/", "a", "/", "b">>, <<"/", "b", "/", "b">>, <<"/", "a", "/", "/", "b">>,
            <<"/", "a", "/", "a", "/", "b">> }

\* [ ] { } , : "": "a": "b" 1 //a /**/ '// x; a commented element 1 //a and a whole member "":[1 ],
Closers_ == {<<93>>, <<125>>}
Lexemes_ == Closers_ \cup {<<91>>, <<123>>, <<44>>, <<58>>, <<34, 34, 58>>, <<34, 97, 34, 58>>, <<34, 98, 34>>, <<49, 32>>, <<47, 47, 97, 10>>,
                           <<47, 42, 42, 47>>, <<39, 47, 47, 10>>, <<120>>, <<49, 32, 47, 47, 97, 10>>,
                           <<34, 34, 58, 91, 49, 32, 93, 44>>}
Halves_ == {sign * m * 2 ^ e : sign \in {1, -1}, m \in 0 .. 31, e \in 0 .. 5}

RequestsInit ==
  /\ part \in Parts /\ SessionInit /\ WsInit /\ BodyInit /\ RouterInit /\ JsonInit /\ ValueInit /\ ScalarInit /\ Init
  /\ part # "parser" => stream = CHOOSE s \in Streams : TRUE
RequestsNext ==
  /\ UNCHANGED part
  /\ \/ part = "session" /\ SessionNext /\ UNCHANGED <<wsvars, bodyvars, routervars, jsonvars, valuevars, scalar, pvars>>
     \/ part = "websocket" /\ WsNext /\ UNCHANGED <<sessvars, bodyvars, routervars, jsonvars, valuevars, scalar, pvars>>
     \/ part = "body" /\ BodyNext /\ UNCHANGED <<sessvars, wsvars, routervars, jsonvars, valuevars, scalar, pvars>>
     \/ part = "router" /\ RouterNext /\ UNCHANGED <<sessvars, wsvars, bodyvars, jsonvars, valuevars, scalar, pvars>>
     \/ part = "document" /\ JsonNext /\ UNCHANGED <<sessvars, wsvars, bodyvars, routervars, valuevars, scalar, pvars>>
     \/ part = "value" /\ ValueNext /\ UNCHANGED <<sessvars, wsvars, bodyvars, routervars, jsonvars, scalar, pvars>>
     \/ part = "scalar" /\ (ScalarNext \/ Convert) /\ UNCHANGED <<sessvars, wsvars, bodyvars, routervars, jsonvars, valuevars, pvars>>
     \/ part = "parser" /\ Next /\ UNCHANGED <<sessvars, wsvars, bodyvars, routervars, jsonvars, valuevars, scalar>>
=============================================================================
