---------------------------- MODULE RequestBody ----------------------------
(***************************************************************************)
(* httprequest.cc and multipartparser.cc: what is made of the body of a    *)
(* request, and of the query of its URL.  A text is a sequence of          *)
(* characters; a name or a value that is never looked into is one          *)
(* character.  The second user of the multipart encoding is the server     *)
(* itself, in HttpSession::SendMultipart.                                  *)
(***************************************************************************)
EXTENDS Integers, Sequences, SequencesExt, FiniteSets

CONSTANTS
  Forms,         \* the multipart forms that are sent: [preamble, parts, spoiled]
  Boundary,      \* the boundary, a sequence of characters
  Dispositions,  \* [value |-> the fields of such a Content-Disposition, in order]
  Fields,        \* the url-encoded texts: sequences of [key, value, bare]
  MaxRest        \* bound of what is left of header names when a body is spoiled

ASSUME BodyAssumption == Boundary # <<>> /\ MaxRest \in Nat

VARIABLES
  header_field_temp,  \* header_field_temp: one for all requests
  last                \* the request: what was sent, what was read

bodyvars == <<header_field_temp, last>>

-----------------------------------------------------------------------------
(* multipartparser_execute, a character at a time.  q is the parser and the  *)
(* HttpRequestMultipartBody whose callbacks it calls; text is what was read  *)
(* since mark.  The constructor leaves three of the callbacks as it found    *)
(* the memory: stray is the first of them that is called and does not read   *)
(* as NULL, and nothing holds from the call of it.                           *)
NoPart == [headers |-> {}, name |-> "", filename |-> "", data |-> <<>>]
PartBegin(q) == [q EXCEPT !.parts = Append(@, NoPart)]
HeaderFieldRead(q) == [q EXCEPT !.field = @ \o q.text, !.text = <<>>]
\* find("name=\"") also finds the end of filename="
DispositionName(value) == LET d == Dispositions[value] IN IF d = <<>> THEN "" ELSE d[1][2]
Filename(value) ==
  LET d == SelectSeq(Dispositions[value], LAMBDA field : field[1] = "filename")
  IN  IF d = <<>> THEN "" ELSE d[1][2]
HeaderValueRead(q) ==
  LET disposition == q.field = <<"Content-Disposition">> /\ Len(q.text) = 1 /\ q.text[1] \in DOMAIN Dispositions
      part == q.parts[Len(q.parts)]
      named == IF ~ disposition THEN part
               ELSE [part EXCEPT !.name = DispositionName(q.text[1]), !.filename = Filename(q.text[1])]
  IN  [q EXCEPT !.parts[Len(q.parts)] =
                    [named EXCEPT !.headers = {h \in @ : h[1] # q.field} \cup {<<q.field, q.text>>}],
                !.field = <<>>, !.text = <<>>]
\* SetData: what was there is replaced.
DataRead(q, text) == [q EXCEPT !.parts[Len(q.parts)].data = text, !.text = <<>>]

Error(q) == [q EXCEPT !.state = "error"]
To(q, state) == [q EXCEPT !.state = state]
Unset == {"on_body_begin", "on_headers_complete", "on_body_end"}
CallbackNotify(q, callback, next) == IF q.stray = callback THEN To(q, "undefined") ELSE next
Expect(q, c, wanted, state) == IF c = wanted THEN To(q, state) ELSE Error(q)

FirstBoundary(q, c) ==
  CASE q.index = Len(Boundary) -> IF c = "CR" THEN [q EXCEPT !.index = @ + 1] ELSE Error(q)
    [] q.index = Len(Boundary) + 1 ->
         IF c = "LF" THEN CallbackNotify(q, "on_body_begin", To(PartBegin([q EXCEPT !.index = 0]), "header_field_start"))
         ELSE Error(q)
    [] OTHER -> IF c = Boundary[q.index + 1] THEN [q EXCEPT !.index = @ + 1] ELSE Error(q)
FieldChar(c) == c \notin {"CR", "LF", ":", " ", "="}
HeaderField(q, c) ==
  IF FieldChar(c) THEN [To(q, "header_field") EXCEPT !.text = Append(@, c)]
  ELSE Expect(IF q.text = <<>> THEN q ELSE HeaderFieldRead(q), c, ":", "header_value_start")
HeaderValue(q, c) ==
  IF c # "CR" THEN [To(q, "header_value") EXCEPT !.text = Append(@, c)]
  ELSE To(IF q.text = <<>> THEN q ELSE HeaderValueRead(q), "header_value_cr")
Data(q, c) ==
  IF c # "CR" THEN [To(q, "data") EXCEPT !.text = Append(@, c)]
  ELSE To(IF q.text = <<>> THEN q ELSE DataRead(q, q.text), "data_cr")
\* What looked like a delimiter was data: it is handed on, and c is read again.
Resume(q, text, c) == Data(DataRead(q, text), c)
\* Fault: the index of the comparison is not reset.
DataBoundaryStartKept(q, c) ==
  IF q.index < Len(Boundary) /\ c = Boundary[q.index + 1]
  THEN [To(q, "data_boundary") EXCEPT !.index = @ + 1] ELSE Resume(q, SubSeq(Boundary, 1, q.index), c)
DataBoundaryStart(q, c) ==
  IF c = Boundary[1] THEN [To(q, "data_boundary") EXCEPT !.index = 1] ELSE Resume([q EXCEPT !.index = 0], <<>>, c)
DataBoundaryDone(q, c) ==
  CASE c = "CR" -> To(q, "data_boundary_done_cr_lf") [] c = "-" -> To(q, "data_boundary_done_hy_hy") [] OTHER -> Error(q)
DataBoundary(q, c) ==
  CASE q.index = Len(Boundary) -> DataBoundaryDone([q EXCEPT !.index = 0], c)
    [] q.index < Len(Boundary) /\ c = Boundary[q.index + 1] -> [q EXCEPT !.index = @ + 1]
    [] OTHER -> Resume(q, SubSeq(Boundary, 1, q.index), c)

Step(q, c) ==
  CASE q.state = "preamble" -> To(q, IF c = "-" THEN "preamble_hy_hy" ELSE "preamble")
    [] q.state = "preamble_hy_hy" -> To(q, IF c = "-" THEN "first_boundary" ELSE "preamble")
    [] q.state = "first_boundary" -> FirstBoundary(q, c)
    [] q.state = "header_field_start" -> IF c = "CR" THEN To(q, "headers_done") ELSE HeaderField(q, c)
    [] q.state = "header_field" -> HeaderField(q, c)
    [] q.state = "header_value_start" -> IF c = " " THEN q ELSE HeaderValue(q, c)
    [] q.state = "header_value" -> HeaderValue(q, c)
    [] q.state = "header_value_cr" -> Expect(q, c, "LF", "header_field_start")
    [] q.state = "headers_done" -> IF c = "LF" THEN CallbackNotify(q, "on_headers_complete", To(q, "data")) ELSE Error(q)
    [] q.state = "data" -> Data(q, c)
    [] q.state = "data_cr" -> IF c = "LF" THEN To(q, "data_cr_lf") ELSE Resume(q, <<"CR">>, c)
    [] q.state = "data_cr_lf" -> IF c = "-" THEN To(q, "data_cr_lf_hy") ELSE Resume(q, <<"CR", "LF">>, c)
    [] q.state = "data_cr_lf_hy" ->
         IF c = "-" THEN To(q, "data_boundary_start") ELSE Resume(q, <<"CR", "LF", "-">>, c)
    [] q.state = "data_boundary_start" -> DataBoundaryStart(q, c)
    [] q.state = "data_boundary" -> DataBoundary(q, c)
    [] q.state = "data_boundary_done" -> DataBoundaryDone(q, c)
    [] q.state = "data_boundary_done_cr_lf" ->
         IF c = "LF" THEN To(PartBegin(q), "header_field_start") ELSE Error(q)
    [] q.state = "data_boundary_done_hy_hy" -> IF c = "-" THEN CallbackNotify(q, "on_body_end", To(q, "epilogue")) ELSE Error(q)
    [] OTHER -> q
\* The end of the buffer hands on what is left.
AtEnd(q) ==
  CASE q.text # <<>> /\ q.state = "header_field" -> HeaderFieldRead(q)
    [] q.text # <<>> /\ q.state = "header_value" -> HeaderValueRead(q)
    [] q.text # <<>> /\ q.state = "data" -> DataRead(q, q.text)
    [] OTHER -> q
Execute(text, stray) ==
  AtEnd(FoldLeft(Step, [state |-> "preamble", index |-> 0, text |-> <<>>, field |-> header_field_temp, parts |-> <<>>,
                        stray |-> stray], text))

-----------------------------------------------------------------------------
(* The senders of a form.                                                    *)
Dashes == <<"-", "-">>
HeaderText(headers) ==
  FlattenSeq([i \in DOMAIN headers |-> <<headers[i][1], ":", " ">> \o headers[i][2] \o <<"CR", "LF">>]) \o <<"CR", "LF">>
PartText(part) == HeaderText(part.headers) \o part.data
ClientText(form) ==
  form.preamble \o Dashes \o Boundary
  \o FlattenSeq([i \in DOMAIN form.parts |-> <<"CR", "LF">> \o PartText(form.parts[i]) \o <<"CR", "LF">> \o Dashes \o Boundary])
  \o Dashes
\* SendMultipart: the first line end of the body is the end of the header.
BeginBoundary == <<"CR", "LF">> \o Dashes \o Boundary \o <<"CR", "LF">>
EndBoundary == <<"CR", "LF">> \o Dashes \o Boundary \o Dashes
SendMultipart(parts) == FlattenSeq([i \in DOMAIN parts |-> BeginBoundary \o PartText(parts[i])]) \o EndBoundary
ContentLength(parts) ==
  FoldLeft(LAMBDA n, part : n + Len(BeginBoundary) + Len(PartText(part)), 0, parts) + Len(EndBoundary) - 2

-----------------------------------------------------------------------------
(* Url-encoded texts: HttpRequestFormBody::SetData, of which the first value *)
(* of a key stays, and the query in handleURL, of which the last one stays.  *)
(* A name without a value that is not at the end makes a string of negative  *)
(* length, which throws.                                                     *)
UrlText(fields) ==
  LET text(f) == f.key \o (IF f.bare THEN <<>> ELSE <<"=">> \o f.value)
  IN  FlattenSeq([k \in DOMAIN fields |-> IF k = 1 THEN text(fields[k]) ELSE <<"&">> \o text(fields[k])])
Split(text) ==
  LET ends == SetToSortSeq({i \in DOMAIN text : text[i] = "&"} \cup {Len(text) + 1}, <)
      begin(k) == IF k = 1 THEN 1 ELSE ends[k - 1] + 1
  IN  [k \in DOMAIN ends |-> SubSeq(text, begin(k), ends[k] - 1)]
\* The first one, or the end of the field.
Equal(field) == FoldRight(LAMBDA i, m : IF field[i] = "=" THEN i ELSE m, [i \in DOMAIN field |-> i], Len(field) + 1)
Pair(field) == <<SubSeq(field, 1, Equal(field) - 1), SubSeq(field, Equal(field) + 1, Len(field))>>
Assign(pairs, pair) == {p \in pairs : p[1] # pair[1]} \cup {pair}
\* Fault: a later value of a key replaces the first one.
EmplaceAnyway(pairs, pair) == Assign(pairs, pair)
Emplace(pairs, pair) == IF \E p \in pairs : p[1] = pair[1] THEN pairs ELSE pairs \cup {pair}
\* keep: a key keeps its first value.
ReadFields(text, keep) ==
  LET fields == Split(text)
      read(q, k) ==
        CASE q.result # "ok" -> q
          [] q.result = "ok" /\ Equal(fields[k]) > Len(fields[k]) ->
               [q EXCEPT !.result = IF k < Len(fields) THEN "throws" ELSE "refused"]
          [] OTHER -> [q EXCEPT !.pairs = IF keep THEN Emplace(@, Pair(fields[k])) ELSE Assign(@, Pair(fields[k]))]
  IN  FoldLeft(read, [result |-> "ok", pairs |-> {}], [k \in DOMAIN fields |-> k])
FormData(text) == ReadFields(text, TRUE)
Query(text) == IF text = <<>> THEN [result |-> "ok", pairs |-> {}] ELSE ReadFields(text, FALSE)

-----------------------------------------------------------------------------
(* ParseBody, by the content type.  Whether the parser read all of the body  *)
(* decides whether the request is handed on.                                 *)
NothingRead == [from |-> "none", form |-> [parts |-> <<>>], fields |-> <<>>, length |-> 0, fresh |-> TRUE, ok |-> TRUE, parts |-> <<>>,
                defined |-> TRUE]
ReadMultipart(form, from, text) ==
  \E stray \in Unset \cup {"none"} : \E q \in {Execute(text, stray)} :
    /\ header_field_temp' = q.field
    /\ last' = [NothingRead EXCEPT !.from = from, !.form = form, !.length = Len(text), !.fresh = header_field_temp = <<>>,
                                   !.ok = q.state # "error", !.parts = q.parts, !.defined = q.state # "undefined"]
\* A character of the text may be spoiled.
MultipartRequest(form) ==
  IF form.spoiled = 0 THEN ReadMultipart(form, "client", ClientText(form))
  ELSE Len(header_field_temp) <= MaxRest /\ ReadMultipart(form, "broken", [ClientText(form) EXCEPT ![form.spoiled] = "="])
\* The answer of SendMultipart, read by a peer that uses the same code.
MultipartAnswer(form) ==
  /\ form.spoiled = 0 /\ form.preamble = <<>>
  /\ ReadMultipart(form, "server", SubSeq(SendMultipart(form.parts), 3, Len(SendMultipart(form.parts))))
UrlEncoded(fields) == last' = [NothingRead EXCEPT !.from = "text", !.fields = fields] /\ UNCHANGED header_field_temp

BodyInit == header_field_temp = <<>> /\ last = NothingRead
\* The request is destroyed; the next one may come from anyone.
NextRequest == last # NothingRead /\ last.defined /\ last' = NothingRead /\ UNCHANGED header_field_temp
BodyNext ==
  \/ NextRequest
  \/ /\ last = NothingRead
     /\ \/ \E form \in Forms : MultipartRequest(form) \/ MultipartAnswer(form)
        \/ \E fields \in Fields : UrlEncoded(fields)
BodySpec == BodyInit /\ [][BodyNext]_bodyvars

-----------------------------------------------------------------------------
Sent(i) == last.form.parts[i]
Named(headers) == {k \in DOMAIN headers : headers[k][1] = "Content-Disposition"}
(* The handler finds the parts of a form in order, with their headers and    *)
(* the name that it asks for, and of the data at least the end, all of it    *)
(* if it has no CR; the server announces the length that it sends; and no    *)
(* piece of a header name is left for the next request.  Unless the request  *)
(* before it broke off in a header name, which all requests share, or one of *)
(* the callbacks that are not set was called.                                *)
PartsAsSent ==
  last.from \in {"client", "server"} /\ last.fresh /\ last.defined =>
    /\ last.ok /\ Len(last.parts) = Len(last.form.parts) /\ header_field_temp = <<>>
    /\ last.from = "server" => last.length = ContentLength(last.form.parts)
    /\ \A i \in DOMAIN last.parts :
         /\ last.parts[i].headers = {<< <<h[1]>>, h[2]>> : h \in ToSet(Sent(i).headers)}
         /\ \A k \in Named(Sent(i).headers) :
              <<"name", last.parts[i].name>> \in ToSet(Dispositions[Sent(i).headers[k][2][1]])
         /\ IsSuffix(last.parts[i].data, Sent(i).data)
         /\ "CR" \notin ToSet(Sent(i).data) => last.parts[i].data = Sent(i).data

(* The example of README.md stores what BinaryValue returns as the file that *)
(* was uploaded.                                                             *)
UploadIsWhole ==
  last.from = "client" /\ last.fresh /\ last.defined => \A i \in DOMAIN last.parts : last.parts[i].data = Sent(i).data

Bare == {k \in DOMAIN last.fields : last.fields[k].bare}
KeyValue(k) == <<last.fields[k].key, last.fields[k].value>>
Chosen(Before(_, _)) ==
  {KeyValue(k) : k \in {j \in DOMAIN last.fields :
                          \A i \in DOMAIN last.fields : last.fields[i].key = last.fields[j].key => i = j \/ Before(j, i)}}
(* A form keeps the first value of a key and a query the last one, and a    *)
(* text with a name that has no value is never read without notice.         *)
FieldsAsSent ==
  last.fields # <<>> =>
    LET form == FormData(UrlText(last.fields))
        query == Query(UrlText(last.fields))
    IN  IF Bare # {} THEN form.result # "ok" /\ query.result # "ok"
        ELSE /\ form = [result |-> "ok", pairs |-> Chosen(<)]
             /\ query = [result |-> "ok", pairs |-> Chosen(>)]
(* What a handler finds of a body or a query is what the client sent, in both *)
(* kinds of body.                                                             *)
BodyIsAsSent == PartsAsSent /\ FieldsAsSent
=============================================================================
