------------------------------ MODULE Response ------------------------------
(***************************************************************************)
(* The answers of a handler: Context::STRING, JSON, FILE and MULTIPART     *)
(* through HttpSession::SendString, SendJson, SendFile and SendMultipart,  *)
(* with the headers of HttpResponse and the parts of httprequest.cc, as    *)
(* the bytes a client of the connection reads.  A byte is a number; a word *)
(* (a name, a type, the digits of a length) is one byte here.  SendBuffer  *)
(* says how the bytes get through the socket.                              *)
(***************************************************************************)
EXTENDS Integers, Sequences, SequencesExt

CONSTANTS
  Answers,     \* what handlers answer with: [kind, code, ...]
  MaxAnswers,  \* bound of the answers on a connection
  INT_MAX      \* the largest int, in which SendMultipart adds up

ASSUME ResponseAssumption == MaxAnswers \in Nat /\ INT_MAX \in Nat

VARIABLES
  stream_,  \* the bytes handed to the connection
  answers,  \* history: the answers that were sent
  aborted   \* an assertion on a file failed

respvars == <<stream_, answers, aborted>>

CR == 13
LF == 10
Dash == 45
Dot == 46
Slash == 47
CRLF == <<CR, LF>>
Dashes == <<Dash, Dash>>
HTTP == 100
ContentType == 101
ContentLength == 102
ContentDisposition == 103
BoundaryText == 104
\* std::to_string: one byte for the digits.
Digits(n) == <<1000 + n>>

-----------------------------------------------------------------------------
(* HttpResponse, and what the four answers are made of.                      *)
SetStatusCode(code) == <<HTTP>> \o Digits(code) \o CRLF
SetHeader(key, value) == <<key>> \o value \o CRLF
Header(code, type, more, length) ==
  SetStatusCode(code) \o SetHeader(ContentType, <<type>>) \o more \o SetHeader(ContentLength, Digits(length))

\* A file of no bytes cannot be mapped: assert(dp->zero_copy_data_ != MAP_FAILED).
FileFails(file) == ~ file.exists \/ file.data = <<>>
\* What follows the last c, the whole path when there is none.
Behind(path, c) ==
  LET places == {0} \cup {i \in DOMAIN path : path[i] = c}
  IN  SubSeq(path, 1 + (CHOOSE i \in places : \A j \in places : j <= i), Len(path))
\* The name a download gets: filename, or what follows the last / of the path.
FileName(file) ==
  IF file.name # <<>> \/ Slash \notin {file.path[i] : i \in DOMAIN file.path} THEN file.name ELSE Behind(file.path, Slash)
\* filetypes: jpeg jpg png gif mp3 mp4 txt html pdf doc docx zip gzip are words
\* of their own, upper case 20 above, and the types stand 100 above.
FileTypes == [w \in 300 .. 312 |-> IF w = 301 THEN 400 ELSE IF w = 310 THEN 409 ELSE w + 100]
ToLower(w) == IF w \in 320 .. 332 THEN w - 20 ELSE w
FileType(file) ==
  LET suffix == Behind(file.path, Dot)
  IN  IF Len(suffix) = 1 /\ ToLower(suffix[1]) \in DOMAIN FileTypes THEN FileTypes[ToLower(suffix[1])] ELSE 499

HeaderStr(p) == FlattenSeq([i \in DOMAIN p.headers |-> SetHeader(p.headers[i][1], p.headers[i][2])]) \o CRLF
BeginBoundary == CRLF \o Dashes \o <<BoundaryText>> \o CRLF
EndBoundary == CRLF \o Dashes \o <<BoundaryText>> \o Dashes
Multipart(parts) ==
  FlattenSeq([i \in DOMAIN parts |-> BeginBoundary \o HeaderStr(parts[i]) \o parts[i].data]) \o EndBoundary
ToInt(n) == ((n + INT_MAX + 1) % (2 * (INT_MAX + 1))) - (INT_MAX + 1)
PartsSize(parts) ==
  FoldLeft(LAMBDA total, p : ToInt(total + Len(BeginBoundary) + Len(HeaderStr(p)) + Len(p.data)), 0, parts)
\* Fault: the first line end, which closes the headers, is counted.
TotalSizeWithHeaderEnd(parts) == ToInt(PartsSize(parts) + Len(EndBoundary))
TotalSize(parts) == ToInt(PartsSize(parts) + Len(EndBoundary) - 2)

-----------------------------------------------------------------------------
(* The handlers; HttpSession::Send hands the packets over in one call.       *)
SendAnswer(a, bytes) ==
  /\ Len(answers) < MaxAnswers /\ ~ aborted
  /\ stream_' = stream_ \o bytes /\ answers' = Append(answers, a) /\ UNCHANGED aborted
Abort == ~ aborted /\ aborted' = TRUE /\ UNCHANGED <<stream_, answers>>

SendString(a) == a.kind = "string" /\ SendAnswer(a, Header(a.code, 420, <<>>, Len(a.data)) \o CRLF \o a.data)
SendJson(a) == a.kind = "json" /\ SendAnswer(a, Header(a.code, 421, <<>>, Len(a.data)) \o CRLF \o a.data)
SendFile(a) ==
  /\ a.kind = "file"
  /\ IF FileFails(a.file) THEN Abort
     ELSE SendAnswer(a, Header(a.code, FileType(a.file), SetHeader(ContentDisposition, FileName(a.file)), Len(a.file.data))
                    \o CRLF \o a.file.data)
\* The first boundary brings the line end that closes the headers.
SendMultipart(a) ==
  /\ a.kind = "multipart"
  /\ IF \E i \in DOMAIN a.parts : a.parts[i].fd > 0 /\ a.parts[i].data = <<>> THEN Abort
     ELSE SendAnswer(a, Header(a.code, 422, <<>>, TotalSize(a.parts)) \o Multipart(a.parts))

ResponseInit == stream_ = <<>> /\ answers = <<>> /\ aborted = FALSE
ResponseNext == \E a \in Answers : SendString(a) \/ SendJson(a) \/ SendFile(a) \/ SendMultipart(a)
ResponseSpec == ResponseInit /\ [][ResponseNext]_respvars

-----------------------------------------------------------------------------
(* A client reads the answers one behind the other: a header up to an empty  *)
(* line, and as many bytes as it says.  What it reads is what the handlers   *)
(* answered, with every part of a multipart body between its boundaries, as  *)
(* long as the parts are no longer than an int can say.                      *)
Finds(s, text) == {i \in 1 .. Len(s) - Len(text) + 1 : SubSeq(s, i, i + Len(text) - 1) = text}
FirstOf(S) == CHOOSE i \in S : \A j \in S : i <= j
Told(head) == LET at == Finds(head, <<ContentLength>>) IN IF at = {} THEN -1 ELSE head[1 + FirstOf(at)] - 1000
RECURSIVE ClientReads(_)
ClientReads(s) ==
  LET ends == Finds(s, CRLF \o CRLF)
      body == FirstOf(ends) + 4
      length == Told(SubSeq(s, 1, FirstOf(ends)))
  IN  IF s = <<>> \/ ends = {} THEN <<>>
      ELSE IF length \notin 0 .. Len(s) - body + 1 THEN <<>>
      ELSE << SubSeq(s, body, body + length - 1) >> \o ClientReads(SubSeq(s, body + length, Len(s)))

\* The header and the data of the parts of a body, a byte 0 when it is cut.
PartsOf(body) ==
  LET s == CRLF \o body
      delimiter == CRLF \o Dashes \o <<BoundaryText>>
      places == SetToSortSeq(Finds(s, delimiter), <)
      part(i) == SubSeq(s, places[i] + 7, places[i + 1] - 1)
      blank(p) == FirstOf(Finds(CRLF \o p, CRLF \o CRLF))
  IN  IF places = <<>> \/ SubSeq(s, places[Len(places)] + 5, Len(s)) # Dashes THEN << [header |-> <<>>, data |-> <<0>>] >>
      ELSE [i \in 1 .. Len(places) - 1 |->
              [header |-> SubSeq(part(i), 1, blank(part(i)) - 1),
               data |-> SubSeq(part(i), blank(part(i)) + 2, Len(part(i)))]]
Answered(a, read) ==
  CASE a.kind \in {"string", "json"} -> read = a.data
    [] a.kind = "file" -> read = a.file.data
    [] a.kind = "multipart" ->
         PartsOf(read) = [i \in DOMAIN a.parts |->
           [header |-> FlattenSeq([k \in DOMAIN a.parts[i].headers |-> SetHeader(a.parts[i].headers[k][1], a.parts[i].headers[k][2])]),
            data |-> a.parts[i].data]]
AnswersAreRead ==
  (\A i \in DOMAIN answers : answers[i].kind = "multipart" => Len(Multipart(answers[i].parts)) <= INT_MAX)
    => LET read == ClientReads(stream_)
       IN  Len(read) = Len(answers) /\ \A i \in DOMAIN answers : Answered(answers[i], read[i])
=============================================================================
