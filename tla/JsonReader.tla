----------------------------- MODULE JsonReader -----------------------------
(***************************************************************************)
(* OurReader of json_reader.cc with the defaults of CharReaderBuilder, as  *)
(* HttpRequestJsonBody::Parse uses it, and what it reads of a document     *)
(* that BuiltStyledStreamWriter wrote.  A document grows by one lexeme     *)
(* when the reader asks for more, and ends when its author says so.        *)
(***************************************************************************)
EXTENDS JsonWriter

CONSTANTS
  Lexemes,       \* the pieces of a document, none of which the next one can extend
  Closers,       \* those of them that come while the reader recovers from an error
  MaxLexemes,    \* bound of the document
  StackLimit     \* features_.stackLimit_: 1000 in the code

ASSUME JsonReaderAssumption == MaxLexemes \in Nat /\ StackLimit \in Nat /\ Closers \subseteq Lexemes

VARIABLES
  doc,           \* the document: [text, lexemes, open]
  reader,        \* OurReader, and its results
  written        \* history: the tree that doc was written from, and how; [cs |-> "no"] for none

jsonvars == <<doc, reader, written>>

-----------------------------------------------------------------------------
\* The members of OurReader: nodes_ is the path and its prefixes, frames the
\* calls of readObject and readArray; lastValueEnd_ is -1 for nullptr.
Node(type) == [type |-> type, value |-> <<>>, before |-> <<>>, same |-> <<>>, after |-> <<>>, start |-> 0, limit |-> 0]
NewReader ==
  [current |-> 0, frames |-> <<>>, path |-> <<>>, step |-> "value", tree |-> (<<>> :> Node("null")),
   commentsBefore_ |-> <<>>, lastValueEnd_ |-> -1, lastValue_ |-> <<>>]
Throws(r) == [r EXCEPT !.step = "threw"]

NormalizeEOL(text) ==
  FoldLeft(LAMBDA normalized, i :
             CASE text[i] = CR -> Append(normalized, LF)
               [] text[i] = LF /\ i > 1 /\ ByteAt(text, i - 2) = CR -> normalized
               [] OTHER -> Append(normalized, text[i]),
           <<>>, [i \in DOMAIN text |-> i])
ContainsNewLine(begin, end) == \E i \in begin + 1 .. end : doc.text[i] \in {CR, LF}
\* setComment drops a last newline and throws for what begins without a slash.
SetComment(r, path, placement, comment) ==
  LET stripped == IF Last(comment) = LF THEN SubSeq(comment, 1, Len(comment) - 1) ELSE comment
  IN  IF (stripped = <<>>) \/ ByteAt(stripped, 0) # Slash THEN Throws(r)
      ELSE [r EXCEPT !.tree[path] = CASE placement = "before" -> [@ EXCEPT !.before = stripped]
                                      [] placement = "same" -> [@ EXCEPT !.same = stripped]
                                      [] placement = "after" -> [@ EXCEPT !.after = stripped]]
OnSameLine(r, t) ==
  /\ r.lastValueEnd_ # -1 /\ ~ ContainsNewLine(r.lastValueEnd_, t.start)
  /\ doc.text[t.start + 2] = Star => ~ ContainsNewLine(t.start, t.end)
\* readComment and addComment: what a comment token leaves behind.
AddComment(r, t) ==
  LET normalized == NormalizeEOL(SubSeq(doc.text, t.start + 1, t.end))
  IN  IF t.type # "comment" \/ r.step = "threw" THEN r
      ELSE IF OnSameLine(r, t) THEN SetComment(r, r.lastValue_, "same", normalized)
      ELSE [r EXCEPT !.commentsBefore_ = @ \o normalized]
\* The tokens from current up to the first that is not a comment, or closes.
TokensFrom(i, closer) ==
  LET tokens[k \in 0 .. Len(doc.text)] ==
        CHOOSE all \in {IF t.type = "end" \/ t.type = closer \/ (closer = "none" /\ t.type # "comment") THEN <<t>> ELSE <<t>> \o tokens[t.end] :
                        t \in {ReadToken(doc.text, k)}} : TRUE
  IN  tokens[i]
ReadTokens(r, tokens) ==
  [r |-> [FoldLeft(AddComment, r, tokens) EXCEPT !.current = Last(tokens).end], token |-> Last(tokens), comments |-> Len(tokens) > 1]
\* skipCommentTokens
SkipComments(r) == ReadTokens(r, TokensFrom(r.current, "none"))
\* readToken: a comment is a token too.
OneToken(r) == ReadTokens(r, <<ReadToken(doc.text, r.current)>>)

-----------------------------------------------------------------------------
\* Fault: the elements of the value before stay.
CutNothing(tree, path) == tree
Cut(tree, path) == [p \in {p \in DOMAIN tree : ~ IsStrictPrefix(path, p)} |-> tree[p]]
\* swapPayload of a new value: the comments stay.
Put(r, type, value, t) ==
  [r EXCEPT !.tree = [Cut(@, r.path) EXCEPT ![r.path] = [@ EXCEPT !.type = type, !.value = value, !.start = t.start, !.limit = t.end]]]
\* nodes_.push and readValue of a place of the current value; operator[] keeps what is there.
PushNode(r, path) == [r EXCEPT !.path = path, !.step = "value", !.tree = @ @@ (path :> Node("null"))]
Returns(r, ok) == [r EXCEPT !.step = IF r.step = "threw" THEN "threw" ELSE IF ok THEN "separator" ELSE "recover",
                            !.path = IF r.path = <<>> THEN <<>> ELSE SubSeq(r.path, 1, Len(r.path) - 1)]
\* The end of readValue: lastValue_ is the value, whether it could be read or not.
EndValue(r, ok) == [Returns(r, ok) EXCEPT !.lastValueEnd_ = r.current, !.lastValue_ = r.path]
\* readObject and readArray return to readValue.
EndContainer(r, ok) ==
  LET path == Last(r.frames).path
      limited == [r EXCEPT !.tree[path].limit = r.current, !.path = path, !.frames = SubSeq(@, 1, Len(@) - 1)]
  IN  EndValue(limited, ok)
Open(r, type, t) ==
  [Put(r, type, <<>>, [t EXCEPT !.end = r.tree[r.path].limit]) EXCEPT !.frames = Append(@, [path |-> r.path, name |-> <<>>])]
Refuses(r, t) == Returns([r EXCEPT !.tree[r.path] = [@ EXCEPT !.start = t.start, !.limit = t.end]], FALSE)

\* The value of a token, a string without its quotes; decodeNumber or decodeString.
Decoded(t) ==
  LET text == SubSeq(doc.text, t.start + 1, t.end)
      string == DecodeString(Inner(text))
  IN  CASE t.type = "number" -> DecodeNumber(text)
        [] t.type = "string" -> IF string.ok THEN [type |-> "string", value |-> string.text] ELSE [type |-> "error"]
        [] OTHER -> [type |-> t.type, value |-> <<>>]
\* commentsBefore_ goes to the value that comes.
TakeComments(r) ==
  IF r.commentsBefore_ = <<>> THEN r ELSE [SetComment(r, r.path, "before", r.commentsBefore_) EXCEPT !.commentsBefore_ = <<>>]
Goes(r) == reader' = r /\ UNCHANGED <<doc, written>>
\* The value behind the token t; an array looks whether it is empty.
ValueOf(r, t, v, next) ==
  CASE r.step = "threw" -> r
    [] r.step # "threw" /\ t.type = "{" -> [Open(r, "object", t) EXCEPT !.step = "name"]
    [] r.step # "threw" /\ t.type = "[" -> IF ByteAt(doc.text, next) = 93 THEN EndContainer([Open(r, "array", t) EXCEPT !.current = next + 1], TRUE)
                                          ELSE PushNode(Open(r, "array", t), Append(r.path, <<0>>))
    [] r.step # "threw" /\ t.type \in {"number", "string", "null", "true", "false"} ->
         EndValue(IF v.type = "error" THEN r ELSE Put(r, v.type, v.value, t), v.type # "error")
    [] OTHER -> Refuses(r, t)
ReadValue ==
  /\ reader.step = "value"
  /\ IF Len(reader.path) + 1 > StackLimit THEN Goes(Throws(reader))
     ELSE \E q \in {SkipComments(reader)} :
            Goes(ValueOf(TakeComments(q.r), q.token, Decoded(q.token), SkipSpaces(doc.text, q.token.end)))

\* readObject: a name and its colon.
Recovers(r) == [r EXCEPT !.step = IF @ = "threw" THEN "threw" ELSE "recover"]
PushMember(r, frame, name) == PushNode([r EXCEPT !.frames = Front(@) \o <<[frame EXCEPT !.name = name]>>], Append(frame.path, name))
ReadName ==
  /\ reader.step = "name"
  /\ \E frame \in {Last(reader.frames)}, q \in {SkipComments(reader)} : \E v \in {Decoded(q.token)} :
       CASE q.token.type = "}" /\ frame.name = <<>> -> Goes(EndContainer(q.r, q.r.step # "threw"))
         [] q.token.type = "string" /\ v.type # "error" ->
              \E colon \in {OneToken(q.r)} :
                Goes(IF colon.token.type # ":" \/ colon.r.step = "threw" THEN Recovers(colon.r) ELSE PushMember(colon.r, frame, v.value))
         [] OTHER -> Goes(Recovers(q.r))
\* Fault: what stands behind a comment is looked at like any separator.
IsCommaStrict(q) == q.token.type = ","
\* Behind a comment any token but the closing one stands for the comma of an object.
IsComma(q) == q.token.type = "," \/ q.comments
InArray(frame) == reader.tree[frame.path].type = "array"
Closer == IF InArray(Last(reader.frames)) THEN "]" ELSE "}"
ReadSeparator ==
  /\ reader.step = "separator" /\ reader.frames # <<>>
  /\ \E frame \in {Last(reader.frames)}, q \in {SkipComments(reader)} :
       Goes(CASE q.token.type = Closer -> EndContainer(q.r, q.r.step # "threw")
              [] q.token.type # Closer /\ q.r.step = "threw" -> q.r
              [] InArray(frame) /\ q.token.type = "," /\ q.r.step # "threw" ->
                   PushNode(q.r, Append(frame.path, <<Cardinality(Children(reader.tree, frame.path))>>))
              [] ~ InArray(frame) /\ q.token.type # "}" /\ IsComma(q) /\ q.r.step # "threw" -> [q.r EXCEPT !.step = "name"]
              [] OTHER -> Recovers(q.r))
\* recoverFromError: what closes the container of the error, or the end.
Recover ==
  /\ reader.step = "recover" /\ reader.frames # <<>>
  /\ \E q \in {ReadTokens(reader, TokensFrom(reader.current, Closer))} : Goes(EndContainer(q.r, FALSE))
\* parse, behind the root value: one more token, and the comments before it.
Finish ==
  /\ reader.step \in {"separator", "recover"} /\ reader.frames = <<>>
  /\ \E q \in {SkipComments(reader)} :
     \E r \in {IF q.r.step = "threw" \/ q.r.commentsBefore_ = <<>> THEN q.r ELSE SetComment(q.r, <<>>, "after", q.r.commentsBefore_)} :
       Goes(IF r.step = "threw" THEN r ELSE [r EXCEPT !.step = IF reader.step = "separator" THEN "accepted" ELSE "refused"])

Reading == reader.step \notin {"accepted", "refused", "threw"}
\* At the end of a document that is still open the reader waits for its tokens.
Waits ==
  LET tokens == TokensFrom(reader.current, IF reader.step = "recover" /\ reader.frames # <<>> THEN Closer ELSE "none")
      last == Last(tokens)
  IN  /\ doc.open /\ Reading
      /\ \/ last.type = "end"
         \/ reader.step = "value" /\ last.type = "[" /\ SkipSpaces(doc.text, last.end) = Len(doc.text)
         \/ reader.step = "name" /\ last.type = "string" /\ ReadToken(doc.text, last.end).type = "end"
Extend(lexeme) ==
  /\ Waits /\ doc.lexemes < MaxLexemes
  /\ reader.step = "recover" => lexeme \in Closers
  /\ doc' = [doc EXCEPT !.text = @ \o lexeme, !.lexemes = @ + 1]
  /\ UNCHANGED <<reader, written>>
EndDocument ==
  /\ Waits /\ doc' = [doc EXCEPT !.open = FALSE] /\ UNCHANGED <<reader, written>>
\* The program writes what it read, and somebody reads that.
WriteDocument(cs) ==
  /\ reader.step = "accepted" /\ written.cs = "no"
  /\ written' = [cs |-> cs, tree |-> reader.tree]
  /\ doc' = [text |-> Write(reader.tree, cs), lexemes |-> 0, open |-> FALSE]
  /\ reader' = NewReader

JsonInit == doc = [text |-> <<>>, lexemes |-> 0, open |-> TRUE] /\ reader = NewReader /\ written = [cs |-> "no"]
JsonNext ==
  \/ ~ Waits /\ (ReadValue \/ ReadName \/ ReadSeparator \/ Recover \/ Finish)
  \/ EndDocument \/ \E lexeme \in Lexemes : Extend(lexeme)
  \/ \E cs \in CommentStyles : WriteDocument(cs)
JsonSpec == JsonInit /\ [][JsonNext]_jsonvars

-----------------------------------------------------------------------------
(* What a document is by the grammar: the tokens but for the comments, each   *)
(* with a mark whether a comment stands before it.                            *)
Tokens ==
  LET from[i \in 0 .. Len(doc.text), commented \in BOOLEAN] ==
        LET t == ReadToken(doc.text, i)
        IN  CASE t.type = "comment" -> from[t.end, TRUE]
              [] t.type = "end" -> << <<"end", commented, FALSE, FALSE>> >>
              [] OTHER -> << <<t.type, commented, Decoded(t).type # "error", t.end - t.start = 2>> >> \o from[t.end, FALSE]
  IN  from[0, FALSE]
(* The index behind the value at i, 0 if there is none.  It is JSON with two   *)
(* liberties of the reader: an object may end behind the comma that follows   *)
(* an empty name, and any token behind a comment is a comma in an object; and *)
(* with one restriction, an empty array holds no comment.                     *)
ValueEnd(tokens) ==
  LET type(i) == IF i \in DOMAIN tokens THEN tokens[i][1] ELSE "end"
      parse[what \in {"value", "elements", "members", "members behind an empty name"}, i \in 1 .. Len(tokens) + 3, depth \in 0 .. StackLimit] ==
        LET v == IF what = "elements" THEN parse["value", i, depth] ELSE parse["value", i + 2, depth]
            more == type(v) = "," \/ tokens[v][2]
        IN  CASE what = "value" ->
                   CASE depth = StackLimit -> 0
                     [] depth < StackLimit /\ type(i) = "[" ->
                          IF type(i + 1) = "]" /\ ~ tokens[i + 1][2] THEN i + 2 ELSE parse["elements", i + 1, depth + 1]
                     [] depth < StackLimit /\ type(i) = "{" -> parse["members behind an empty name", i + 1, depth + 1]
                     [] depth < StackLimit /\ type(i) \in {"string", "number", "null", "true", "false"} /\ tokens[i][3] -> i + 1
                     [] OTHER -> 0
              [] what = "elements" ->
                   CASE v # 0 /\ type(v) = "]" -> v + 1 [] v # 0 /\ type(v) = "," -> parse["elements", v + 1, depth] [] OTHER -> 0
              [] OTHER ->
                   CASE what # "members" /\ type(i) = "}" -> i + 1
                     [] type(i) = "string" /\ tokens[i][3] /\ type(i + 1) = ":" /\ ~ tokens[i + 1][2] /\ v # 0 ->
                          CASE type(v) = "}" -> v + 1
                            [] type(v) # "}" /\ more -> parse[IF tokens[i][4] THEN "members behind an empty name" ELSE "members", v + 1, depth]
                            [] OTHER -> 0
                     [] OTHER -> 0
  IN  parse["value", 1, 0]
Apostrophes == \E i \in DOMAIN doc.text : doc.text[i] = Apostrophe
(* The reader accepts exactly the documents that begin with a value of the    *)
(* grammar above, nested no deeper than stackLimit_, whatever order of        *)
(* errors, recoveries and comments it goes through; an exception ends it only *)
(* in a document that is too deep or that has an apostrophe outside a string. *)
ReadsJson ==
  ~ Reading /\ written.cs = "no" =>
    /\ reader.step = "accepted" => ValueEnd(Tokens) # 0
    /\ ValueEnd(Tokens) # 0 /\ ~ Apostrophes => reader.step = "accepted"
    /\ reader.step = "threw" /\ ~ Apostrophes => Len(reader.path) >= StackLimit
(* What the reader made of a document, the writer writes so that the reader   *)
(* makes the same of it: all values, and their comments if they are written.  *)
WrittenReadsBack ==
  ~ Reading /\ written.cs # "no" =>
    /\ reader.step = "accepted" /\ DOMAIN reader.tree = DOMAIN written.tree
    /\ \A p \in DOMAIN reader.tree :
         LET is == reader.tree[p]
             was == written.tree[p]
         IN  /\ is.type = was.type /\ is.value = was.value
             /\ written.cs = "All" => is.before = was.before /\ is.same = was.same /\ is.after = was.after
(* The value that a late comment goes to is one of the document, and the      *)
(* offsets of a value lie within those of its parent and beside its siblings. *)
ValuesArePlaced ==
  /\ reader.lastValue_ \in DOMAIN reader.tree
  /\ reader.step = "accepted" =>
       \A p \in DOMAIN reader.tree : \A c \in Children(reader.tree, p) :
         LET is == reader.tree[c]
         IN  /\ reader.tree[p].start < is.start /\ is.start < is.limit /\ is.limit < reader.tree[p].limit
             /\ \A d \in Children(reader.tree, p) \ {c} : is.limit <= reader.tree[d].start \/ reader.tree[d].limit <= is.start
(* The verdict on a document and the tree that stands behind it.              *)
DocumentIsRead == ReadsJson /\ ValuesArePlaced
=============================================================================
