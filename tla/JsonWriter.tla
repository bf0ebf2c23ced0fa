----------------------------- MODULE JsonWriter -----------------------------
(***************************************************************************)
(* BuiltStyledStreamWriter of json_writer.cc, as StreamWriterBuilder makes *)
(* it by default (indentation "\t", no ending line feed).  A document is a *)
(* tree: a function from paths to nodes [type, value, before, same, after],*)
(* the last three its comments.  A path is a sequence of keys, the key of  *)
(* a member its name and that of an element its index.                     *)
(***************************************************************************)
EXTENDS JsonText

CONSTANT rightMargin_  \* 74 in the code
ASSUME JsonWriterAssumption == rightMargin_ \in Nat

CommentStyles == {"All", "None"}

\* CZString::operator<: bytes first, then the length; indices by their number.
CompareKeys(a, b) ==
  LET differ == {i \in 1 .. Min({Len(a), Len(b)}) : a[i] # b[i]}
  IN  IF differ = {} THEN Len(a) < Len(b) ELSE a[Min(differ)] < b[Min(differ)]
Children(tree, path) == {p \in DOMAIN tree : Len(p) = Len(path) + 1 /\ IsPrefix(path, p)}
MemberNames(tree, path) == SetToSortSeq({Last(p) : p \in Children(tree, path)}, CompareKeys)
IsContainer(node) == node.type \in {"array", "object"}
HasComment(node) == node.before # <<>> \/ node.same # <<>> \/ node.after # <<>>

-----------------------------------------------------------------------------
\* What is written so far: indented_ says that the line is ready for a value.
Written(q, text) == [q EXCEPT !.text = @ \o text]
NewLine(depth) == <<LF>> \o [i \in 1 .. depth |-> Tab]
Indented(q, depth) == IF q.indented THEN q ELSE Written(q, NewLine(depth))
WithIndent(q, depth, text) == [Written(Indented(q, depth), text) EXCEPT !.indented = FALSE]
\* The lines of a comment that begin with a slash are indented.
IndentComment(comment, depth) ==
  FoldLeft(LAMBDA text, i : text \o <<comment[i]>> \o
             IF comment[i] = LF /\ ByteAt(comment, i) = Slash THEN [k \in 1 .. depth |-> Tab] ELSE <<>>,
           <<>>, [i \in DOMAIN comment |-> i])
CommentBefore(q, node, depth, cs) ==
  IF (cs = "None") \/ node.before = <<>> THEN q ELSE WithIndent(q, depth, IndentComment(node.before, depth))
CommentAfter(q, node, depth, cs) ==
  IF cs = "None" THEN q
  ELSE Written(q, (IF node.same = <<>> THEN <<>> ELSE <<Space>> \o node.same)
                    \o (IF node.after = <<>> THEN <<>> ELSE NewLine(depth) \o node.after))
Comma(last) == IF last THEN <<>> ELSE <<44>>
\* Fault: the comma comes behind the comment.
CloseItemCommentFirst(q, node, depth, cs, last) == Written(CommentAfter(q, node, depth, cs), Comma(last))
CloseItem(q, node, depth, cs, last) == CommentAfter(Written(q, Comma(last)), node, depth, cs)

ScalarText(node) ==
  CASE node.type = "string" -> ValueToQuotedString(node.value)
    [] node.type \in {"int", "uint"} -> ValueToString(node.value)
    [] node.type = "real" -> node.value
    [] node.type = "array" -> <<91, 93>>
    [] node.type = "object" -> <<123, 125>>
    [] OTHER -> Words[CHOOSE c \in DOMAIN WordTypes : WordTypes[c] = node.type]
\* isMultilineArray: by its number, its elements, its comments, its width.
IsMultilineArray(tree, elements) ==
  LET size == Len(elements)
      width == FoldLeft(LAMBDA n, p : n + Len(ScalarText(tree[p])), 4 + (size - 1) * 2, elements)
  IN  \/ size * 3 >= rightMargin_
      \/ \E i \in DOMAIN elements : IsContainer(tree[elements[i]]) /\ Children(tree, elements[i]) # {}
      \/ (\E i \in DOMAIN elements : HasComment(tree[elements[i]])) \/ width >= rightMargin_

\* writeValue: [text, indented] behind a value that begins in either case.
Values(tree, cs) ==
  LET write[path \in DOMAIN tree, indented \in BOOLEAN] ==
        LET node == tree[path]
            names == MemberNames(tree, path)
            children == [i \in DOMAIN names |-> Append(path, names[i])]
            depth == Len(path) + 1
            start == [text |-> <<>>, indented |-> indented]
            inside(q, p, ready) == [text |-> q.text \o write[p, ready].text, indented |-> write[p, ready].indented]
            element(q, i) ==
              LET lead == Indented(CommentBefore(q, tree[children[i]], depth, cs), depth)
              IN  CloseItem([inside(lead, children[i], TRUE) EXCEPT !.indented = FALSE],
                            tree[children[i]], depth, cs, i = Len(names))
            member(q, i) ==
              LET lead == WithIndent(CommentBefore(q, tree[children[i]], depth, cs), depth, ValueToQuotedString(names[i]))
              IN  CloseItem(inside(Written(lead, <<Space, 58, Space>>), children[i], lead.indented),
                            tree[children[i]], depth, cs, i = Len(names))
            onOneLine == FoldLeft(LAMBDA text, i : text \o ScalarText(tree[children[i]]) \o Comma(i = Len(names)) \o <<Space>>,
                                  <<91, Space>>, [i \in DOMAIN names |-> i])
            within(open, item(_, _), close) ==
              WithIndent(FoldLeft(item, WithIndent(start, Len(path), open), [i \in DOMAIN names |-> i]), Len(path), close)
        IN  CASE ~ IsContainer(node) \/ names = <<>> -> Written(start, ScalarText(node))
              [] node.type = "object" /\ names # <<>> -> within(<<123>>, member, <<125>>)
              [] node.type = "array" /\ names # <<>> ->
                   IF (cs = "None") /\ ~ IsMultilineArray(tree, children) THEN Written(start, onOneLine \o <<93>>)
                   ELSE within(<<91>>, element, <<93>>)
  IN  write
Write(tree, cs) ==
  LET lead == Indented(CommentBefore([text |-> <<>>, indented |-> TRUE], tree[<<>>], 0, cs), 0)
  IN  CommentAfter(Written(lead, Values(tree, cs)[<<>>, TRUE].text), tree[<<>>], 0, cs).text
=============================================================================
