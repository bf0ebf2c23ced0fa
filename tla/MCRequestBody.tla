--------------------------- MODULE MCRequestBody ---------------------------
EXTENDS RequestBody
Boundary_ == <<"-", "b">>
Dispositions_ == [file |-> << <<"name", "file">>, <<"filename", "f">> >>, text |-> << <<"name", "text">> >>]
Part(disposition, data) == [headers |-> << <<"Content-Disposition", <<disposition>>>> >>, data |-> data]
Typed(disposition, data) == [Part(disposition, data) EXCEPT !.headers = << <<"Content-Type", <<"a", " ", ":">>>> >> \o @]
Datas == {<<>>, <<"a">>, <<"a", "CR", "b">>, <<"LF", "-", "-", "-", "b">>, <<"a", "CR", "LF", "-", "a">>, <<"CR", "LF", "-", "-", "-", "a">>,
          <<"a", "CR">>, <<"a", "CR", "LF">>, <<"CR", "LF", "-", "-", "-", "CR", "LF", "a">>}
Form(parts) == [preamble |-> <<>>, parts |-> parts, spoiled |-> 0]
Whole_ == {Form(<<Part("text", d), Typed("file", e)>>) : d, e \in Datas} \cup {Form(<<Typed("text", d)>>) : d \in Datas}
            \cup {[Form(<<Part("file", <<"a">>)>>) EXCEPT !.preamble = <<"a", "-", "CR", "LF">>]}
Forms_ == Whole_ \cup {[Form(<<Typed("text", <<"a", "CR", "LF", "a">>)>>) EXCEPT !.spoiled = i] : i \in 1 .. 33}
Field(keys) == {[key |-> k, value |-> v, bare |-> b] : k \in keys, v \in {<<>>, <<"a">>, <<"b", "=">>}, b \in BOOLEAN}
Fields_ == UNION {[1 .. n -> Field({<<"a">>, <<"b">>})] : n \in 1 .. 3}
=============================================================================
