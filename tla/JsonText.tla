------------------------------ MODULE JsonText ------------------------------
(***************************************************************************)
(* The text of JSON: the tokens of OurReader (json_reader.cc), how it      *)
(* decodes numbers and strings, and how the writers print them             *)
(* (json_writer.cc).  A text is a sequence of bytes, an offset the number  *)
(* of bytes before it.  A double is the text it was read from.             *)
(***************************************************************************)
EXTENDS Integers, Sequences, SequencesExt, FiniteSets, FiniteSetsExt, TLC

CONSTANTS
  LargestBits, IntBits,   \* the widths of LargestInt and Int: 64 and 32 in the build
  CodePoints,             \* the strings of a scalar are made of these
  MaxScalar               \* bound of the length of a scalar

ASSUME JsonTextAssumption == IntBits \in 2 .. LargestBits /\ MaxScalar \in Nat

VARIABLE scalar           \* a number or a string that somebody writes and somebody reads

maxLargestUInt == 2 ^ LargestBits - 1
minLargestInt == -(2 ^ (LargestBits - 1))
maxLargestInt == 2 ^ (LargestBits - 1) - 1
maxUInt == 2 ^ IntBits - 1
minInt == -(2 ^ (IntBits - 1))
maxInt == 2 ^ (IntBits - 1) - 1

Tab == 9
LF == 10
CR == 13
Space == 32
Quote == 34
Apostrophe == 39
Star == 42
Plus == 43
Minus == 45
Dot == 46
Slash == 47
Backslash == 92
Digits == 48 .. 57
Exponents == {69, 101}
Capital_I == 73
Punctuation == (44 :> "," @@ 58 :> ":" @@ 91 :> "[" @@ 93 :> "]" @@ 123 :> "{" @@ 125 :> "}")
Words == (110 :> <<110, 117, 108, 108>> @@ 116 :> <<116, 114, 117, 101>> @@ 102 :> <<102, 97, 108, 115, 101>>)
WordTypes == (110 :> "null" @@ 116 :> "true" @@ 102 :> "false")

-----------------------------------------------------------------------------
(* readToken: a token has a type, its first byte and the byte behind it.    *)
ByteAt(doc, i) == IF i < Len(doc) THEN doc[i + 1] ELSE 0
Past(doc, i, bytes) == Min({j \in i .. Len(doc) : j < Len(doc) => doc[j + 1] \notin bytes})
SkipSpaces(doc, i) == Past(doc, i, {Space, Tab, CR, LF})

ReadString(doc, i) ==
  LET from[j \in i .. Len(doc) + 1] ==
        CASE j >= Len(doc) -> [end |-> Len(doc), ok |-> FALSE]
          [] j < Len(doc) /\ ByteAt(doc, j) = Quote -> [end |-> j + 1, ok |-> TRUE]
          [] j < Len(doc) /\ ByteAt(doc, j) = Backslash -> from[j + 2]
          [] OTHER -> from[j + 1]
  IN  from[i]
\* Each part of a number may be empty, the exponent after its sign too.
ReadNumber(doc, i) ==
  LET integral == Past(doc, i, Digits)
      fraction == IF ByteAt(doc, integral) = Dot THEN Past(doc, integral + 1, Digits) ELSE integral
      signed == ByteAt(doc, fraction + 1) \in {Plus, Minus}
  IN  IF ByteAt(doc, fraction) \notin Exponents THEN fraction
      ELSE Past(doc, IF signed THEN fraction + 2 ELSE fraction + 1, Digits)
\* A slash that ends the document ends a comment as well as the two bytes do.
ReadCStyleComment(doc, i) ==
  LET ends == {j \in i .. Len(doc) - 2 : doc[j + 1] = Star /\ doc[j + 2] = Slash}
  IN  IF ends # {} THEN [end |-> Min(ends) + 2, ok |-> TRUE]
      ELSE [end |-> Len(doc), ok |-> i < Len(doc) /\ doc[Len(doc)] = Slash]
ReadCppStyleComment(doc, i) ==
  LET eol == Min({j \in i .. Len(doc) : j < Len(doc) => doc[j + 1] \in {CR, LF}})
      dos == ByteAt(doc, eol) = CR /\ ByteAt(doc, eol + 1) = LF
  IN  [end |-> Min({Len(doc), IF dos THEN eol + 2 ELSE eol + 1}), ok |-> TRUE]
ReadComment(doc, i) ==
  CASE ByteAt(doc, i) = Star -> ReadCStyleComment(doc, i + 1)
    [] ByteAt(doc, i) = Slash -> ReadCppStyleComment(doc, i + 1)
    [] OTHER -> [end |-> Min({Len(doc), i + 1}), ok |-> FALSE]
\* An apostrophe falls through to the comments: allowSingleQuotes_ is false.
ReadToken(doc, current) ==
  LET s == SkipSpaces(doc, current)
      c == ByteAt(doc, s)
      token(type, end) == [type |-> type, start |-> s, end |-> end]
      tested(type, r) == token(IF r.ok THEN type ELSE "error", r.end)
  IN  CASE c \in DOMAIN Punctuation -> token(Punctuation[c], s + 1)
        [] c = Quote -> tested("string", ReadString(doc, s + 1))
        [] c \in {Apostrophe, Slash} -> tested("comment", ReadComment(doc, s + 1))
        [] c \in Digits -> token("number", ReadNumber(doc, s + 1))
        [] c = Minus -> IF ByteAt(doc, s + 1) = Capital_I THEN token("error", s + 2)
                        ELSE token("number", ReadNumber(doc, s + 1))
        [] c \in DOMAIN Words -> IF SubSeq(doc, s + 1, s + Len(Words[c])) = Words[c]
                                   THEN token(WordTypes[c], s + Len(Words[c])) ELSE token("error", s + 1)
        [] c = 0 -> token("end", Min({Len(doc), s + 1}))
        [] OTHER -> token("error", s + 1)

-----------------------------------------------------------------------------
(* Numbers                                                                   *)
\* sscanf with %lf: the mantissa has a digit, and the exponent, if there is one.
IsDouble(text) ==
  LET from == IF text[1] = Minus THEN 1 ELSE 0
      mantissa == ReadNumber([i \in DOMAIN text |-> IF text[i] \in Exponents THEN 0 ELSE text[i]], from)
  IN  /\ \E i \in from + 1 .. mantissa : text[i] \in Digits
      /\ mantissa < Len(text) => text[Len(text)] \in Digits
DecodeDouble(text) == IF IsDouble(text) THEN [type |-> "real", value |-> text] ELSE [type |-> "error"]
\* Fault: the last digit is not looked at when the value touches the limit.
TooLargeRounded(value, digit, last, max) == (value > max \div 10) \/ (value = max \div 10 /\ ~ last)
TooLarge(value, digit, last, max) ==
  value >= max \div 10 /\ ((value > max \div 10) \/ ~ last \/ digit > max % 10)
DecodeNumber(text) ==
  LET negative == text[1] = Minus
      max == IF negative THEN -minLargestInt ELSE maxLargestUInt
      step(value, i) ==
        IF (value = -1) \/ text[i] \notin Digits \/ TooLarge(value, text[i] - 48, i = Len(text), max) THEN -1
        ELSE value * 10 + (text[i] - 48)
      value == FoldLeft(step, 0, [i \in 1 .. Len(text) - (IF negative THEN 1 ELSE 0) |-> IF negative THEN i + 1 ELSE i])
  IN  CASE value = -1 -> DecodeDouble(text)
        [] value # -1 /\ negative -> [type |-> "int", value |-> -value]
        [] value \in 0 .. maxInt /\ ~ negative -> [type |-> "int", value |-> value]
        [] OTHER -> [type |-> "uint", value |-> value]
UintToString(value) ==
  LET digits[n \in 0 .. value] == (IF n < 10 THEN <<>> ELSE digits[n \div 10]) \o <<48 + (n % 10)>>
  IN  digits[value]
ValueToString(value) ==
  IF value < 0 THEN <<Minus>> \o UintToString(IF value = minLargestInt THEN maxLargestInt + 1 ELSE -value)
  ELSE UintToString(value)

-----------------------------------------------------------------------------
(* Strings                                                                   *)
Short == (98 :> 8 @@ 102 :> 12 @@ 110 :> LF @@ 114 :> CR @@ 116 :> Tab @@ Quote :> Quote @@ Backslash :> Backslash)
Escapes == (Slash :> Slash) @@ Short
ShortFor(byte) == CHOOSE letter \in DOMAIN Short : Short[letter] = byte
codePointToUTF8(cp) ==
  CASE cp <= 127 -> <<cp>>
    [] cp \in 128 .. 2047 -> <<192 + cp \div 64, 128 + (cp % 64)>>
    [] cp \in 2048 .. 65535 -> <<224 + cp \div 4096, 128 + ((cp \div 64) % 64), 128 + (cp % 64)>>
    [] cp \in 65536 .. 1114111 ->
         <<240 + cp \div 262144, 128 + ((cp \div 4096) % 64), 128 + ((cp \div 64) % 64), 128 + (cp % 64)>>
    [] OTHER -> <<>>
HexDigit(c) == CASE c \in Digits -> c - 48 [] c \in 97 .. 102 -> c - 87 [] c \in 65 .. 70 -> c - 55 [] OTHER -> 16
Surrogate(high, low) == 65536 + (high % 1024) * 1024 + (low % 1024)
\* The four digits at i; -1 for an error.
UnicodeEscape(text, i) ==
  IF (Len(text) - i < 4) \/ \E k \in 1 .. 4 : HexDigit(ByteAt(text, i + k - 1)) = 16 THEN -1
  ELSE FoldLeft(LAMBDA u, k : u * 16 + HexDigit(text[i + k]), 0, <<1, 2, 3, 4>>)
\* [cp, next], cp = -1 for an error; only a first half looks for a second.
UnicodeCodePoint(text, i) ==
  LET first == UnicodeEscape(text, i)
      second == UnicodeEscape(text, i + 6)
      pair == ByteAt(text, i + 4) = Backslash /\ ByteAt(text, i + 5) = 117
  IN  CASE first \notin 55296 .. 56319 -> [cp |-> first, next |-> i + 4]
        [] first \in 55296 .. 56319 /\ Len(text) - (i + 4) >= 6 /\ pair /\ second # -1 ->
             [cp |-> Surrogate(first, second), next |-> i + 10]
        [] OTHER -> [cp |-> -1, next |-> i]
\* text is what stands between the quotes.
DecodeString(text) ==
  LET prefix(bytes, rest) == [rest EXCEPT !.text = bytes \o @]
      failed == [ok |-> FALSE, text |-> <<>>]
      from[i \in 0 .. Len(text)] ==
        LET escape == ByteAt(text, i + 1)
            u == UnicodeCodePoint(text, i + 2)
        IN  CASE i = Len(text) -> [ok |-> TRUE, text |-> <<>>]
              [] i < Len(text) /\ ByteAt(text, i) # Backslash -> prefix(<<text[i + 1]>>, from[i + 1])
              [] i < Len(text) /\ ByteAt(text, i) = Backslash /\ i + 1 < Len(text) /\ escape \in DOMAIN Escapes ->
                   prefix(<<Escapes[escape]>>, from[i + 2])
              [] i < Len(text) /\ ByteAt(text, i) = Backslash /\ escape = 117 /\ u.cp # -1 ->
                   prefix(codePointToUTF8(u.cp), from[u.next])
              [] OTHER -> failed
  IN  from[0]

Replacement == 65533
\* utf8ToCodepoint: [cp, size]; a byte that is cut short stands alone.
CodePointAt(text, i) ==
  LET b(k) == text[i + k]
      left == Len(text) - i + 1
      size == CASE b(0) < 128 -> 1 [] b(0) \in 128 .. 223 -> 2 [] b(0) \in 224 .. 239 -> 3 [] b(0) \in 240 .. 247 -> 4 [] OTHER -> 5
      cp == CASE size = 1 -> b(0)
              [] size = 2 -> (b(0) % 32) * 64 + (b(1) % 64)
              [] size = 3 -> (b(0) % 16) * 4096 + (b(1) % 64) * 64 + (b(2) % 64)
              [] OTHER -> (b(0) % 8) * 262144 + (b(1) % 64) * 4096 + (b(2) % 64) * 64 + (b(3) % 64)
      least == <<0, 128, 2048, 65536>>
  IN  IF (size = 5) \/ left < size THEN [cp |-> Replacement, size |-> 1]
      ELSE [cp |-> IF (cp < least[size]) \/ (cp \in 55296 .. 57343 /\ size = 3) THEN Replacement ELSE cp, size |-> size]
Hex(n) == IF n < 10 THEN 48 + n ELSE 87 + n
ToHex16Bit(x) == <<Backslash, 117>> \o [k \in 1 .. 4 |-> Hex((x \div 16 ^ (4 - k)) % 16)]
QuotedChar(cp) ==
  CASE cp \in 32 .. 127 -> <<cp>>
    [] cp \in (0 .. 31) \cup (128 .. 65535) -> ToHex16Bit(cp)
    [] OTHER -> ToHex16Bit((cp - 65536) \div 1024 + 55296) \o ToHex16Bit(((cp - 65536) % 1024) + 56320)
ValueToQuotedString(text) ==
  LET from[i \in 1 .. Len(text) + 1] ==
        IF i > Len(text) THEN <<Quote>>
        ELSE IF \E letter \in DOMAIN Short : Short[letter] = text[i] THEN <<Backslash, ShortFor(text[i])>> \o from[i + 1]
        ELSE LET c == CodePointAt(text, i) IN QuotedChar(c.cp) \o from[i + c.size]
  IN  <<Quote>> \o from[1]

-----------------------------------------------------------------------------
(* Somebody writes a scalar: a number with its digits, or a string.          *)
Inner(text) == SubSeq(text, 2, Len(text) - 1)
ScalarInit == scalar = [type |-> "none"]
WriteNumber(text) == scalar' = [type |-> "number", text |-> text]
WriteString(points) == scalar' = [type |-> "string", text |-> FlattenSeq([i \in DOMAIN points |-> codePointToUTF8(points[i])])]
NumberTexts == UNION {[1 .. n -> {48, 49, 50, 54, 55, 56, Minus, Dot, 101}] : n \in 1 .. MaxScalar}
ScalarNext ==
  /\ scalar.type = "none"
  /\ \/ \E text \in NumberTexts : (text[1] \in Digits \cup {Minus}) /\ WriteNumber(text)
     \/ \E n \in 0 .. MaxScalar : \E points \in [1 .. n -> CodePoints] : WriteString(points)

IsInteger(text) == text # <<>> /\ \A i \in DOMAIN text : text[i] \in Digits
DecimalOf(text) == FoldLeft(LAMBDA n, c : n * 10 + (c - 48), 0, text)
(* An integer that LargestInt or LargestUInt can hold is read as itself, any  *)
(* other number as a double, and what the writer prints of an integer is one  *)
(* token that is read as the same value.  A string of code points comes back  *)
(* from the quoted text that the writer makes of it, byte for byte.           *)
ScalarsAreKept ==
  /\ scalar.type = "number" =>
       LET text == scalar.text
           n == DecodeNumber(text)
           negative == text[1] = Minus
           digits == IF negative THEN Tail(text) ELSE text
           exact == IF negative THEN -DecimalOf(digits) ELSE DecimalOf(digits)
           token == ReadToken(ValueToString(n.value) \o <<44>>, 0)
       IN  /\ IsInteger(digits) =>
                IF exact \in minLargestInt .. maxLargestUInt THEN n.type # "real" /\ n.value = exact ELSE n.type = "real"
           /\ n.type \in {"int", "uint"} =>
                /\ token.type = "number" /\ token.end = Len(ValueToString(n.value))
                /\ DecodeNumber(ValueToString(n.value)) = n
  /\ scalar.type = "string" =>
       LET quoted == ValueToQuotedString(scalar.text)
           token == ReadToken(quoted \o <<Quote>>, 0)
       IN  /\ token = [type |-> "string", start |-> 0, end |-> Len(quoted)]
           /\ DecodeString(Inner(quoted)) = [ok |-> TRUE, text |-> scalar.text]
=============================================================================
