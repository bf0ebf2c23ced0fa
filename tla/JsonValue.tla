----------------------------- MODULE JsonValue -----------------------------
(***************************************************************************)
(* Json::Value (json_value.cc): a value that a program builds call by      *)
(* call, and the conversions of scalars.  An array is a map from the       *)
(* indices that somebody touched, so it can have holes; an object a map    *)
(* from names.  A real is counted in halves.                               *)
(***************************************************************************)
EXTENDS JsonText

CONSTANTS
  Elements,      \* what a program assigns to the places of a value; with "null"
  Names,
  MaxIndex,      \* bound of the indices
  MaxValueCalls, \* bound of the calls
  DoubleBits,    \* the mantissa of a double: 53 bits
  Halves         \* the reals that are converted

ASSUME JsonValueAssumption ==
  "null" \in Elements /\ "hole" \notin Elements /\ MaxIndex \in Nat /\ MaxValueCalls \in Nat /\ DoubleBits \in IntBits .. LargestBits

VARIABLES
  container,     \* [type, map]
  mirror,        \* history: the list, or the record, that the calls describe
  threw,         \* the call that ended in an exception, or "none"
  calls          \* history: how many calls the program made

valuevars == <<container, mirror, threw, calls>>

-----------------------------------------------------------------------------
Size(v) == IF v.type # "array" THEN Cardinality(DOMAIN v.map)
           ELSE IF DOMAIN v.map = {} THEN 0 ELSE Max(DOMAIN v.map) + 1
\* The const operator[] and find: null stands for what is not there.
Get(v, key) == IF key \in DOMAIN v.map THEN v.map[key] ELSE "null"
Without(map, keys) == [k \in DOMAIN map \ keys |-> map[k]]
\* A null value becomes the container that the call is for.
Container(v, type) == IF v.type = "null" THEN [type |-> type, map |-> <<>>] ELSE v
IsOrNull(v, type) == v.type \in {"null", type}
With(map, key, e) == [k \in DOMAIN map \cup {key} |-> IF k = key THEN e ELSE map[k]]
\* The other operator[] inserts what is not there.
Place(v, key) == [v EXCEPT !.map = With(@, key, Get(v, key))]
Store(v, key, e) == [v EXCEPT !.map = With(@, key, e)]

ValueCall == threw = "none" /\ calls < MaxValueCalls /\ calls' = calls + 1
Fails(call) == threw' = call /\ UNCHANGED <<container, mirror>>
Becomes(v, m) == container' = v /\ mirror' = m /\ threw' = "none"
\* In the list that the calls describe a place that no call touched is a hole.
Padded(list, n) == IF Len(list) >= n THEN list ELSE list \o [i \in 1 .. n - Len(list) |-> "hole"]
Touched(list, i) == [list EXCEPT ![i] = IF @ = "hole" THEN "null" ELSE @]
Trimmed(list) == SubSeq(list, 1, Max({0} \cup {i \in DOMAIN list : list[i] # "hole"}))
\* What is behind the removed place moves, and its holes become nulls.
Removed(list, i) ==
  Trimmed([k \in 1 .. Len(list) - 1 |-> IF k < i THEN list[k] ELSE IF list[k + 1] = "hole" THEN "null" ELSE list[k + 1]])
List == IF container.type = "null" THEN <<>> ELSE mirror

AtIndex(index) ==
  /\ ValueCall
  /\ IF IsOrNull(container, "array") THEN Becomes(Place(Container(container, "array"), index), Touched(Padded(List, index + 1), index + 1)) ELSE Fails("[]")
SetIndex(index, e) ==
  /\ ValueCall
  /\ IF ~ IsOrNull(container, "array") THEN Fails("[]")
     ELSE Becomes(Store(Container(container, "array"), index, e), [Padded(List, index + 1) EXCEPT ![index + 1] = e])
\* An empty object has size 0 and takes operator[](0) no better than a full one.
AppendTo(e) ==
  /\ ValueCall /\ Size(container) <= MaxIndex
  /\ IF ~ IsOrNull(container, "array") THEN Fails("append")
     ELSE Becomes(Store(Container(container, "array"), Size(container), e), Append(List, e))
\* Fault: an array grows to newSize and one more.
LastPlaceBehind(newSize) == newSize
LastPlace(newSize) == newSize - 1
\* The last place that is left must be there: JSON_ASSERT(size() == newSize).
Resize(newSize) ==
  /\ ValueCall
  /\ LET v == Container(container, "array")
         shrunk == [v EXCEPT !.map = Without(@, newSize .. MaxIndex)]
         list == SubSeq(List, 1, newSize)
     IN  \/ ~ IsOrNull(container, "array") /\ Fails("resize")
         \/ /\ IsOrNull(container, "array") /\ newSize > Size(v)
            /\ Becomes(Place(v, LastPlace(newSize)), Touched(Padded(List, newSize), newSize))
         \/ /\ IsOrNull(container, "array") /\ newSize <= Size(v)
            /\ container' = shrunk /\ mirror' = list /\ threw' = IF Size(shrunk) = newSize THEN "none" ELSE "resize"
RemoveIndex(index) ==
  /\ ValueCall
  /\ LET size == Size(container)
         shifted == [i \in (DOMAIN container.map \cap 0 .. index - 1) \cup index .. size - 2 |->
                       IF i < index THEN container.map[i] ELSE Get(container, i + 1)]
     IN  IF container.type # "array" \/ index \notin DOMAIN container.map THEN UNCHANGED <<container, mirror, threw>>
         ELSE Becomes([container EXCEPT !.map = shifted], Removed(mirror, index + 1))
SetMember(name, e) ==
  /\ ValueCall
  /\ IF ~ IsOrNull(container, "object") THEN Fails("[]")
     ELSE Becomes(Store(Container(container, "object"), name, e), With(mirror, name, e))
AtMember(name) ==
  /\ ValueCall
  /\ IF ~ IsOrNull(container, "object") THEN Fails("[]")
     ELSE Becomes(Place(Container(container, "object"), name), IF name \in DOMAIN mirror THEN mirror ELSE With(mirror, name, "null"))
\* The overload that returns nothing throws, the one with a result returns false.
RemoveMember(name, checked) ==
  /\ ValueCall
  /\ CASE container.type = "object" -> Becomes([container EXCEPT !.map = Without(@, {name})], Without(mirror, {name}))
       [] container.type = "array" /\ ~ checked -> Fails("removeMember")
       [] OTHER -> UNCHANGED <<container, mirror, threw>>
Clear ==
  ValueCall /\ Becomes([container EXCEPT !.map = <<>>], <<>>)

ValueInit == container = [type |-> "null", map |-> <<>>] /\ mirror = <<>> /\ threw = "none" /\ calls = 0
ValueNext ==
  \/ \E index \in 0 .. MaxIndex : AtIndex(index) \/ RemoveIndex(index) \/ \E e \in Elements : SetIndex(index, e)
  \/ \E newSize \in 0 .. MaxIndex : Resize(newSize)
  \/ \E e \in Elements : AppendTo(e)
  \/ \E name \in Names : AtMember(name) \/ \E e \in Elements : SetMember(name, e)
  \/ \E name \in Names, checked \in BOOLEAN : RemoveMember(name, checked)
  \/ Clear
ValueSpec == ValueInit /\ [][ValueNext]_valuevars

(* However a program mixes the calls, the value has the size and the elements *)
(* of the list or the record that the calls describe, the holes read as       *)
(* nulls; and a call throws only on a value of another type, or to shrink an  *)
(* array onto a hole.                                                         *)
ValueIsWhatWasAsked ==
  /\ threw = "none" =>
       /\ container.type = "array" =>
            /\ Size(container) = Len(mirror)
            /\ \A i \in DOMAIN mirror : Get(container, i - 1) = IF mirror[i] = "hole" THEN "null" ELSE mirror[i]
       /\ container.type = "object" =>
            DOMAIN container.map = DOMAIN mirror /\ \A name \in DOMAIN mirror : Get(container, name) = mirror[name]
  /\ threw = "resize" /\ container.type = "array" => Last(mirror) = "hole"
  /\ threw \in {"append", "removeMember"} => container.type = IF threw = "append" THEN "object" ELSE "array"

-----------------------------------------------------------------------------
(* Scalars and their conversions                                             *)
\* The cast of an integer to double, also where the two are compared: what has
\* more than DoubleBits bits goes to the nearest double, of two to the even one.
Ulp(n) == LET room == {e \in 0 .. LargestBits : n < 2 ^ (DoubleBits + e)} IN 2 ^ (CHOOSE e \in room : \A f \in room : e <= f)
Rounded(n) ==
  LET below == n - (n % Ulp(n))
      odd == (below \div Ulp(n)) % 2
  IN  IF 2 * (n - below) + odd > Ulp(n) THEN below + Ulp(n) ELSE below
ToDouble(n) == IF n < 0 THEN -Rounded(-n) ELSE Rounded(n)
Integral(v) == v.halves % 2 = 0
Truncated(v) == IF v.halves >= 0 THEN v.halves \div 2 ELSE -((-v.halves) \div 2)
isInteger(v, low, high) ==
  CASE v.type \in {"int", "uint"} -> Truncated(v) \in low .. high
    [] v.type = "real" -> /\ Integral(v) /\ v.halves >= 2 * low
                          /\ IF ToDouble(high) = high THEN v.halves <= 2 * high ELSE v.halves < 2 * ToDouble(high)
    [] OTHER -> FALSE
isInt(v) == isInteger(v, minInt, maxInt)
isUInt(v) == isInteger(v, 0, maxUInt)
isInt64(v) == isInteger(v, minLargestInt, maxLargestInt)
isUInt64(v) == isInteger(v, 0, maxLargestUInt)
isIntegral(v) == v.type \in {"int", "uint"} \/ (isInteger(v, minLargestInt, maxLargestUInt) /\ v.type = "real")
\* Fault: the lower bound is forgotten.
InRangeBelow(v, low, high) == v.halves <= 2 * ToDouble(high)
InRange(v, low, high) == 2 * low <= v.halves /\ v.halves <= 2 * ToDouble(high)
\* "throws", or the number; a cast that overflows is UB: any number of the type.
asInteger(v, low, high) ==
  CASE v.type \in {"int", "uint"} -> IF isInteger(v, low, high) THEN {Truncated(v)} ELSE {}
    [] v.type = "real" -> IF ~ InRange(v, low, high) THEN {} ELSE IF Truncated(v) \notin low .. high THEN low .. high ELSE {Truncated(v)}
    [] v.type = "null" -> {0}
    [] v.type = "bool" -> {v.halves \div 2}
    [] OTHER -> {}
asInt(v) == asInteger(v, minInt, maxInt)
asUInt(v) == asInteger(v, 0, maxUInt)
asInt64(v) == asInteger(v, minLargestInt, maxLargestInt)
asUInt64(v) == asInteger(v, 0, maxLargestUInt)
\* In halves.
asDouble(v) ==
  CASE v.type = "string" -> {}
    [] v.type \in {"int", "uint"} -> {2 * ToDouble(Truncated(v))}
    [] OTHER -> {v.halves}
asBool(v) == IF v.type = "string" THEN {} ELSE {v.halves # 0}
Convertible(v, low, high) == isInteger(v, low, high) \/ (v.type = "real" /\ InRange(v, low, high)) \/ v.type \in {"bool", "null"}
isConvertibleTo(v, other) ==
  CASE other = "int" -> Convertible(v, minInt, maxInt)
    [] other = "uint" -> Convertible(v, 0, maxUInt)
    [] other \in {"real", "bool"} -> v.type # "string"
    [] other = "null" -> v.halves = 0
Scalars ==
  {[type |-> "int", halves |-> 2 * n] : n \in minLargestInt .. maxLargestInt}
    \cup {[type |-> "uint", halves |-> 2 * n] : n \in 0 .. maxLargestUInt}
    \cup {[type |-> "real", halves |-> h] : h \in Halves}
    \cup {[type |-> "bool", halves |-> 2 * n] : n \in {0, 1}}
    \cup {[type |-> "string", halves |-> 2 * n] : n \in {0, 1}}   \* the empty string and another
    \cup {[type |-> "null", halves |-> 0]}
Convert == scalar.type = "none" /\ \E s \in Scalars : scalar' = [type |-> "value", value |-> s]
Distance(m, n) == IF m < n THEN n - m ELSE m - n
\* In halves, the doubles about the numbers of the integer types.
Doubles == {sign * m * 2 ^ (e + 1) : sign \in {1, -1}, m \in 0 .. 2 ^ DoubleBits, e \in 0 .. LargestBits - DoubleBits}
(* A value that says that it can be converted does not throw when it is, and  *)
(* keeps the number but for its fraction; as a double it is the nearest one   *)
(* that there is; one that says that it is an integer of a type keeps it      *)
(* whole, and an integral number fits one of the two.                         *)
ConversionsKeepTheNumber ==
  scalar.type = "value" =>
    LET v == scalar.value
    IN  /\ isConvertibleTo(v, "int") => asInt(v) = {Truncated(v)}
        /\ isConvertibleTo(v, "uint") => asUInt(v) = {Truncated(v)}
        /\ isConvertibleTo(v, "real") =>
             \E d \in asDouble(v) :
               /\ asDouble(v) = {d} /\ asBool(v) = {d # 0}
               /\ v.type = "real" => d = v.halves
               /\ v.type # "real" => \A other \in Doubles : Distance(v.halves, d) <= Distance(v.halves, other)
        /\ isInt(v) => asInt(v) = {v.halves \div 2} /\ isInt64(v)
        /\ isUInt(v) => asUInt(v) = {v.halves \div 2} /\ isUInt64(v)
        /\ isInt64(v) => asInt64(v) = {v.halves \div 2} /\ 2 * Truncated(v) = v.halves
        /\ isUInt64(v) => asUInt64(v) = {v.halves \div 2} /\ 2 * Truncated(v) = v.halves
        /\ isIntegral(v) => isInt64(v) \/ isUInt64(v)
(* From the text of a document to the number a handler asks for nothing       *)
(* changes on the way, but for what a double cannot hold.                     *)
ScalarsAreRight == ScalarsAreKept /\ ConversionsKeepTheNumber
=============================================================================
