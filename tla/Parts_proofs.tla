--------------------------- MODULE Parts_proofs ---------------------------
(***************************************************************************)
(* The parts of the server that share no state, as in MCParts and          *)
(* MCRequests: each has an invariant and a theorem of its own.             *)
(***************************************************************************)
EXTENDS JsonValue, SendBuffer, RedisLock, MemoryPool, WebSocket, LogFormat, SequenceTheorems,
        FiniteSetTheorems, WellFoundedInduction, TLAPS

-----------------------------------------------------------------------------
(***************************************************************************)
(* SendBuffer: the input buffer of a connection never loses, doubles or    *)
(* exchanges a byte, for any room, any reads and any amounts taken         *)
(* (bytebuffer.cc).  The invariant says where each unread byte is: those   *)
(* between the two offsets are the newest that came in.  Each of the       *)
(* operations that Readv is made of keeps this, wherever the offsets are.  *)
(***************************************************************************)

\* The unread bytes of b are the newest of the first r.
Buffers(b, r) ==
  /\ b \in [read : Nat, write : Nat, size : Nat, mem : [0 .. b.size - 1 -> Nat]]
  /\ kCheapPrepend <= b.read /\ b.read <= b.write /\ b.write <= b.size
  /\ r \in Nat /\ b.write - b.read <= r
  /\ \A i \in b.read .. b.write - 1 : b.mem[i] = r - b.write + i + 1

BufferInv == Buffers(buf, received)

(* The invariant says what BufferIsFifo says. *)
LEMMA BuffersIsFifo == BufferInv => BufferIsFifo
<1> SUFFICES ASSUME BufferInv PROVE BufferIsFifo
  OBVIOUS
<1> DEFINE n == buf.write - buf.read
<1>1. n \in Nat /\ kCheapPrepend <= buf.read /\ buf.read <= buf.write /\ buf.write <= buf.size
  BY BufferAssumption DEF BufferInv, Buffers
<1>2. ASSUME NEW k \in 1 .. n
      PROVE  buf.mem[buf.read + k - 1] = received - n + 1 + k - 1
  <2>1. buf.read + k - 1 \in buf.read .. buf.write - 1 /\ buf.read \in Nat /\ buf.write \in Nat /\ received \in Nat
    BY DEF BufferInv, Buffers
  <2>2. buf.mem[buf.read + k - 1] = received - buf.write + (buf.read + k - 1) + 1
    BY <2>1 DEF BufferInv, Buffers
  <2>. QED
    BY <2>1, <2>2
<1>3. Readable(buf) = Numbers(received - n + 1, n)
  BY <1>2 DEF Readable, ReadableBytes, Numbers
<1>. QED
  BY <1>1, <1>3 DEF BufferIsFifo, ReadableBytes

(* The bytes that come in, and their parts, are consecutive. *)
LEMMA NumbersAreTyped ==
  ASSUME NEW first \in Nat, NEW n \in Nat
  PROVE  /\ Numbers(first, n) \in Seq(Nat) /\ Len(Numbers(first, n)) = n
         /\ \A k \in 1 .. n : Numbers(first, n)[k] = first + k - 1
<1>1. \A k \in 1 .. n : first + k - 1 \in Nat
  OBVIOUS
<1>2. Numbers(first, n) \in [1 .. n -> Nat]
  BY <1>1 DEF Numbers
<1>. QED
  BY <1>2 DEF Numbers

(* Bytes that fit are put behind the others. *)
LEMMA PutKeeps ==
  ASSUME NEW b, NEW r, Buffers(b, r), NEW bytes \in Seq(Nat), Len(bytes) <= WritableBytes(b),
         \A k \in 1 .. Len(bytes) : bytes[k] = r + k
  PROVE  /\ Buffers(Put(b, bytes), r + Len(bytes))
         /\ WritableBytes(Put(b, bytes)) = WritableBytes(b) - Len(bytes)
<1> DEFINE n == Len(bytes)
           put(i) == IF i \in b.write .. b.write + n - 1 THEN bytes[i - b.write + 1] ELSE b.mem[i]
           q == Put(b, bytes)
<1>1. /\ b.read \in Nat /\ b.write \in Nat /\ b.size \in Nat /\ b.mem \in [0 .. b.size - 1 -> Nat] /\ n \in Nat
      /\ kCheapPrepend <= b.read /\ b.read <= b.write /\ b.write <= b.size /\ r \in Nat /\ b.write - b.read <= r
      /\ b.write + n <= b.size /\ kCheapPrepend \in Nat
  BY BufferAssumption DEF Buffers, WritableBytes
<1>2. \A i \in 0 .. b.size - 1 : put(i) \in Nat
  <2> SUFFICES ASSUME NEW i \in 0 .. b.size - 1 PROVE put(i) \in Nat
    OBVIOUS
  <2>1. CASE i \in b.write .. b.write + n - 1
    <3>1. i - b.write + 1 \in 1 .. n
      BY <1>1, <2>1, SMTT(30)
    <3>. QED
      BY <2>1, <3>1
  <2>2. CASE i \notin b.write .. b.write + n - 1
    BY <1>1, <2>2
  <2>. QED
    BY <2>1, <2>2
<1> DEFINE M == [i \in DOMAIN b.mem |-> put(i)]
           W == b.write + n
<1>3. M \in [0 .. b.size - 1 -> Nat] /\ W \in Nat /\ \A i \in 0 .. b.size - 1 : M[i] = put(i)
  <2>1. DOMAIN b.mem = 0 .. b.size - 1
    BY <1>1
  <2>2. W \in Nat
    BY <1>1
  <2> HIDE DEF put
  <2>. QED
    BY <1>2, <2>1, <2>2
<1>4. q = [b EXCEPT !.write = W, !.mem = M]
  BY DEF Put
<1> HIDE DEF q, M, W
<1>8. /\ q.read = b.read /\ q.write = W /\ q.size = b.size /\ q.mem = M
      /\ q \in [read : Nat, write : Nat, size : Nat, mem : [0 .. b.size - 1 -> Nat]]
  BY <1>3, <1>4 DEF Buffers
<1> USE DEF W
<1>5. ASSUME NEW i \in q.read .. q.write - 1
      PROVE  q.mem[i] = (r + n) - q.write + i + 1
  <2>1. i \in 0 .. b.size - 1 /\ q.mem[i] = put(i)
    BY <1>1, <1>3, <1>8, SMTT(30)
  <2>2. CASE i \in b.write .. b.write + n - 1
    <3>1. i - b.write + 1 \in 1 .. n
      BY <1>1, <2>2, SMTT(30)
    <3>2. put(i) = r + (i - b.write + 1)
      BY <2>2, <3>1
    <3>. QED
      BY <1>1, <1>8, <2>1, <3>2, SMTT(30)
  <2>3. CASE i \notin b.write .. b.write + n - 1
    <3>1. i \in b.read .. b.write - 1
      BY <1>1, <1>8, <2>3, SMTT(30)
    <3>2. b.mem[i] = r - b.write + i + 1
      BY <3>1 DEF Buffers
    <3>. QED
      BY <1>1, <1>8, <2>1, <2>3, <3>2
  <2>. QED
    BY <2>2, <2>3
<1>6. kCheapPrepend <= q.read /\ q.read <= q.write /\ q.write <= q.size /\ r + n \in Nat /\ q.write - q.read <= r + n
  BY <1>1, <1>8, SMTT(30)
<1>7. WritableBytes(q) = WritableBytes(b) - n
  BY <1>1, <1>8 DEF WritableBytes
<1>. QED
  BY <1>5, <1>6, <1>7, <1>8 DEF Buffers, q

(* What is unread is moved to the front, into a buffer with the room for more. *)
LEMMA ExtendKeeps ==
  ASSUME NEW b, NEW r, Buffers(b, r), NEW len \in Nat
  PROVE  Buffers(ExtendSpace(b, len), r) /\ len <= WritableBytes(ExtendSpace(b, len))
<1> DEFINE size == IF WritableBytes(b) + b.read < len + kCheapPrepend THEN b.size + len ELSE b.size
           n == b.write - b.read
           moved(i) == IF i \in kCheapPrepend .. kCheapPrepend + n - 1 THEN b.mem[b.read + i - kCheapPrepend] ELSE 0
           M == [i \in 0 .. size - 1 |-> moved(i)]
           q == ExtendSpace(b, len)
<1>1. /\ b.read \in Nat /\ b.write \in Nat /\ b.size \in Nat /\ b.mem \in [0 .. b.size - 1 -> Nat] /\ n \in Nat
      /\ kCheapPrepend <= b.read /\ b.read <= b.write /\ b.write <= b.size /\ r \in Nat /\ n <= r
      /\ kCheapPrepend \in Nat
  BY BufferAssumption DEF Buffers
<1>2. size \in Nat /\ kCheapPrepend + n + len <= size
  <2>1. CASE WritableBytes(b) + b.read < len + kCheapPrepend
    <3>1. size = b.size + len
      BY <2>1
    <3>2. kCheapPrepend + n <= b.size
      BY <1>1
    <3> HIDE DEF size, n
    <3>. QED
      BY <1>1, <3>1, <3>2
  <2>2. CASE ~ (WritableBytes(b) + b.read < len + kCheapPrepend)
    BY <1>1, <2>2, SMTT(30) DEF WritableBytes
  <2>. QED
    BY <2>1, <2>2
<1>3. q = [read |-> kCheapPrepend, write |-> kCheapPrepend + n, size |-> size, mem |-> M]
  BY DEF ExtendSpace, Moved, ReadableBytes
<1> HIDE DEF q, size
<1>4. \A i \in kCheapPrepend .. kCheapPrepend + n - 1 : b.read + i - kCheapPrepend \in b.read .. b.write - 1
  BY <1>1, SMTT(30)
<1>5. \A i \in 0 .. size - 1 : moved(i) \in Nat
  <2> SUFFICES ASSUME NEW i \in 0 .. size - 1 PROVE moved(i) \in Nat
    OBVIOUS
  <2>1. CASE i \in kCheapPrepend .. kCheapPrepend + n - 1
    <3>1. b.read + i - kCheapPrepend \in 0 .. b.size - 1
      BY <1>1, <2>1, SMTT(30)
    <3>. QED
      BY <1>1, <2>1, <3>1
  <2>. QED
    BY <2>1
<1>10. M \in [0 .. size - 1 -> Nat] /\ \A i \in 0 .. size - 1 : M[i] = moved(i)
  BY <1>5
<1> HIDE DEF M
<1>6. q \in [read : Nat, write : Nat, size : Nat, mem : [0 .. q.size - 1 -> Nat]]
  BY <1>1, <1>2, <1>3, <1>10, SMTT(30)
<1>7. ASSUME NEW i \in q.read .. q.write - 1
      PROVE  q.mem[i] = r - q.write + i + 1
  <2>1. i \in kCheapPrepend .. kCheapPrepend + n - 1 /\ i \in 0 .. size - 1
    BY <1>1, <1>2, <1>3
  <2>2. q.mem[i] = b.mem[b.read + i - kCheapPrepend] /\ i \in Int /\ q.write = kCheapPrepend + n
    BY <1>2, <1>3, <1>10, <2>1
  <2>3. b.mem[b.read + i - kCheapPrepend] = r - b.write + (b.read + i - kCheapPrepend) + 1
    BY <1>4, <2>1 DEF Buffers
  <2>4. r - b.write + (b.read + i - kCheapPrepend) + 1 = r - (kCheapPrepend + n) + i + 1
    <3>1. r \in Int /\ b.write \in Int /\ b.read \in Int /\ i \in Int /\ kCheapPrepend \in Int
      BY <1>1, <2>2
    <3>. QED
      BY <3>1
  <2>. QED
    BY <2>2, <2>3, <2>4
<1>8. kCheapPrepend <= q.read /\ q.read <= q.write /\ q.write <= q.size /\ q.write - q.read <= r
  <2>1. q.read = kCheapPrepend /\ q.write = kCheapPrepend + n /\ q.size = size
    BY <1>3
  <2>2. n \in Nat /\ kCheapPrepend \in Nat /\ n <= r
    BY <1>1
  <2> HIDE DEF n
  <2>3. kCheapPrepend + n <= size
    BY <1>2, <2>2
  <2>. QED
    BY <1>1, <2>1, <2>2, <2>3
<1>9. len <= WritableBytes(q)
  BY <1>1, <1>2, <1>3 DEF WritableBytes
<1>. QED
  BY <1>1, <1>6, <1>7, <1>8, <1>9 DEF Buffers, q

(* AppendBytes makes room first, if it has to. *)
LEMMA AppendKeeps ==
  ASSUME NEW b, NEW r, Buffers(b, r), NEW bytes \in Seq(Nat),
         \A k \in 1 .. Len(bytes) : bytes[k] = r + k
  PROVE  Buffers(AppendBytes(b, bytes), r + Len(bytes))
<1>1. CASE WritableBytes(b) < Len(bytes)
  <2>1. Buffers(ExtendSpace(b, Len(bytes)), r) /\ Len(bytes) <= WritableBytes(ExtendSpace(b, Len(bytes)))
    BY ExtendKeeps
  <2>. QED
    BY <1>1, <2>1, PutKeeps DEF AppendBytes
<1>2. CASE ~ (WritableBytes(b) < Len(bytes))
  <2>1. WritableBytes(b) \in Int
    BY DEF Buffers, WritableBytes
  <2>2. Len(bytes) <= WritableBytes(b)
    BY <1>2, <2>1
  <2>. QED
    BY <1>2, <2>2, PutKeeps DEF AppendBytes
<1>. QED
  BY <1>1, <1>2

(* The buffer starts empty. *)
LEMMA BufferInitial == BytesInit => BufferInv
<1> SUFFICES ASSUME BytesInit PROVE BufferInv
  OBVIOUS
<1>1. kCheapPrepend \in Nat /\ kInitialSize \in Nat
  BY BufferAssumption
<1>. QED
  BY <1>1 DEF BytesInit, NewBuffer, BufferInv, Buffers

(* Readv: what fits into the room, and then the rest. *)
LEMMA ReadvStep == ASSUME BufferInv, NEW n \in 1 .. MaxBytes, Readv(n) PROVE BufferInv'
<1> DEFINE bytes == Numbers(received + 1, n)
           fits == IF n <= WritableBytes(buf) THEN n ELSE WritableBytes(buf)
           front == SubSeq(bytes, 1, fits)
           rest == SubSeq(bytes, fits + 1, n)
<1>1. /\ received \in Nat /\ MaxBytes \in Nat /\ n \in Nat
      /\ WritableBytes(buf) \in Nat /\ fits \in 0 .. n /\ fits <= WritableBytes(buf)
  BY BufferAssumption DEF BufferInv, Buffers, WritableBytes
<1> HIDE DEF fits
<1>2. bytes \in Seq(Nat) /\ Len(bytes) = n /\ \A k \in 1 .. n : bytes[k] = received + k
  <2>1. received + 1 \in Nat /\ \A k \in 1 .. n : (received + 1) + k - 1 = received + k
    BY <1>1
  <2>. QED
    BY <1>1, <2>1, NumbersAreTyped
<1> HIDE DEF bytes
<1>3. front \in Seq(Nat) /\ Len(front) = fits /\ \A k \in 1 .. fits : front[k] = received + k
  BY <1>1, <1>2
<1>4. rest \in Seq(Nat) /\ Len(rest) = n - fits /\ \A k \in 1 .. n - fits : rest[k] = (received + fits) + k
  BY <1>1, <1>2
<1> HIDE DEF front, rest
<1>5. Buffers(Put(buf, front), received + fits)
  BY <1>1, <1>3, PutKeeps DEF BufferInv
<1>6. Buffers(AppendBytes(Put(buf, front), rest), (received + fits) + (n - fits))
  BY <1>4, <1>5, AppendKeeps
<1>7. buf' = AppendBytes(Put(buf, front), rest) /\ received' = received + n
  BY DEF Readv, bytes, fits, front, rest
<1>8. (received + fits) + (n - fits) = received + n
  BY <1>1
<1>. QED
  BY <1>6, <1>7, <1>8 DEF BufferInv

(* ReadBytes: the oldest go, or all. *)
LEMMA ReadBytesStep == ASSUME BufferInv, NEW len \in 1 .. MaxBytes, ReadBytes(len) PROVE BufferInv'
<1>1. /\ buf.read \in Nat /\ buf.write \in Nat /\ buf.size \in Nat /\ buf.mem \in [0 .. buf.size - 1 -> Nat]
      /\ kCheapPrepend <= buf.read /\ buf.read <= buf.write /\ buf.write <= buf.size /\ received \in Nat
      /\ kCheapPrepend \in Nat /\ len \in Nat /\ buf.write - buf.read <= received
  BY BufferAssumption DEF BufferInv, Buffers
<1>2. received' = received
  BY DEF ReadBytes
<1>3. CASE len < buf.write - buf.read
  <2> DEFINE r == buf.read + len
  <2>1. buf' = [buf EXCEPT !.read = r] /\ r \in Nat /\ buf.read <= r /\ r <= buf.write
    BY <1>1, <1>3 DEF ReadBytes, ReadableBytes
  <2> HIDE DEF r
  <2>2. /\ buf'.read = r /\ buf'.write = buf.write /\ buf'.size = buf.size /\ buf'.mem = buf.mem
        /\ buf' \in [read : Nat, write : Nat, size : Nat, mem : [0 .. buf.size - 1 -> Nat]]
    BY <2>1 DEF BufferInv, Buffers
  <2>3. \A i \in buf'.read .. buf'.write - 1 : buf'.mem[i] = received' - buf'.write + i + 1
    BY <1>1, <1>2, <2>1, <2>2 DEF BufferInv, Buffers
  <2>4. buf' \in [read : Nat, write : Nat, size : Nat, mem : [0 .. buf'.size - 1 -> Nat]]
    BY <2>2
  <2>5. /\ kCheapPrepend <= buf'.read /\ buf'.read <= buf'.write /\ buf'.write <= buf'.size
        /\ received' \in Nat /\ buf'.write - buf'.read <= received'
    BY <1>1, <1>2, <2>1, <2>2
  <2>. QED
    BY <2>3, <2>4, <2>5 DEF BufferInv, Buffers
<1>4. CASE ~ (len < buf.write - buf.read)
  <2>1. buf' = [buf EXCEPT !.read = kCheapPrepend, !.write = kCheapPrepend]
    BY <1>4 DEF ReadBytes, ReadableBytes
  <2>2. /\ buf'.read = kCheapPrepend /\ buf'.write = kCheapPrepend /\ buf'.size = buf.size /\ buf'.mem = buf.mem
        /\ buf' \in [read : Nat, write : Nat, size : Nat, mem : [0 .. buf.size - 1 -> Nat]]
    BY <1>1, <2>1 DEF BufferInv, Buffers
  <2>3. \A i \in buf'.read .. buf'.write - 1 : FALSE
    BY <1>1, <2>2
  <2>4. buf' \in [read : Nat, write : Nat, size : Nat, mem : [0 .. buf'.size - 1 -> Nat]]
    BY <2>2
  <2>. QED
    BY <1>1, <1>2, <2>2, <2>3, <2>4 DEF BufferInv, Buffers
<1>. QED
  BY <1>3, <1>4

-----------------------------------------------------------------------------
(* The input buffer holds the newest bytes that were received, in order and  *)
(* in its bounds, however it was moved or grew (bytebuffer.cc).              *)
THEOREM BufferStaysFifo == BytesSpec => []BufferIsFifo
<1>1. BufferInv /\ [BytesNext]_bytevars => BufferInv'
  <2> SUFFICES ASSUME BufferInv, [BytesNext]_bytevars PROVE BufferInv'
    OBVIOUS
  <2>1. CASE UNCHANGED <<buf, received>>
    BY <2>1 DEF BufferInv
  <2>2. CASE HandleWrite \/ \E shape \in Shapes : Send(shape)
    BY <2>1, <2>2 DEF HandleWrite, Send
  <2>. QED
    BY <2>1, <2>2, ReadvStep, ReadBytesStep DEF BytesNext, bytevars
<1>. QED
  BY <1>1, BufferInitial, BuffersIsFifo, PTL DEF BytesSpec

-----------------------------------------------------------------------------
(***************************************************************************)
(* What a recursive function over the places of a list computes is proved  *)
(* by counting: outside the set of the numbers for which a fact holds      *)
(* there is no least number.                                               *)
(***************************************************************************)
LEMMA Counted ==
  ASSUME NEW T, 0 \in T, \A k \in Nat : k \in T => k + 1 \in T
  PROVE  Nat \subseteq T
<1> DEFINE U == Nat \ T
<1>1. ASSUME NEW m \in U PROVE FALSE
  <2>1. U \subseteq Nat /\ U # {}
    BY <1>1
  <2> HIDE DEF U
  <2>2. PICK k \in U : \A j \in U : ~ (<<j, k>> \in OpToRel(<, Nat))
    BY <2>1, WFMin, NatLessThanWellFounded
  <2>3. k \in Nat /\ k \notin T
    BY <2>2 DEF U
  <2>4. k # 0
    BY <2>3
  <2>5. k - 1 \in Nat /\ (k - 1) + 1 = k /\ k - 1 < k
    BY <2>3, <2>4
  <2>6. <<k - 1, k>> \in OpToRel(<, Nat)
    BY <2>3, <2>5 DEF OpToRel
  <2>7. k - 1 \in T
    BY <2>2, <2>5, <2>6 DEF U
  <2>. QED
    BY <2>3, <2>5, <2>7
<1>. QED
  BY <1>1

(* FlattenSeq of n sequences is the last of what their beginnings are joined to. *)
Joins(tt, n, g) == g[0] = <<>> /\ \A i \in 1 .. n : g[i] = g[i - 1] \o tt[i]
LEMMA FlattenBy ==
  ASSUME NEW S, NEW n \in Nat, NEW tt \in [1 .. n -> Seq(S)], NEW g \in [0 .. n -> Seq(S)], Joins(tt, n, g)
  PROVE  FlattenSeq(tt) = g[n] /\ FlattenSeq(tt) \in Seq(S)
<1>1. tt \in Seq(Seq(S)) /\ Len(tt) = n
  OBVIOUS
<1>2. CASE n = 0
  BY <1>1, <1>2 DEF FlattenSeq, Joins
<1>3. CASE n # 0
  <2> DEFINE Is(f) == f = [i \in 1 .. n |-> IF i = 1 THEN tt[i] ELSE f[i - 1] \o tt[i]]
             f == CHOOSE x : Is(x)
  <2>1. FlattenSeq(tt) = f[n]
    BY <1>1, <1>3 DEF FlattenSeq
  <2>2. PICK h : h = [i \in 1 .. n |-> g[i]]
    OBVIOUS
  <2>3. Is(h)
    <3>1. ASSUME NEW i \in 1 .. n PROVE h[i] = IF i = 1 THEN tt[i] ELSE h[i - 1] \o tt[i]
      <4>1. CASE i = 1
        <5>1. h[1] = g[1] /\ 1 \in 1 .. n
          BY <1>3, <2>2, <4>1
        <5>8. g[1] = g[1 - 1] \o tt[1] /\ g[0] = <<>>
          BY <5>1, Zenon DEF Joins
        <5>9. 1 - 1 = 0
          OBVIOUS
        <5>2. g[1] = <<>> \o tt[1]
          BY <5>8, <5>9, Zenon
        <5>4. tt[1] \in Seq(S)
          BY <5>1
        <5>3. g[1] = tt[1]
          BY <5>2, <5>4, ConcatEmptySeq
        <5>. QED
          BY <5>1, <5>3, <4>1
      <4>2. CASE i # 1
        <5>1. i - 1 \in 1 .. n
          BY <4>2
        <5>. QED
          BY <5>1, <2>2, <4>2 DEF Joins
      <4>. QED
        BY <4>1, <4>2
    <3>2. h = [i \in 1 .. n |-> h[i]]
      BY <2>2
    <3>. QED
      BY <3>1, <3>2
  <2>4. Is(f)
    <3>1. \E x : Is(x)
      BY <2>3
    <3>. QED
      BY <3>1, Zenon
  <2> HIDE DEF f
  <2>5. \A i \in 1 .. n : f[i] = IF i = 1 THEN tt[i] ELSE f[i - 1] \o tt[i]
    BY <2>4
  <2> DEFINE T == {k \in Nat : k + 1 \in 1 .. n => f[k + 1] = g[k + 1]}
  <2>6. 0 \in T
    <3>1. 1 \in 1 .. n
      BY <1>3
    <3>2. PICK i \in 1 .. n : i = 1
      BY <3>1
    <3>8. g[1] = g[1 - 1] \o tt[1] /\ g[0] = <<>>
      BY <3>1, Zenon DEF Joins
    <3>9. 1 - 1 = 0
      OBVIOUS
    <3>3. g[1] = <<>> \o tt[1]
      BY <3>8, <3>9, Zenon
    <3>4. tt[1] \in Seq(S)
      BY <3>1
    <3>5. g[1] = tt[1]
      BY <3>3, <3>4, ConcatEmptySeq
    <3>6. f[1] = tt[1]
      BY <3>1, <2>5
    <3>. QED
      BY <3>5, <3>6
  <2>7. ASSUME NEW k \in Nat, k \in T PROVE k + 1 \in T
    <3>1. SUFFICES ASSUME (k + 1) + 1 \in 1 .. n PROVE f[(k + 1) + 1] = g[(k + 1) + 1]
      OBVIOUS
    <3>2. k + 1 \in 1 .. n /\ (k + 1) + 1 # 1 /\ ((k + 1) + 1) - 1 = k + 1
      BY <3>1
    <3>3. f[k + 1] = g[k + 1]
      BY <3>2, <2>7
    <3>4. f[(k + 1) + 1] = f[k + 1] \o tt[(k + 1) + 1] /\ g[(k + 1) + 1] = g[k + 1] \o tt[(k + 1) + 1]
      <4>1. PICK i \in 1 .. n : i = (k + 1) + 1
        BY <3>1
      <4>2. f[i] = f[i - 1] \o tt[i] /\ g[i] = g[i - 1] \o tt[i] /\ i - 1 = k + 1
        BY <4>1, <3>2, <2>5 DEF Joins
      <4>. QED
        BY <4>1, <4>2
    <3>. QED
      BY <3>3, <3>4
  <2>8. Nat \subseteq T
    <3> HIDE DEF T
    <3>. QED
      BY <2>6, <2>7, Counted
  <2>9. n - 1 \in Nat /\ (n - 1) + 1 = n
    BY <1>3
  <2>10. f[n] = g[n]
    <3>1. n - 1 \in T
      BY <2>8, <2>9
    <3>2. (n - 1) + 1 \in 1 .. n => f[(n - 1) + 1] = g[(n - 1) + 1]
      BY <3>1
    <3>. QED
      BY <3>2, <2>9, <1>3
  <2>. QED
    BY <2>1, <2>10
<1>. QED
  BY <1>2, <1>3

LEMMA FlattenJoins ==
  ASSUME NEW S, NEW n \in Nat, NEW tt \in [1 .. n -> Seq(S)]
  PROVE  \E g \in [0 .. n -> Seq(S)] : Joins(tt, n, g)
<1> DEFINE T == {k \in Nat : k <= n => \E g \in [0 .. k -> Seq(S)] : Joins(tt, k, g)}
<1>1. 0 \in T
  <2>1. PICK g : g = [i \in 0 .. 0 |-> <<>>]
    OBVIOUS
  <2>2. g \in [0 .. 0 -> Seq(S)] /\ Joins(tt, 0, g)
    BY <2>1 DEF Joins
  <2>. QED
    BY <2>2
<1>2. ASSUME NEW k \in Nat, k \in T PROVE k + 1 \in T
  <2>1. SUFFICES ASSUME k + 1 <= n PROVE \E g \in [0 .. k + 1 -> Seq(S)] : Joins(tt, k + 1, g)
    OBVIOUS
  <2>2. PICK g \in [0 .. k -> Seq(S)] : Joins(tt, k, g)
    BY <2>1, <1>2
  <2>3. PICK h : h = [i \in 0 .. k + 1 |-> IF i = k + 1 THEN g[k] \o tt[k + 1] ELSE g[i]]
    OBVIOUS
  <2>4. k + 1 \in 1 .. n /\ tt[k + 1] \in Seq(S) /\ g[k] \in Seq(S)
    BY <2>1
  <2>5. ASSUME NEW i \in 0 .. k + 1 PROVE (IF i = k + 1 THEN g[k] \o tt[k + 1] ELSE g[i]) \in Seq(S)
    <3>1. CASE i = k + 1
      BY <2>4, <3>1
    <3>2. CASE i # k + 1
      <4>1. i \in 0 .. k
        BY <3>2
      <4>. QED
        BY <4>1, <3>2
    <3>. QED
      BY <3>1, <3>2
  <2>6. h \in [0 .. k + 1 -> Seq(S)]
    BY <2>3, <2>5
  <2>7. Joins(tt, k + 1, h)
    <3>1. h[0] = <<>>
      BY <2>2, <2>3 DEF Joins
    <3>2. ASSUME NEW i \in 1 .. k + 1 PROVE h[i] = h[i - 1] \o tt[i]
      <4>1. i - 1 \in 0 .. k /\ i - 1 # k + 1 /\ i \in 0 .. k + 1
        OBVIOUS
      <4>4. h[i] = (IF i = k + 1 THEN g[k] \o tt[k + 1] ELSE g[i]) /\ h[i - 1] = g[i - 1]
        BY <4>1, <2>3
      <4>2. CASE i = k + 1
        <5>1. i - 1 = k
          BY <4>2
        <5>. QED
          BY <5>1, <4>2, <4>4
      <4>3. CASE i # k + 1
        <5>1. i \in 1 .. k
          BY <4>3
        <5>. QED
          BY <5>1, <4>3, <4>4, <2>2 DEF Joins
      <4>. QED
        BY <4>2, <4>3
    <3>. QED
      BY <3>1, <3>2 DEF Joins
  <2>. QED
    BY <2>6, <2>7
<1>3. n \in T
  <2> HIDE DEF T
  <2>1. Nat \subseteq T
    BY <1>1, <1>2, Counted
  <2>. QED
    BY <2>1
<1>. QED
  BY <1>3
Associate(a, b, c) == (a \o b) \o c = a \o (b \o c)
LEMMA Associates ==
  ASSUME NEW S, NEW a \in Seq(S), NEW b \in Seq(S), NEW c \in Seq(S)
  PROVE  Associate(a, b, c)
BY DEF Associate

(* One sequence more in front, and one behind. *)
LEMMA FlattenFirst ==
  ASSUME NEW S, NEW n \in Nat, NEW tt \in [1 .. n + 1 -> Seq(S)], NEW rest \in [1 .. n -> Seq(S)],
         \A k \in 1 .. n : rest[k] = tt[k + 1]
  PROVE  FlattenSeq(tt) = tt[1] \o FlattenSeq(rest)
<1>1. rest \in [1 .. n -> Seq(S)] /\ tt[1] \in Seq(S)
  OBVIOUS
<1>2. PICK g \in [0 .. n -> Seq(S)] : Joins(rest, n, g)
  BY <1>1, FlattenJoins
<1>3. FlattenSeq(rest) = g[n]
  BY <1>1, <1>2, FlattenBy
<1>4. PICK h : h = [k \in 0 .. n + 1 |-> IF k = 0 THEN <<>> ELSE tt[1] \o g[k - 1]]
  OBVIOUS
<1>5. ASSUME NEW k \in 0 .. n + 1 PROVE (IF k = 0 THEN <<>> ELSE tt[1] \o g[k - 1]) \in Seq(S)
  <2>1. CASE k = 0
    BY <2>1
  <2>2. CASE k # 0
    <3>1. k - 1 \in 0 .. n
      BY <2>2
    <3>2. g[k - 1] \in Seq(S)
      BY <3>1
    <3>. QED
      BY <3>2, <2>2, <1>1, ConcatProperties
  <2>. QED
    BY <2>1, <2>2
<1>6. h \in [0 .. n + 1 -> Seq(S)] /\ n + 1 \in Nat
  BY <1>4, <1>5
<1>7. Joins(tt, n + 1, h)
  <2>1. h[0] = <<>>
    BY <1>4
  <2>2. ASSUME NEW i \in 1 .. n + 1 PROVE h[i] = h[i - 1] \o tt[i]
    <3>0. i \in 0 .. n + 1 /\ i # 0
      OBVIOUS
    <3>9. h[i] = tt[1] \o g[i - 1]
      BY <3>0, <1>4, Zenon
    <3>8. i - 1 \in 0 .. n + 1 /\ i - 1 \in 0 .. n
      OBVIOUS
    <3>1. h[i] = tt[1] \o g[i - 1] /\ i - 1 \in 0 .. n + 1 /\ i - 1 \in 0 .. n
      BY <3>8, <3>9, Zenon
    <3>2. CASE i = 1
      <4>1. g[i - 1] = <<>> /\ h[i - 1] = <<>>
        BY <3>2, <2>1, <1>2 DEF Joins
      <4>. QED
        BY <4>1, <3>1, <3>2, <1>1, ConcatEmptySeq
    <3>3. CASE i # 1
      <4>1. i - 1 \in 1 .. n /\ (i - 1) + 1 = i /\ i - 1 # 0 /\ (i - 1) - 1 \in 0 .. n
        BY <3>3
      <4>2. rest[i - 1] = tt[i]
        BY <4>1
      <4>3. g[i - 1] = g[(i - 1) - 1] \o rest[i - 1]
        BY <4>1, <1>2 DEF Joins
      <4>4. h[i - 1] = tt[1] \o g[(i - 1) - 1]
        BY <4>1, <3>1, <1>4
      <4>5. g[(i - 1) - 1] \in Seq(S) /\ tt[i] \in Seq(S)
        BY <4>1
      <4>. QED
        <5>1. tt[1] \o (g[(i - 1) - 1] \o tt[i]) = (tt[1] \o g[(i - 1) - 1]) \o tt[i]
          <6>1. PICK a \in Seq(S), b \in Seq(S), c \in Seq(S) : a = tt[1] /\ b = g[(i - 1) - 1] /\ c = tt[i]
            BY <4>5, <1>1
          <6>2. Associate(a, b, c)
            BY Associates
          <6>. QED
            BY <6>1, <6>2, Zenon DEF Associate
        <5>. QED
          BY <4>2, <4>3, <4>4, <5>1, <3>1, Zenon
    <3>. QED
      BY <3>2, <3>3
  <2>. QED
    BY <2>1, <2>2 DEF Joins
<1>8. FlattenSeq(tt) = h[n + 1]
  BY <1>6, <1>7, FlattenBy
<1>9. h[n + 1] = tt[1] \o g[n]
  <2>1. PICK k \in 0 .. n + 1 : k = n + 1
    OBVIOUS
  <2>2. k # 0 /\ k - 1 = n
    BY <2>1
  <2>. QED
    BY <2>1, <2>2, <1>4
<1>. QED
  BY <1>3, <1>8, <1>9

LEMMA FlattenLast ==
  ASSUME NEW S, NEW n \in Nat, NEW tt \in [1 .. n + 1 -> Seq(S)], NEW front, front = [k \in 1 .. n |-> tt[k]]
  PROVE  FlattenSeq(tt) = FlattenSeq(front) \o tt[n + 1]
<1>1. front \in [1 .. n -> Seq(S)]
  OBVIOUS
<1>9. n + 1 \in Nat
  OBVIOUS
<1>2. PICK g \in [0 .. n + 1 -> Seq(S)] : Joins(tt, n + 1, g)
  BY <1>9, FlattenJoins
<1>3. PICK h : h = [k \in 0 .. n |-> g[k]]
  OBVIOUS
<1>4. h \in [0 .. n -> Seq(S)]
  BY <1>3
<1>5. Joins(front, n, h)
  <2>1. h[0] = <<>>
    BY <1>2, <1>3 DEF Joins
  <2>2. ASSUME NEW i \in 1 .. n PROVE h[i] = h[i - 1] \o front[i]
    <3>1. i \in 1 .. n + 1 /\ i \in 0 .. n /\ i - 1 \in 0 .. n
      OBVIOUS
    <3>2. g[i] = g[i - 1] \o tt[i]
      BY <3>1, <1>2, Zenon DEF Joins
    <3>3. h[i] = g[i] /\ h[i - 1] = g[i - 1] /\ front[i] = tt[i]
      BY <3>1, <1>3
    <3>. QED
      BY <3>2, <3>3, Zenon
  <2>. QED
    BY <2>1, <2>2 DEF Joins
<1>6. FlattenSeq(front) = g[n]
  <2>1. FlattenSeq(front) = h[n]
    BY <1>1, <1>4, <1>5, FlattenBy
  <2>. QED
    BY <2>1, <1>3
<1>7. FlattenSeq(tt) = g[n + 1]
  BY <1>2, <1>9, FlattenBy
<1>8. g[n + 1] = g[n] \o tt[n + 1]
  <2>1. PICK i \in 1 .. n + 1 : i = n + 1
    OBVIOUS
  <2>2. g[i] = g[i - 1] \o tt[i]
    BY <1>2, Zenon DEF Joins
  <2>3. i - 1 = n
    BY <2>1
  <2>. QED
    BY <2>1, <2>2, <2>3, Zenon
<1>. QED
  BY <1>6, <1>7, <1>8

(* How far the beginnings reach, and all that is behind a place. *)
Grows(tt, n, g) ==
         /\ \A i \in 1 .. n : Len(g[i]) = Len(g[i - 1]) + Len(tt[i]) /\ Len(g[i]) \in Nat
         /\ \A i, k \in 0 .. n : i <= k => Len(g[i]) <= Len(g[k])
LEMMA JoinsGrow ==
  ASSUME NEW S, NEW n \in Nat, NEW tt \in [1 .. n -> Seq(S)], NEW g \in [0 .. n -> Seq(S)], Joins(tt, n, g)
  PROVE  Grows(tt, n, g)
<1>1. ASSUME NEW i \in 1 .. n PROVE Len(g[i]) = Len(g[i - 1]) + Len(tt[i]) /\ Len(g[i]) \in Nat /\ Len(tt[i]) \in Nat
  <2>1. g[i] = g[i - 1] \o tt[i]
    BY DEF Joins
  <2>2. g[i - 1] \in Seq(S) /\ tt[i] \in Seq(S) /\ g[i] \in Seq(S)
    <3>1. i - 1 \in 0 .. n /\ i \in 0 .. n
      OBVIOUS
    <3>. QED
      BY <3>1
  <2>. QED
    BY <2>1, <2>2, ConcatProperties, LenProperties
<1>2. ASSUME NEW i \in 0 .. n PROVE Len(g[i]) \in Nat
  <2>1. g[i] \in Seq(S)
    OBVIOUS
  <2>. QED
    BY <2>1, LenProperties
<1>3. ASSUME NEW i \in 0 .. n PROVE \A k \in Nat : i + k <= n => Len(g[i]) <= Len(g[i + k])
  <2> DEFINE T == {k \in Nat : i + k <= n => Len(g[i]) <= Len(g[i + k])}
  <2>1. 0 \in T
    <3>1. i + 0 = i /\ Len(g[i]) \in Nat
      BY <1>2
    <3>. QED
      BY <3>1
  <2>2. ASSUME NEW k \in Nat, k \in T PROVE k + 1 \in T
    <3>1. SUFFICES ASSUME i + (k + 1) <= n PROVE Len(g[i]) <= Len(g[i + (k + 1)])
      OBVIOUS
    <3>2. PICK j \in 1 .. n : j = i + (k + 1)
      BY <3>1
    <3>3. j - 1 = i + k /\ i + k \in 0 .. n /\ i + k <= n
      BY <3>2
    <3>4. Len(g[i]) <= Len(g[i + k])
      BY <3>3, <2>2
    <3>5. Len(g[j]) = Len(g[i + k]) + Len(tt[j]) /\ Len(tt[j]) \in Nat
      BY <3>3, <1>1
    <3>6. Len(g[i]) \in Nat /\ Len(g[i + k]) \in Nat
      BY <3>3, <1>2
    <3>7. Len(g[i]) <= Len(g[j])
      BY <3>4, <3>5, <3>6
    <3>. QED
      BY <3>7, <3>2
  <2> HIDE DEF T
  <2>3. Nat \subseteq T
    BY <2>1, <2>2, Counted
  <2>. QED
    BY <2>3 DEF T
<1>4. ASSUME NEW i \in 0 .. n, NEW k \in 0 .. n, i <= k PROVE Len(g[i]) <= Len(g[k])
  <2>1. k - i \in Nat /\ i + (k - i) = k /\ i + (k - i) <= n
    BY <1>4
  <2>2. Len(g[i]) <= Len(g[i + (k - i)])
    BY <2>1, <1>3
  <2>. QED
    BY <2>1, <2>2
<1>. QED
  BY <1>1, <1>4 DEF Grows

LEMMA CutConcat ==
  ASSUME NEW S, NEW s \in Seq(S), NEW t \in Seq(S), NEW m \in 0 .. Len(s)
  PROVE  SubSeq(s \o t, m + 1, Len(s \o t)) = SubSeq(s, m + 1, Len(s)) \o t
<1>1. Len(s) \in Nat /\ Len(t) \in Nat
  BY LenProperties
<1>2. Len(s \o t) = Len(s) + Len(t) /\ s \o t \in Seq(S)
     /\ \A i \in 1 .. Len(s) + Len(t) : (s \o t)[i] = IF i <= Len(s) THEN s[i] ELSE t[i - Len(s)]
  BY ConcatProperties
<1> DEFINE a == s \o t
           left == SubSeq(a, m + 1, Len(a))
           cut == SubSeq(s, m + 1, Len(s))
<1>3. cut \in Seq(S) /\ Len(cut) = Len(s) - m /\ \A i \in 1 .. Len(s) - m : cut[i] = s[m + i]
  BY <1>1
<1>4. /\ cut \o t \in Seq(S) /\ Len(cut \o t) = (Len(s) - m) + Len(t)
      /\ \A i \in 1 .. (Len(s) - m) + Len(t) :
           (cut \o t)[i] = IF i <= Len(s) - m THEN cut[i] ELSE t[i - (Len(s) - m)]
  <2>1. PICK c : c = cut
    OBVIOUS
  <2>2. c \in Seq(S) /\ Len(c) = Len(s) - m
    BY <2>1, <1>3
  <2>3. /\ c \o t \in Seq(S) /\ Len(c \o t) = Len(c) + Len(t)
        /\ \A i \in 1 .. Len(c) + Len(t) : (c \o t)[i] = IF i <= Len(c) THEN c[i] ELSE t[i - Len(c)]
    BY <2>2, ConcatProperties
  <2> HIDE DEF cut
  <2>. QED
    BY <2>1, <2>2, <2>3, Zenon
<1>5. left \in Seq(S) /\ Len(left) = (Len(s) + Len(t)) - m /\ \A i \in 1 .. (Len(s) + Len(t)) - m : left[i] = a[m + i]
  <2> HIDE DEF a
  <2>1. a \in Seq(S) /\ Len(a) = Len(s) + Len(t)
    BY <1>2 DEF a
  <2>. QED
    BY <2>1, <1>1
<1>6. ASSUME NEW i \in 1 .. (Len(s) + Len(t)) - m PROVE left[i] = (cut \o t)[i]
  <2>1. m + i \in 1 .. Len(s) + Len(t) /\ i \in 1 .. (Len(s) - m) + Len(t)
    BY <1>1
  <2>2. left[i] = IF m + i <= Len(s) THEN s[m + i] ELSE t[(m + i) - Len(s)]
    BY <2>1, <1>2, <1>5
  <2>3. (cut \o t)[i] = IF i <= Len(s) - m THEN cut[i] ELSE t[i - (Len(s) - m)]
    BY <2>1, <1>4
  <2>4. (m + i) - Len(s) = i - (Len(s) - m) /\ (m + i <= Len(s) <=> i <= Len(s) - m)
    BY <1>1
  <2>5. i <= Len(s) - m => cut[i] = s[m + i]
    BY <1>3
  <2> HIDE DEF left, cut
  <2>. QED
    BY <2>2, <2>3, <2>4, <2>5
<1>7. (Len(s) + Len(t)) - m = (Len(s) - m) + Len(t)
  BY <1>1
<1> HIDE DEF left, cut, a
<1>8. left = cut \o t
  <2>1. PICK u : u = cut \o t
    OBVIOUS
  <2>2. u \in Seq(S) /\ Len(u) = Len(left) /\ \A i \in 1 .. Len(left) : left[i] = u[i]
    BY <2>1, <1>4, <1>5, <1>6, <1>7
  <2>3. left = u
    BY <2>2, <1>5, SeqEqual
  <2>. QED
    BY <2>1, <2>3
<1>. QED
  BY <1>8 DEF left, cut, a

Remains(uu, g, n, i, o, S) ==
  FlattenSeq(uu) = SubSeq(g[n], Len(g[i - 1]) + o + 1, Len(g[n])) /\ FlattenSeq(uu) \in Seq(S)
LEMMA FlattenFrom ==
  ASSUME NEW S, NEW n \in Nat, NEW tt \in [1 .. n -> Seq(S)], NEW g \in [0 .. n -> Seq(S)], Joins(tt, n, g),
         NEW i \in 1 .. n, NEW o \in 0 .. Len(tt[i]), NEW uu,
         uu = [k \in 1 .. n |-> IF k < i THEN <<>> ELSE IF k = i THEN SubSeq(tt[k], o + 1, Len(tt[k])) ELSE tt[k]]
  PROVE  Remains(uu, g, n, i, o, S)
<1> DEFINE m == Len(g[i - 1]) + o
<1>1. tt[i] \in Seq(S) /\ i - 1 \in 0 .. n
  OBVIOUS
<1>2. Len(tt[i]) \in Nat /\ Len(g[i - 1]) \in Nat /\ o \in Nat /\ o <= Len(tt[i]) /\ m \in Nat
  <2>1. g[i - 1] \in Seq(S)
    BY <1>1
  <2>. QED
    BY <2>1, <1>1, LenProperties
<1>3. ASSUME NEW k \in i .. n PROVE g[k] \in Seq(S) /\ Len(g[k]) \in Nat /\ m <= Len(g[k])
  <2>1. k \in 0 .. n /\ i \in 0 .. n /\ i <= k
    OBVIOUS
  <2>2. g[k] \in Seq(S)
    BY <2>1
  <2>3. Len(g[i]) = Len(g[i - 1]) + Len(tt[i]) /\ Len(g[i]) <= Len(g[k])
    <3>1. Grows(tt, n, g)
      BY JoinsGrow
    <3>. QED
      BY <2>1, <3>1 DEF Grows
  <2>4. Len(g[k]) \in Nat
    BY <2>2, LenProperties
  <2>. QED
    BY <2>2, <2>3, <2>4, <1>2
<1> HIDE DEF m
<1>4. PICK h : h = [k \in 0 .. n |-> IF k < i THEN <<>> ELSE SubSeq(g[k], m + 1, Len(g[k]))]
  OBVIOUS
<1>5. ASSUME NEW k \in 0 .. n PROVE (IF k < i THEN <<>> ELSE SubSeq(g[k], m + 1, Len(g[k]))) \in Seq(S)
  <2>1. CASE k < i
    BY <2>1
  <2>2. CASE ~ (k < i)
    <3>1. k \in i .. n
      BY <2>2
    <3>2. g[k] \in Seq(S) /\ Len(g[k]) \in Nat
      BY <3>1, <1>3
    <3>. QED
      BY <3>2, <2>2, <1>2, SMTT(40)
  <2>. QED
    BY <2>1, <2>2
<1>6. h \in [0 .. n -> Seq(S)]
  BY <1>4, <1>5
<1>7. ASSUME NEW k \in 1 .. n
      PROVE (IF k < i THEN <<>> ELSE IF k = i THEN SubSeq(tt[k], o + 1, Len(tt[k])) ELSE tt[k]) \in Seq(S)
  <2>1. tt[k] \in Seq(S)
    OBVIOUS
  <2>2. SubSeq(tt[i], o + 1, Len(tt[i])) \in Seq(S)
    BY <1>1, <1>2
  <2>. QED
    BY <2>1, <2>2
<1>8. uu \in [1 .. n -> Seq(S)]
  BY <1>7
<1>9. Joins(uu, n, h)
  <2>1. h[0] = <<>>
    BY <1>4
  <2>2. ASSUME NEW k \in 1 .. n PROVE h[k] = h[k - 1] \o uu[k]
    <3>5. g[k] = g[k - 1] \o tt[k]
      BY Zenon DEF Joins
    <3>6. k \in 0 .. n /\ k - 1 \in 0 .. n /\ tt[k] \in Seq(S) /\ (k - 1 < i <=> k <= i)
      OBVIOUS
    <3>7. g[k] \in Seq(S) /\ g[k - 1] \in Seq(S)
      BY <3>6
    <3>1. k \in 0 .. n /\ k - 1 \in 0 .. n /\ g[k] = g[k - 1] \o tt[k] /\ tt[k] \in Seq(S)
      BY <3>5, <3>6, Zenon
    <3>8. /\ h[k] = (IF k < i THEN <<>> ELSE SubSeq(g[k], m + 1, Len(g[k])))
          /\ h[k - 1] = (IF k - 1 < i THEN <<>> ELSE SubSeq(g[k - 1], m + 1, Len(g[k - 1])))
          /\ uu[k] = IF k < i THEN <<>> ELSE IF k = i THEN SubSeq(tt[k], o + 1, Len(tt[k])) ELSE tt[k]
      <4> HIDE DEF Joins
      <4>. QED
        BY <3>6, <1>4, Zenon
    <3>2. CASE k < i
      <4>1. k < i /\ k - 1 < i
        BY <3>2
      <4>2. h[k] = <<>> /\ h[k - 1] = <<>> /\ uu[k] = <<>>
        BY <4>1, <3>8, Zenon
      <4>3. <<>> \in Seq(S)
        OBVIOUS
      <4>. QED
        BY <4>2, <4>3, ConcatEmptySeq
    <3>3. CASE k = i
      <4>1. h[k] = SubSeq(g[k], m + 1, Len(g[k])) /\ h[k - 1] = <<>> /\ uu[k] = SubSeq(tt[k], o + 1, Len(tt[k]))
        <5>1. ~ (k < i) /\ k - 1 < i
          BY <3>3
        <5>. QED
          BY <5>1, <3>3, <3>8, Zenon
      <4>2. SubSeq(g[k], m + 1, Len(g[k])) = SubSeq(tt[k], o + 1, Len(tt[k]))
        <5>1. PICK a, b : a = g[k - 1] /\ b = tt[k]
          OBVIOUS
        <5>2. a \in Seq(S) /\ b \in Seq(S) /\ Len(a) \in Nat /\ Len(b) \in Nat /\ m = Len(a) + o /\ o \in 0 .. Len(b)
          BY <5>1, <3>1, <3>3, <1>2 DEF m
        <5>3. Len(a \o b) = Len(a) + Len(b) /\ a \o b \in Seq(S)
              /\ \A j \in 1 .. Len(a) + Len(b) : (a \o b)[j] = IF j <= Len(a) THEN a[j] ELSE b[j - Len(a)]
          BY <5>2, ConcatProperties
        <5>4. SubSeq(a \o b, m + 1, Len(a \o b)) = SubSeq(b, o + 1, Len(b))
          BY <5>2, <5>3, SMTT(40)
        <5>. QED
          BY <5>1, <5>4, <3>1
      <4>3. SubSeq(tt[k], o + 1, Len(tt[k])) \in Seq(S)
        BY <3>3, <1>1, <1>2
      <4>. QED
        BY <4>1, <4>2, <4>3, ConcatEmptySeq
    <3>4. CASE k > i
      <4>1. h[k] = SubSeq(g[k], m + 1, Len(g[k])) /\ h[k - 1] = SubSeq(g[k - 1], m + 1, Len(g[k - 1])) /\ uu[k] = tt[k]
        <5>1. ~ (k < i) /\ ~ (k - 1 < i) /\ k # i
          BY <3>4
        <5>. QED
          BY <5>1, <3>8, Zenon
      <4>2. k - 1 \in i .. n
        BY <3>4
      <4>3. g[k - 1] \in Seq(S) /\ m \in 0 .. Len(g[k - 1])
        BY <4>2, <1>2, <1>3
      <4>4. PICK a, b : a = g[k - 1] /\ b = tt[k]
        OBVIOUS
      <4>5. SubSeq(a \o b, m + 1, Len(a \o b)) = SubSeq(a, m + 1, Len(a)) \o b
        BY <4>3, <4>4, <3>6, CutConcat
      <4>. QED
        BY <4>1, <4>4, <4>5, <3>5, Zenon
    <3>9. k < i \/ k = i \/ k > i
      OBVIOUS
    <3>. QED
      BY <3>2, <3>3, <3>4, <3>9
  <2>. QED
    BY <2>1, <2>2 DEF Joins
<1>10. FlattenSeq(uu) = h[n] /\ FlattenSeq(uu) \in Seq(S)
  BY <1>6, <1>8, <1>9, FlattenBy
<1>11. h[n] = SubSeq(g[n], m + 1, Len(g[n]))
  <2>1. n \in 0 .. n /\ ~ (n < i)
    OBVIOUS
  <2>. QED
    BY <2>1, <1>4, Zenon
<1>. QED
  BY <1>10, <1>11 DEF m, Remains

(***************************************************************************)
(* SendBuffer: what a ByteData still has to hand to writev().              *)
(***************************************************************************)
Packets == [kind : {"borrowed", "copy", "file"}, data : Seq(Nat)]
IsByteData(d) ==
  /\ d \in [packets : Seq(Packets), index : Nat, offset : Nat]
  /\ d.index \in 1 .. Len(d.packets) /\ d.offset \in 0 .. PacketSize(d, d.index)
\* g tells where the packets of d end; what remains is all behind where d stands.
Stands(d) == Before(d, d.index) + d.offset
Reaching(d, g) ==
  /\ g \in [0 .. Len(d.packets) -> Seq(Nat)]
  /\ \A i \in 0 .. Len(d.packets) : Before(d, i + 1) = Len(g[i]) /\ Len(g[i]) \in Nat
  /\ \A i \in 1 .. Len(d.packets) : Len(g[i]) = Len(g[i - 1]) + PacketSize(d, i)
  /\ \A i, k \in 0 .. Len(d.packets) : i <= k => Len(g[i]) <= Len(g[k])

LEMMA PacketsTyped ==
  ASSUME NEW p \in Seq(Packets), NEW i \in 1 .. Len(p)
  PROVE  p[i].kind \in {"borrowed", "copy", "file"} /\ p[i].data \in Seq(Nat) /\ Len(p[i].data) \in Nat
<1>1. p[i] \in Packets
  BY ElementOfSeq
<1>. QED
  BY <1>1, LenProperties DEF Packets

LEMMA DataReaches ==
  ASSUME NEW p \in Seq(Packets)
  PROVE  \E g : /\ \A d : d.packets = p => Reaching(d, g)
               /\ \A d : d.packets = p /\ d.index \in 1 .. Len(p) /\ d.offset \in 0 .. PacketSize(d, d.index)
                       => Iovs(d) = SubSeq(g[Len(p)], Stands(d) + 1, Len(g[Len(p)])) /\ Iovs(d) \in Seq(Nat)
<1>1. PICK n \in Nat : n = Len(p) /\ DOMAIN p = 1 .. n
  BY LenProperties
<1>2. PICK tt : tt = [i \in 1 .. n |-> p[i].data]
  OBVIOUS
<1>3. tt \in [1 .. n -> Seq(Nat)]
  BY <1>1, <1>2, PacketsTyped
<1>4. PICK g \in [0 .. n -> Seq(Nat)] : Joins(tt, n, g)
  BY <1>3, FlattenJoins
<1>5. /\ \A i \in 1 .. n : Len(g[i]) = Len(g[i - 1]) + Len(tt[i])
      /\ \A i, k \in 0 .. n : i <= k => Len(g[i]) <= Len(g[k])
  <2>1. Grows(tt, n, g)
    BY <1>3, <1>4, JoinsGrow
  <2>. QED
    BY <2>1, Zenon DEF Grows
<1>6. \A i \in 0 .. n : Len(g[i]) \in Nat
  <2>1. ASSUME NEW i \in 0 .. n PROVE Len(g[i]) \in Nat
    <3>1. g[i] \in Seq(Nat)
      OBVIOUS
    <3>. QED
      BY <3>1, LenProperties
  <2>. QED
    BY <2>1
<1>7. ASSUME NEW d, d.packets = p, NEW i \in 0 .. n PROVE Before(d, i + 1) = Len(g[i])
  <2>1. PICK front : front = [k \in 1 .. i |-> tt[k]]
    OBVIOUS
  <2>2. PICK h : h = [k \in 0 .. i |-> g[k]]
    OBVIOUS
  <2>3. front \in [1 .. i -> Seq(Nat)] /\ h \in [0 .. i -> Seq(Nat)] /\ i \in Nat
    <3>1. 1 .. i \subseteq 1 .. n /\ 0 .. i \subseteq 0 .. n /\ i \in Nat
      OBVIOUS
    <3>. QED
      BY <3>1, <2>1, <2>2, <1>3
  <2>4. Joins(front, i, h)
    <3>1. h[0] = <<>>
      BY <2>2, <1>4 DEF Joins
    <3>2. ASSUME NEW k \in 1 .. i PROVE h[k] = h[k - 1] \o front[k]
      <4>1. k \in 1 .. n /\ k \in 0 .. i /\ k - 1 \in 0 .. i
        OBVIOUS
      <4>2. g[k] = g[k - 1] \o tt[k]
        BY <4>1, <1>4, Zenon DEF Joins
      <4>3. h[k] = g[k] /\ h[k - 1] = g[k - 1] /\ front[k] = tt[k]
        BY <4>1, <2>1, <2>2, Zenon
      <4>. QED
        BY <4>2, <4>3, Zenon
    <3>. QED
      BY <3>1, <3>2 DEF Joins
  <2>5. FlattenSeq(front) = h[i]
    BY <2>3, <2>4, FlattenBy
  <2>6. h[i] = g[i]
    BY <2>2
  <2>7. front = [k \in 1 .. (i + 1) - 1 |-> d.packets[k].data]
    <3>1. (i + 1) - 1 = i /\ 1 .. i \subseteq 1 .. n
      OBVIOUS
    <3>. QED
      BY <3>1, <2>1, <1>2, <1>7
  <2>. QED
    BY <2>5, <2>6, <2>7, Zenon DEF Before
<1>8. ASSUME NEW d, d.packets = p PROVE Reaching(d, g)
  <2>1. ASSUME NEW i \in 1 .. n PROVE Len(g[i]) = Len(g[i - 1]) + PacketSize(d, i)
    BY <1>2, <1>5, <1>8 DEF PacketSize
  <2>2. \A i \in 0 .. n : Before(d, i + 1) = Len(g[i])
    BY <1>7, <1>8
  <2>. QED
    BY <2>1, <2>2, <1>1, <1>5, <1>6, <1>8 DEF Reaching
<1>9. ASSUME NEW d, d.packets = p, d.index \in 1 .. n, d.offset \in 0 .. PacketSize(d, d.index)
      PROVE  Iovs(d) = SubSeq(g[n], Stands(d) + 1, Len(g[n])) /\ Iovs(d) \in Seq(Nat)
  <2>1. PICK i, o : i = d.index /\ o = d.offset
    OBVIOUS
  <2>7. i \in 1 .. n
    BY <2>1, <1>9
  <2>2. PICK uu : uu = [k \in 1 .. n |-> IF k < i THEN <<>> ELSE IF k = i THEN SubSeq(tt[k], o + 1, Len(tt[k])) ELSE tt[k]]
    OBVIOUS
  <2>3. o \in 0 .. Len(tt[i])
    BY <2>1, <2>7, <1>2, <1>9 DEF PacketSize
  <2>4. FlattenSeq(uu) = SubSeq(g[n], Len(g[i - 1]) + o + 1, Len(g[n])) /\ FlattenSeq(uu) \in Seq(Nat)
    <3>1. Remains(uu, g, n, i, o, Nat)
      BY <2>2, <2>3, <2>7, <1>3, <1>4, FlattenFrom
    <3>. QED
      BY <3>1 DEF Remains
  <2>5. Iovs(d) = FlattenSeq(uu)
    <3>1. uu = [k \in DOMAIN d.packets |->
                 IF k < d.index THEN <<>>
                 ELSE IF k = d.index THEN SubSeq(d.packets[k].data, d.offset + 1, PacketSize(d, k)) ELSE d.packets[k].data]
      BY <2>1, <2>2, <1>1, <1>2, <1>9 DEF PacketSize
    <3>. QED
      BY <3>1 DEF Iovs
  <2>6. Before(d, i) = Len(g[i - 1])
    <3>1. i - 1 \in 0 .. n /\ (i - 1) + 1 = i
      BY <2>7
    <3>2. Before(d, (i - 1) + 1) = Len(g[i - 1])
      BY <3>1, <1>7, <1>9
    <3>. QED
      BY <3>1, <3>2
  <2>. QED
    BY <2>1, <2>4, <2>5, <2>6 DEF Stands
<1>. QED
  BY <1>1, <1>8, <1>9

LEMMA LeastOf ==
  ASSUME NEW T \in SUBSET Nat, T # {}
  PROVE  \E i \in T : \A j \in T : i <= j
<1>1. PICK i \in T : \A j \in T : ~ (<<j, i>> \in OpToRel(<, Nat))
  BY WFMin, NatLessThanWellFounded
<1>2. ASSUME NEW j \in T PROVE i <= j
  <2>1. i \in Nat /\ j \in Nat
    OBVIOUS
  <2>2. ~ (j < i)
    BY <2>1, <1>1 DEF OpToRel
  <2>. QED
    BY <2>1, <2>2
<1>. QED
  BY <1>2

(* modifyIndexAndOffset: d stands n bytes further (bytedata.cc). *)
LEMMA IndexMoves ==
  ASSUME NEW d, IsByteData(d), NEW n \in 0 .. Len(Iovs(d)), NEW r, r = ModifyIndexAndOffset(d, n)
  PROVE  /\ IsByteData(r) /\ r.packets = d.packets /\ d.index <= r.index
         /\ Iovs(r) = SubSeq(Iovs(d), n + 1, Len(Iovs(d)))
         /\ ~ Remain(r) => Iovs(r) = <<>>
<1> DEFINE p == d.packets
           at == Stands(d) + n
           inside == {i \in d.index .. Len(p) : at < Before(d, i + 1)}
           least == CHOOSE x \in inside : \A y \in inside : x <= y
<1>1. p \in Seq(Packets) /\ d.index \in 1 .. Len(p) /\ d.offset \in 0 .. PacketSize(d, d.index) /\ d.index \in Nat /\ d.offset \in Nat
  BY DEF IsByteData
<1>2. Len(p) \in Nat /\ Len(p) >= 1 /\ d.index <= Len(p)
  <2>1. Len(p) \in Nat
    BY <1>1, LenProperties
  <2>. QED
    BY <2>1, <1>1
<1>3. PICK g : /\ \A x : x.packets = p => Reaching(x, g)
               /\ \A x : x.packets = p /\ x.index \in 1 .. Len(p) /\ x.offset \in 0 .. PacketSize(x, x.index)
                       => Iovs(x) = SubSeq(g[Len(p)], Stands(x) + 1, Len(g[Len(p)])) /\ Iovs(x) \in Seq(Nat)
  BY <1>1, DataReaches
<1> DEFINE all == Len(g[Len(p)])
<1>4. /\ \A i \in 0 .. Len(p) : Before(d, i + 1) = Len(g[i]) /\ Len(g[i]) \in Nat
      /\ \A i \in 1 .. Len(p) : Len(g[i]) = Len(g[i - 1]) + PacketSize(d, i)
      /\ \A i, k \in 0 .. Len(p) : i <= k => Len(g[i]) <= Len(g[k])
      /\ g[Len(p)] \in Seq(Nat)
  <2>1. Reaching(d, g)
    BY <1>3
  <2>. QED
    BY <2>1, <1>2, SMTT(40) DEF Reaching
<1>5. ASSUME NEW i \in 1 .. Len(p)
      PROVE  Before(d, i) = Len(g[i - 1]) /\ Before(d, i) \in Nat /\ Before(d, i + 1) = Len(g[i])
             /\ Len(g[i]) = Before(d, i) + PacketSize(d, i) /\ Len(g[i]) \in Nat /\ PacketSize(d, i) \in Nat /\ Len(g[i]) <= all
  <2>1. i - 1 \in 0 .. Len(p) /\ (i - 1) + 1 = i /\ i \in 0 .. Len(p) /\ Len(p) \in 0 .. Len(p) /\ i <= Len(p)
    BY <1>2
  <2>2. Before(d, (i - 1) + 1) = Len(g[i - 1]) /\ Len(g[i - 1]) \in Nat
    BY <2>1, <1>4
  <2>3. PacketSize(d, i) \in Nat
    BY <1>1, PacketsTyped DEF PacketSize
  <2>4. Before(d, i + 1) = Len(g[i]) /\ Len(g[i]) \in Nat /\ Len(g[i]) = Len(g[i - 1]) + PacketSize(d, i) /\ Len(g[i]) <= all
    BY <2>1, <1>4
  <2>. QED
    BY <2>1, <2>2, <2>3, <2>4
<1> HIDE DEF all
<1>6. /\ Stands(d) \in Nat /\ Stands(d) <= all /\ all \in Nat
      /\ Iovs(d) = SubSeq(g[Len(p)], Stands(d) + 1, all) /\ Iovs(d) \in Seq(Nat) /\ Len(Iovs(d)) = all - Stands(d)
  <2>1. Stands(d) = Before(d, d.index) + d.offset
    BY DEF Stands
  <2>2. Stands(d) \in Nat /\ Stands(d) <= all /\ all \in Nat
    <3>1. all \in Nat
      BY <1>2, <1>4 DEF all
    <3>2. PICK i \in 1 .. Len(p) : i = d.index
      BY <1>1
    <3>3. Before(d, i) \in Nat /\ PacketSize(d, i) \in Nat /\ Len(g[i]) <= all /\ Len(g[i]) = Before(d, i) + PacketSize(d, i)
      BY <1>5
    <3>4. Stands(d) = Before(d, i) + d.offset /\ d.offset <= PacketSize(d, i) /\ d.offset \in Nat
      BY <2>1, <3>2, <1>1
    <3>. QED
      BY <3>1, <3>3, <3>4
  <2>3. Iovs(d) = SubSeq(g[Len(p)], Stands(d) + 1, all) /\ Iovs(d) \in Seq(Nat)
    BY <1>1, <1>3 DEF all
  <2>4. Len(Iovs(d)) = all - Stands(d)
    BY <2>2, <2>3
  <2>. QED
    BY <2>2, <2>3, <2>4
<1>7. n \in Nat /\ at \in Nat /\ at <= all /\ Stands(d) <= at
  BY <1>6
<1>8. ASSUME NEW i \in d.index .. Len(p), NEW o \in 0 .. PacketSize(d, i), r = [d EXCEPT !.index = i, !.offset = o],
             Before(d, i) + o = at
      PROVE  /\ IsByteData(r) /\ r.packets = d.packets /\ d.index <= r.index
             /\ Iovs(r) = SubSeq(Iovs(d), n + 1, Len(Iovs(d)))
  <2>1. i \in 1 .. Len(p) /\ d.index <= i /\ i \in Nat /\ o \in Nat
    BY <1>1, <1>2, <1>5
  <2>2. r.packets = p /\ r.index = i /\ r.offset = o /\ r \in [packets : Seq(Packets), index : Nat, offset : Nat]
    BY <1>8, <2>1 DEF IsByteData
  <2>3. PacketSize(r, i) = PacketSize(d, i) /\ Before(r, i) = Before(d, i)
    BY <2>2 DEF PacketSize, Before
  <2>4. IsByteData(r)
    BY <2>1, <2>2, <2>3 DEF IsByteData
  <2>5. Stands(r) = at
    BY <2>2, <2>3, <1>8 DEF Stands
  <2>6. Iovs(r) = SubSeq(g[Len(p)], at + 1, all)
    <3>1. r.index \in 1 .. Len(p) /\ r.offset \in 0 .. PacketSize(r, r.index)
      BY <2>1, <2>2, <2>3
    <3>2. Iovs(r) = SubSeq(g[Len(p)], Stands(r) + 1, Len(g[Len(p)]))
      BY <2>2, <3>1, <1>3
    <3>. QED
      BY <3>2, <2>5 DEF all
  <2>7. SubSeq(g[Len(p)], at + 1, all) = SubSeq(Iovs(d), n + 1, Len(Iovs(d)))
    <3>1. PICK G \in Seq(Nat) : G = g[Len(p)]
      BY <1>4
    <3>2. Len(G) = all
      BY <3>1 DEF all
    <3>3. PICK m \in Nat : m = Stands(d)
      BY <1>6
    <3>4. Iovs(d) = SubSeq(G, m + 1, all) /\ Len(Iovs(d)) = all - m /\ n \in 0 .. all - m /\ at = m + n /\ m <= all /\ all \in Nat
      BY <3>1, <3>3, <1>6
    <3> HIDE DEF at
    <3>5. SubSeq(G, (m + n) + 1, all) = SubSeq(SubSeq(G, m + 1, all), n + 1, all - m)
      BY <3>2, <3>4
    <3>. QED
      BY <3>1, <3>4, <3>5
  <2>. QED
    BY <2>1, <2>2, <2>4, <2>6, <2>7
<1>9. CASE inside = {}
  <2>1. r = [d EXCEPT !.index = Len(p), !.offset = PacketSize(d, Len(p))]
    BY <1>9 DEF ModifyIndexAndOffset, Stands
  <2>2. Len(p) \in d.index .. Len(p) /\ Len(p) \in 1 .. Len(p)
    BY <1>1, <1>2
  <2>3. ~ (at < Before(d, Len(p) + 1))
    BY <2>2, <1>9
  <2>4. Before(d, Len(p) + 1) = all /\ all = Before(d, Len(p)) + PacketSize(d, Len(p)) /\ PacketSize(d, Len(p)) \in Nat
    BY <2>2, <1>5 DEF all
  <2>5. Before(d, Len(p)) + PacketSize(d, Len(p)) = at
    <3> HIDE DEF at
    <3>. QED
      BY <2>3, <2>4, <1>6, <1>7
  <2>6. PacketSize(d, Len(p)) \in 0 .. PacketSize(d, Len(p))
    BY <2>4
  <2>7. /\ IsByteData(r) /\ r.packets = d.packets /\ d.index <= r.index
        /\ Iovs(r) = SubSeq(Iovs(d), n + 1, Len(Iovs(d)))
    BY <2>1, <2>2, <2>5, <2>6, <1>8
  <2>8. Iovs(r) = <<>>
    <3>1. at = all
      BY <2>4, <2>5
    <3>2. n = Len(Iovs(d)) /\ Len(Iovs(d)) \in Nat
      BY <3>1, <1>6, <1>7, SMTT(40)
    <3>3. PICK v \in Seq(Nat) : v = Iovs(d)
      BY <1>6
    <3>4. SubSeq(v, Len(v) + 1, Len(v)) = <<>>
      OBVIOUS
    <3>. QED
      BY <2>7, <3>2, <3>3, <3>4
  <2>. QED
    BY <2>7, <2>8
<1>10. CASE inside # {}
  <2>1. inside \in SUBSET Nat
    BY <1>1, <1>2
  <2>2. \E i \in inside : \A j \in inside : i <= j
    <3> HIDE DEF inside
    <3>. QED
      BY <2>1, <1>10, LeastOf
  <2>3. PICK i : i = least
    OBVIOUS
  <2>4. i \in inside /\ \A j \in inside : i <= j
    <3> HIDE DEF inside
    <3>. QED
      BY <2>2, <2>3
  <2>5. r = [d EXCEPT !.index = i, !.offset = at - Before(d, i)]
    BY <2>3, <1>10 DEF ModifyIndexAndOffset, Stands
  <2>6. i \in d.index .. Len(p) /\ at < Before(d, i + 1) /\ i \in 1 .. Len(p)
    BY <2>4, <1>1, <1>2
  <2>7. Before(d, i) <= at
    <3>1. CASE i = d.index
      <4>1. Before(d, i) \in Nat /\ Stands(d) = Before(d, i) + d.offset /\ d.offset \in Nat
        BY <3>1, <2>6, <1>1, <1>5 DEF Stands
      <4>. QED
        BY <4>1, <1>7
    <3>2. CASE i # d.index
      <4>1. i - 1 \in d.index .. Len(p) /\ i - 1 \in 1 .. Len(p) /\ ~ (i <= i - 1) /\ (i - 1) + 1 = i
        BY <3>2, <2>6, <1>1, <1>2
      <4>2. ~ (at < Before(d, (i - 1) + 1))
        BY <4>1, <2>4
      <4> HIDE DEF at
      <4>. QED
        BY <4>1, <4>2, <2>6, <1>5, <1>7
    <3>. QED
      BY <3>1, <3>2
  <2>8. at - Before(d, i) \in 0 .. PacketSize(d, i) /\ Before(d, i) + (at - Before(d, i)) = at
        /\ at - Before(d, i) < PacketSize(d, i)
    <3>1. Before(d, i + 1) = Before(d, i) + PacketSize(d, i) /\ Before(d, i) \in Nat /\ PacketSize(d, i) \in Nat
      BY <2>6, <1>5
    <3> HIDE DEF at
    <3>. QED
      BY <3>1, <2>6, <2>7, <1>7
  <2>9. /\ IsByteData(r) /\ r.packets = d.packets /\ d.index <= r.index
        /\ Iovs(r) = SubSeq(Iovs(d), n + 1, Len(Iovs(d)))
    <3>1. PICK o : o = at - Before(d, i)
      OBVIOUS
    <3>. QED
      BY <3>1, <2>5, <2>6, <2>8, <1>8
  <2>10. Remain(r)
    <3>1. r.index = i /\ r.offset = at - Before(d, i)
      BY <2>5 DEF IsByteData
    <3>2. PacketSize(r, i) = PacketSize(d, i)
      BY <2>9 DEF PacketSize
    <3>3. r.offset # PacketSize(r, r.index)
      <4>1. PacketSize(d, i) \in Nat
        BY <2>6, <1>5
      <4>. QED
        BY <4>1, <3>1, <3>2, <2>8
    <3>. QED
      BY <3>3 DEF Remain
  <2>. QED
    BY <2>9, <2>10
<1>. QED
  BY <1>9, <1>10

(* CopyDataIfNeed: what remains is the same, and no longer borrowed. *)
Borrows(d) == \E i \in d.index .. Len(d.packets) : d.packets[i].kind = "borrowed"
LEMMA CopyKeeps ==
  ASSUME NEW d, IsByteData(d), NEW c, c = CopyDataIfNeed(d)
  PROVE  IsByteData(c) /\ Iovs(c) = Iovs(d) /\ ~ Borrows(c)
<1> DEFINE p == d.packets
           part(i) == IF i < d.index \/ p[i].kind # "borrowed" THEN p[i]
                      ELSE [kind |-> "copy", data |-> IF i = d.index THEN SubSeq(p[d.index].data, d.offset + 1, Len(p[d.index].data)) ELSE p[i].data]
           q == [i \in DOMAIN p |-> part(i)]
           o == IF p[d.index].kind = "borrowed" THEN 0 ELSE d.offset
<1>1. p \in Seq(Packets) /\ d.index \in 1 .. Len(p) /\ d.offset \in 0 .. PacketSize(d, d.index) /\ d.index \in Nat /\ d.offset \in Nat
  BY DEF IsByteData
<1>2. Len(p) \in Nat /\ DOMAIN p = 1 .. Len(p)
  BY <1>1, LenProperties
<1>3. c = [d EXCEPT !.packets = q, !.offset = o]
  BY DEF CopyDataIfNeed
<1>4. ASSUME NEW i \in 1 .. Len(p) PROVE part(i) \in Packets
  <2>1. p[i] \in Packets /\ p[i].data \in Seq(Nat) /\ Len(p[i].data) \in Nat
    BY <1>1, PacketsTyped, ElementOfSeq
  <2>2. SubSeq(p[d.index].data, d.offset + 1, Len(p[d.index].data)) \in Seq(Nat)
    <3>1. PICK s \in Seq(Nat) : s = p[d.index].data
      BY <1>1, PacketsTyped
    <3>2. SubSeq(s, d.offset + 1, Len(s)) \in Seq(Nat)
      BY <1>1
    <3>. QED
      BY <3>1, <3>2
  <2>. QED
    BY <2>1, <2>2 DEF Packets
<1>5. q \in Seq(Packets) /\ Len(q) = Len(p) /\ DOMAIN q = 1 .. Len(p) /\ \A i \in 1 .. Len(p) : q[i] = part(i)
  <2>1. q \in [1 .. Len(p) -> Packets]
    <3> HIDE DEF part
    <3>. QED
      BY <1>2, <1>4
  <2> HIDE DEF part
  <2>. QED
    BY <2>1, <1>2
<1> HIDE DEF q
<1>6. /\ c.packets = q /\ c.index = d.index /\ c.offset = o
      /\ c \in [packets : Seq(Packets), index : Nat, offset : Nat]
  <2>1. o \in Nat
    BY <1>1
  <2> HIDE DEF o
  <2>. QED
    BY <2>1, <1>3, <1>5 DEF IsByteData
<1>7. o \in 0 .. Len(q[d.index].data)
  <2>1. CASE p[d.index].kind = "borrowed"
    <3>1. o = 0
      BY <2>1
    <3>2. Len(q[d.index].data) \in Nat
      BY <1>1, <1>5, PacketsTyped
    <3> HIDE DEF o
    <3>. QED
      BY <3>1, <3>2
  <2>2. CASE p[d.index].kind # "borrowed"
    <3>1. q[d.index] = p[d.index]
      BY <2>2, <1>1, <1>5
    <3>. QED
      BY <3>1, <2>2, <1>1 DEF PacketSize
  <2>. QED
    BY <2>1, <2>2
<1>8. IsByteData(c)
  BY <1>1, <1>5, <1>6, <1>7 DEF IsByteData, PacketSize
<1>9. ASSUME NEW i \in 1 .. Len(p)
      PROVE (IF i < c.index THEN <<>> ELSE IF i = c.index THEN SubSeq(q[i].data, c.offset + 1, PacketSize(c, i)) ELSE q[i].data)
            = (IF i < d.index THEN <<>> ELSE IF i = d.index THEN SubSeq(p[i].data, d.offset + 1, PacketSize(d, i)) ELSE p[i].data)
  <2>1. CASE i < d.index
    BY <2>1, <1>6
  <2>2. CASE ~ (i < d.index) /\ p[i].kind # "borrowed"
    <3>1. q[i] = p[i]
      BY <2>2, <1>5
    <3>2. i = d.index => o = d.offset
      BY <2>2
    <3> HIDE DEF o
    <3>. QED
      BY <3>1, <3>2, <2>2, <1>6 DEF PacketSize
  <2>3. CASE ~ (i < d.index) /\ p[i].kind = "borrowed" /\ i # d.index
    <3>1. q[i] = [kind |-> "copy", data |-> p[i].data]
      <4>1. part(i) = [kind |-> "copy", data |-> p[i].data]
        BY <2>3, Zenon
      <4> HIDE DEF part
      <4>. QED
        BY <4>1, <1>5
    <3>2. q[i].data = p[i].data
      BY <3>1
    <3>. QED
      BY <3>2, <2>3, <1>6
  <2>4. CASE p[i].kind = "borrowed" /\ i = d.index
    <3>1. q[i].data = SubSeq(p[i].data, d.offset + 1, Len(p[i].data)) /\ o = 0 /\ ~ (i < d.index)
      <4>1. o = 0
        BY <2>4
      <4>2. ~ (i < d.index)
        BY <2>4, <1>1
      <4>3. part(i) = [kind |-> "copy", data |-> SubSeq(p[i].data, d.offset + 1, Len(p[i].data))]
        BY <4>2, <2>4, Zenon
      <4>4. q[i] = [kind |-> "copy", data |-> SubSeq(p[i].data, d.offset + 1, Len(p[i].data))]
        <5> HIDE DEF part, o
        <5>. QED
          BY <4>3, <1>5
      <4>5. q[i].data = SubSeq(p[i].data, d.offset + 1, Len(p[i].data))
        <5>1. PICK x : x = SubSeq(p[i].data, d.offset + 1, Len(p[i].data))
          OBVIOUS
        <5>2. q[i] = [kind |-> "copy", data |-> x]
          BY <4>4, <5>1
        <5>3. q[i].data = x
          BY <5>2
        <5>. QED
          BY <5>1, <5>3
      <4>. QED
        BY <4>1, <4>2, <4>5, Zenon
    <3>2. SubSeq(q[i].data, 0 + 1, Len(q[i].data)) = q[i].data
      <4>1. PICK s \in Seq(Nat) : s = q[i].data
        BY <1>5, PacketsTyped
      <4>2. SubSeq(s, 0 + 1, Len(s)) = s
        BY SubSeqFull
      <4>. QED
        BY <4>1, <4>2
    <3> HIDE DEF o
    <3>. QED
      BY <3>1, <3>2, <2>4, <1>6 DEF PacketSize
  <2>. QED
    BY <2>1, <2>2, <2>3, <2>4
<1>10. Iovs(c) = Iovs(d)
  <2> DEFINE from(i) == IF i < c.index THEN <<>> ELSE IF i = c.index THEN SubSeq(q[i].data, c.offset + 1, PacketSize(c, i)) ELSE q[i].data
             old(i) == IF i < d.index THEN <<>> ELSE IF i = d.index THEN SubSeq(p[i].data, d.offset + 1, PacketSize(d, i)) ELSE p[i].data
  <2>1. [i \in DOMAIN q |-> from(i)] = [i \in DOMAIN p |-> old(i)]
    <3>1. \A i \in 1 .. Len(p) : from(i) = old(i)
      BY <1>9
    <3> HIDE DEF from, old
    <3>. QED
      BY <3>1, <1>2, <1>5
  <2>2. Iovs(c) = FlattenSeq([i \in DOMAIN q |-> from(i)])
    BY <1>6, Zenon DEF Iovs
  <2>3. Iovs(d) = FlattenSeq([i \in DOMAIN p |-> old(i)])
    BY Zenon DEF Iovs
  <2>. QED
    BY <2>1, <2>2, <2>3, Zenon
<1>11. ~ Borrows(c)
  <2> SUFFICES ASSUME NEW i \in d.index .. Len(p), q[i].kind = "borrowed" PROVE FALSE
    BY <1>5, <1>6 DEF Borrows
  <2>1. i \in 1 .. Len(p) /\ ~ (i < d.index)
    BY <1>1
  <2>2. part(i).kind # "borrowed"
    <3>1. CASE p[i].kind # "borrowed"
      <4>1. part(i) = p[i]
        BY <3>1, Zenon
      <4>. QED
        BY <4>1, <3>1
    <3>2. CASE p[i].kind = "borrowed"
      <4>1. part(i).kind = "copy"
        BY <3>2, <2>1
      <4> HIDE DEF part
      <4>. QED
        BY <4>1
    <3>. QED
      BY <3>1, <3>2
  <2> HIDE DEF part
  <2>. QED
    BY <2>1, <2>2, <1>5
<1>. QED
  BY <1>8, <1>10, <1>11

(* Send numbers the bytes that it is given. *)
LEMMA NumbersJoin ==
  ASSUME NEW a \in Nat, NEW m \in Nat, NEW k \in Nat
  PROVE  Numbers(a, m) \o Numbers(a + m, k) = Numbers(a, m + k)
<1>1. Numbers(a, m) \in Seq(Nat) /\ Len(Numbers(a, m)) = m /\ \A i \in 1 .. m : Numbers(a, m)[i] = a + i - 1
  BY NumbersAreTyped
<1>2. a + m \in Nat /\ m + k \in Nat
  OBVIOUS
<1>3. /\ Numbers(a + m, k) \in Seq(Nat) /\ Len(Numbers(a + m, k)) = k
      /\ \A i \in 1 .. k : Numbers(a + m, k)[i] = (a + m) + i - 1
  BY <1>2, NumbersAreTyped
<1>4. /\ Numbers(a, m + k) \in Seq(Nat) /\ Len(Numbers(a, m + k)) = m + k
      /\ \A i \in 1 .. m + k : Numbers(a, m + k)[i] = a + i - 1
  BY <1>2, NumbersAreTyped
<1>5. PICK x, y, z : x = Numbers(a, m) /\ y = Numbers(a + m, k) /\ z = Numbers(a, m + k)
  OBVIOUS
<1>6. x \o y \in Seq(Nat) /\ Len(x \o y) = m + k /\ \A i \in 1 .. m + k : (x \o y)[i] = IF i <= m THEN x[i] ELSE y[i - m]
  <2>1. x \in Seq(Nat) /\ y \in Seq(Nat) /\ Len(x) = m /\ Len(y) = k
    BY <1>1, <1>3, <1>5
  <2>. QED
    BY <2>1, ConcatProperties
<1>7. ASSUME NEW i \in 1 .. m + k PROVE (x \o y)[i] = z[i]
  <2>1. z[i] = a + i - 1
    BY <1>4, <1>5
  <2>2. CASE i <= m
    <3>1. i \in 1 .. m
      BY <2>2
    <3>. QED
      BY <3>1, <2>1, <2>2, <1>1, <1>5, <1>6
  <2>3. CASE ~ (i <= m)
    <3>1. i - m \in 1 .. k
      BY <2>3
    <3>2. y[i - m] = (a + m) + (i - m) - 1
      BY <3>1, <1>3, <1>5
    <3>. QED
      BY <3>2, <2>1, <2>3, <1>6
  <2>. QED
    BY <2>2, <2>3
<1>8. x \o y = z
  <2>1. PICK u : u = x \o y
    OBVIOUS
  <2>2. u \in Seq(Nat) /\ z \in Seq(Nat) /\ Len(u) = Len(z) /\ \A i \in 1 .. Len(u) : u[i] = z[i]
    BY <2>1, <1>4, <1>5, <1>6, <1>7
  <2>3. u = z
    BY <2>2, SeqEqual
  <2>. QED
    BY <2>1, <2>3
<1>. QED
  BY <1>5, <1>8

(* NewData: where the packets begin, counted from what was given before. *)
Begins(b, n, w, start) ==
  \A i \in 1 .. n : b[i] \in Nat /\ b[i] >= start /\ (b[i] = IF i = 1 THEN start ELSE b[i - 1] + w[i - 1])
LEMMA BeginsExist ==
  ASSUME NEW n \in Nat, NEW w \in [1 .. n -> Nat], NEW start \in Nat
  PROVE  \E b \in [1 .. n -> Nat] : Begins(b, n, w, start)
<1> DEFINE T == {k \in Nat : k <= n => \E b \in [1 .. k -> Nat] : Begins(b, k, w, start)}
<1>1. 0 \in T
  <2>1. PICK b : b = [i \in 1 .. 0 |-> 0]
    OBVIOUS
  <2>2. b \in [1 .. 0 -> Nat] /\ Begins(b, 0, w, start)
    BY <2>1 DEF Begins
  <2>. QED
    BY <2>2
<1>2. ASSUME NEW k \in Nat, k \in T PROVE k + 1 \in T
  <2>1. SUFFICES ASSUME k + 1 <= n PROVE \E b \in [1 .. k + 1 -> Nat] : Begins(b, k + 1, w, start)
    OBVIOUS
  <2>2. k <= n
    BY <2>1
  <2>3. PICK b \in [1 .. k -> Nat] : Begins(b, k, w, start)
    BY <2>2, <1>2
  <2>4. PICK last : last = IF k = 0 THEN start ELSE b[k] + w[k]
    OBVIOUS
  <2>5. last \in Nat /\ last >= start
    <3>1. CASE k = 0
      BY <3>1, <2>4
    <3>2. CASE k # 0
      <4>1. k \in 1 .. k /\ k \in 1 .. n
        BY <3>2, <2>2
      <4>2. b[k] \in Nat /\ b[k] >= start /\ w[k] \in Nat
        BY <4>1, <2>3 DEF Begins
      <4>. QED
        BY <4>2, <3>2, <2>4
    <3>. QED
      BY <3>1, <3>2
  <2>6. PICK c : c = [i \in 1 .. k + 1 |-> IF i = k + 1 THEN last ELSE b[i]]
    OBVIOUS
  <2>7. c \in [1 .. k + 1 -> Nat]
    BY <2>5, <2>6
  <2>8. ASSUME NEW i \in 1 .. k + 1
        PROVE c[i] \in Nat /\ c[i] >= start /\ (c[i] = IF i = 1 THEN start ELSE c[i - 1] + w[i - 1])
    <3>1. CASE i # k + 1
      <4>1. i \in 1 .. k /\ c[i] = b[i]
        BY <3>1, <2>6
      <4>2. i # 1 => c[i - 1] = b[i - 1]
        BY <3>1, <2>6
      <4>3. b[i] \in Nat /\ b[i] >= start /\ (b[i] = IF i = 1 THEN start ELSE b[i - 1] + w[i - 1])
        BY <4>1, <2>3 DEF Begins
      <4>. QED
        BY <4>1, <4>2, <4>3
    <3>2. CASE i = k + 1 /\ k = 0
      BY <3>2, <2>4, <2>5, <2>6
    <3>3. CASE i = k + 1 /\ k # 0
      <4>1. c[i] = b[k] + w[k] /\ i # 1 /\ i - 1 = k
        BY <3>3, <2>4, <2>6
      <4>2. k \in 1 .. k + 1 /\ k # k + 1
        BY <3>3
      <4>3. c[k] = b[k]
        BY <4>2, <2>6
      <4>. QED
        BY <4>1, <4>3, <2>5, <2>4, <3>3
    <3>. QED
      BY <3>1, <3>2, <3>3
  <2>9. Begins(c, k + 1, w, start)
    BY <2>8 DEF Begins
  <2>. QED
    BY <2>7, <2>9
<1>3. Nat \subseteq T
  <2> HIDE DEF T
  <2>. QED
    BY <1>1, <1>2, Counted
<1>4. n \in T
  BY <1>3
<1>. QED
  BY <1>4

LEMMA BeginsChosen ==
  ASSUME NEW n \in Nat, NEW w \in [1 .. n -> Nat], NEW start \in Nat,
         NEW b, b = CHOOSE x : x = [i \in 1 .. n |-> IF i = 1 THEN start ELSE x[i - 1] + w[i - 1]]
  PROVE  Begins(b, n, w, start)
<1> DEFINE Is(x) == x = [i \in 1 .. n |-> IF i = 1 THEN start ELSE x[i - 1] + w[i - 1]]
<1>1. PICK h \in [1 .. n -> Nat] : Begins(h, n, w, start)
  BY BeginsExist
<1>2. Is(h)
  <2>1. \A i \in 1 .. n : h[i] = IF i = 1 THEN start ELSE h[i - 1] + w[i - 1]
    BY <1>1 DEF Begins
  <2>2. h = [i \in 1 .. n |-> h[i]]
    OBVIOUS
  <2>. QED
    BY <2>1, <2>2
<1>3. Is(b)
  <2>1. \E x : Is(x)
    BY <1>2
  <2>2. b = CHOOSE x : Is(x)
    OBVIOUS
  <2> HIDE DEF Is
  <2>. QED
    BY <2>1, <2>2, Zenon
<1>4. \A i \in 1 .. n : b[i] = IF i = 1 THEN start ELSE b[i - 1] + w[i - 1]
  BY <1>3
<1> DEFINE T == {k \in Nat : k + 1 \in 1 .. n => b[k + 1] = h[k + 1]}
<1>5. 0 \in T
  <2>1. ASSUME 1 \in 1 .. n PROVE b[1] = h[1]
    BY <2>1, <1>1, <1>4 DEF Begins
  <2>2. 0 + 1 = 1
    OBVIOUS
  <2>. QED
    BY <2>1, <2>2
<1>6. ASSUME NEW k \in Nat, k \in T PROVE k + 1 \in T
  <2>1. SUFFICES ASSUME (k + 1) + 1 \in 1 .. n PROVE b[(k + 1) + 1] = h[(k + 1) + 1]
    OBVIOUS
  <2>2. k + 1 \in 1 .. n
    BY <2>1
  <2>3. b[k + 1] = h[k + 1]
    BY <2>2, <1>6
  <2>4. PICK i \in 1 .. n : i = (k + 1) + 1
    BY <2>1
  <2>5. i # 1 /\ i - 1 = k + 1
    BY <2>4
  <2>6. b[i] = b[i - 1] + w[i - 1] /\ h[i] = h[i - 1] + w[i - 1]
    BY <2>5, <1>1, <1>4 DEF Begins
  <2>. QED
    BY <2>3, <2>4, <2>5, <2>6
<1>7. Nat \subseteq T
  <2> HIDE DEF T
  <2>. QED
    BY <1>5, <1>6, Counted
<1>8. ASSUME NEW i \in 1 .. n PROVE b[i] = h[i]
  <2>1. i - 1 \in Nat /\ (i - 1) + 1 = i
    OBVIOUS
  <2>2. (i - 1) + 1 \in 1 .. n => b[(i - 1) + 1] = h[(i - 1) + 1]
    BY <2>1, <1>7
  <2>. QED
    BY <2>1, <2>2
<1>9. ASSUME NEW i \in 1 .. n
      PROVE b[i] \in Nat /\ b[i] >= start /\ (b[i] = IF i = 1 THEN start ELSE b[i - 1] + w[i - 1])
  <2>1. h[i] \in Nat /\ h[i] >= start
    BY <1>1 DEF Begins
  <2>. QED
    BY <2>1, <1>4, <1>8
<1>. QED
  BY <1>9 DEF Begins

(* NewData holds the bytes after those that were given before, none taken yet. *)
LEMMA NewDataFollows ==
  ASSUME NEW shape \in Seq([kind : {"borrowed", "copy", "file"}, size : Nat]), shape # <<>>, given \in Nat,
         NEW d, d = NewData(shape)
  PROVE  IsByteData(d) /\ Iovs(d) \in Seq(Nat) /\ Iovs(d) = Numbers(given + 1, Len(Iovs(d)))
<1>1. PICK n \in Nat : n = Len(shape) /\ DOMAIN shape = 1 .. n
  BY LenProperties
<1>2. n >= 1
  BY <1>1, EmptySeq
<1>3. \A i \in 1 .. n : shape[i].kind \in {"borrowed", "copy", "file"} /\ shape[i].size \in Nat
  <2>1. ASSUME NEW i \in 1 .. n PROVE shape[i].kind \in {"borrowed", "copy", "file"} /\ shape[i].size \in Nat
    <3>1. shape[i] \in [kind : {"borrowed", "copy", "file"}, size : Nat]
      BY <1>1, ElementOfSeq
    <3>. QED
      BY <3>1
  <2>. QED
    BY <2>1
<1>4. PICK w : w = [i \in 1 .. n |-> shape[i].size]
  OBVIOUS
<1>5. w \in [1 .. n -> Nat] /\ \A i \in 1 .. n : w[i] = shape[i].size
  BY <1>3, <1>4
<1> DEFINE before == CHOOSE x : x = [i \in DOMAIN shape |-> IF i = 1 THEN given ELSE x[i - 1] + shape[i - 1].size]
           packet(i) == [kind |-> shape[i].kind, data |-> Numbers(before[i] + 1, shape[i].size)]
           p == [i \in DOMAIN shape |-> packet(i)]
<1>6. d = [packets |-> p, index |-> 1, offset |-> 0]
  BY DEF NewData
<1>7. Begins(before, n, w, given)
  <2>1. \A x : [i \in DOMAIN shape |-> IF i = 1 THEN given ELSE x[i - 1] + shape[i - 1].size]
               = [i \in 1 .. n |-> IF i = 1 THEN given ELSE x[i - 1] + w[i - 1]]
    <3>1. ASSUME NEW x, NEW i \in 1 .. n
          PROVE (IF i = 1 THEN given ELSE x[i - 1] + shape[i - 1].size) = (IF i = 1 THEN given ELSE x[i - 1] + w[i - 1])
      <4>1. i # 1 => i - 1 \in 1 .. n
        OBVIOUS
      <4>. QED
        BY <4>1, <1>5
    <3>. QED
      BY <3>1, <1>1
  <2>2. PICK b : b = CHOOSE x : x = [i \in 1 .. n |-> IF i = 1 THEN given ELSE x[i - 1] + w[i - 1]]
    OBVIOUS
  <2>3. before = b
    BY <2>1, <2>2
  <2>4. Begins(b, n, w, given)
    BY <2>2, <1>5, BeginsChosen
  <2> HIDE DEF before
  <2>. QED
    BY <2>3, <2>4
<1> HIDE DEF before
<1>8. ASSUME NEW i \in 1 .. n
      PROVE  /\ packet(i) \in Packets /\ packet(i).data = Numbers(before[i] + 1, w[i])
             /\ before[i] \in Nat /\ before[i] >= given /\ packet(i).data \in Seq(Nat)
  <2>1. before[i] \in Nat /\ before[i] >= given
    BY <1>7 DEF Begins
  <2>2. before[i] + 1 \in Nat /\ w[i] \in Nat /\ w[i] = shape[i].size
    BY <2>1, <1>5
  <2>3. Numbers(before[i] + 1, w[i]) \in Seq(Nat)
    BY <2>2, NumbersAreTyped
  <2>4. PICK x \in Seq(Nat) : x = Numbers(before[i] + 1, w[i])
    BY <2>3
  <2>5. packet(i) = [kind |-> shape[i].kind, data |-> x]
    BY <2>2, <2>4
  <2>6. packet(i) \in Packets /\ packet(i).data = x
    <3> HIDE DEF packet
    <3>. QED
      BY <2>5, <1>3 DEF Packets
  <2>. QED
    BY <2>1, <2>4, <2>6
<1>9. p \in Seq(Packets) /\ Len(p) = n /\ DOMAIN p = 1 .. n /\ \A i \in 1 .. n : p[i] = packet(i)
  <2>1. p \in [1 .. n -> Packets]
    <3>1. \A i \in 1 .. n : packet(i) \in Packets
      BY <1>8
    <3> HIDE DEF packet
    <3>. QED
      BY <3>1, <1>1
  <2> HIDE DEF packet
  <2>. QED
    BY <2>1, <1>1
<1>10. d.packets = p /\ d.index = 1 /\ d.offset = 0 /\ IsByteData(d)
  <2> HIDE DEF p
  <2>1. d.packets = p /\ d.index = 1 /\ d.offset = 0 /\ d \in [packets : Seq(Packets), index : Nat, offset : Nat]
    BY <1>6, <1>9
  <2>2. 1 \in 1 .. Len(p) /\ Len(p[1].data) \in Nat
    <3>1. 1 \in 1 .. Len(p)
      BY <1>2, <1>9
    <3>. QED
      BY <3>1, <1>9, PacketsTyped
  <2>. QED
    BY <2>1, <2>2 DEF IsByteData, PacketSize
<1>11. PICK tt : tt = [i \in 1 .. n |-> p[i].data]
  OBVIOUS
<1>12. tt \in [1 .. n -> Seq(Nat)] /\ \A i \in 1 .. n : tt[i] = Numbers(before[i] + 1, w[i])
  <2>1. ASSUME NEW i \in 1 .. n PROVE tt[i] \in Seq(Nat) /\ tt[i] = Numbers(before[i] + 1, w[i])
    <3> HIDE DEF packet, p
    <3>. QED
      BY <1>8, <1>9, <1>11
  <2>2. tt = [i \in 1 .. n |-> tt[i]]
    BY <1>11
  <2>. QED
    BY <2>1, <2>2
<1> DEFINE m(k) == IF k = 0 THEN 0 ELSE (before[k] + w[k]) - given
<1>13. ASSUME NEW k \in 0 .. n PROVE m(k) \in Nat
  <2>1. k # 0 => k \in 1 .. n /\ before[k] \in Nat /\ before[k] >= given /\ w[k] \in Nat
    BY <1>5, <1>7 DEF Begins
  <2>. QED
    BY <2>1
<1>14. PICK g : g = [k \in 0 .. n |-> Numbers(given + 1, m(k))]
  OBVIOUS
<1>15. g \in [0 .. n -> Seq(Nat)] /\ \A k \in 0 .. n : g[k] = Numbers(given + 1, m(k))
  <2>1. ASSUME NEW k \in 0 .. n PROVE Numbers(given + 1, m(k)) \in Seq(Nat)
    <3>1. m(k) \in Nat
      BY <1>13
    <3> HIDE DEF m
    <3>. QED
      BY <3>1, NumbersAreTyped
  <2> HIDE DEF m
  <2>. QED
    BY <2>1, <1>14
<1>16. Joins(tt, n, g)
  <2>1. g[0] = <<>>
    <3>1. g[0] = Numbers(given + 1, 0)
      BY <1>15
    <3>2. Numbers(given + 1, 0) \in Seq(Nat) /\ Len(Numbers(given + 1, 0)) = 0
      <4>1. given + 1 \in Nat /\ 0 \in Nat
        OBVIOUS
      <4>. QED
        BY <4>1, NumbersAreTyped
    <3>. QED
      BY <3>1, <3>2, EmptySeq
  <2>2. ASSUME NEW i \in 1 .. n PROVE g[i] = g[i - 1] \o tt[i]
    <3>1. i - 1 \in 0 .. n /\ i \in 0 .. n /\ i # 0
      OBVIOUS
    <3>2. before[i] = m(i - 1) + given /\ m(i - 1) \in Nat /\ w[i] \in Nat
      <4>1. m(i - 1) \in Nat /\ w[i] \in Nat
        BY <3>1, <1>5, <1>13
      <4>2. CASE i = 1
        <5>1. before[i] = given
          BY <4>2, <1>7 DEF Begins
        <5>. QED
          BY <5>1, <4>1, <4>2
      <4>3. CASE i # 1
        <5>1. i - 1 \in 1 .. n
          BY <4>3
        <5>2. before[i] = before[i - 1] + w[i - 1] /\ before[i - 1] \in Nat /\ w[i - 1] \in Nat
          BY <4>3, <5>1, <1>5, <1>7 DEF Begins
        <5>. QED
          BY <5>2, <4>1, <4>3
      <4>. QED
        BY <4>2, <4>3
    <3>3. PICK a \in Nat : a = m(i - 1)
      BY <3>2
    <3>4. m(i) = a + w[i]
      BY <3>1, <3>2, <3>3
    <3>5. g[i - 1] = Numbers(given + 1, a) /\ g[i] = Numbers(given + 1, a + w[i])
      <4> HIDE DEF m
      <4>. QED
        BY <3>1, <3>3, <3>4, <1>15
    <3>6. tt[i] = Numbers((given + 1) + a, w[i])
      <4>1. before[i] + 1 = (given + 1) + a
        <5> HIDE DEF m
        <5>. QED
          BY <3>2, <3>3
      <4>. QED
        BY <4>1, <1>12
    <3>7. Numbers(given + 1, a) \o Numbers((given + 1) + a, w[i]) = Numbers(given + 1, a + w[i])
      <4>1. given + 1 \in Nat /\ w[i] \in Nat
        BY <3>2
      <4>. QED
        BY <4>1, NumbersJoin
    <3>. QED
      BY <3>5, <3>6, <3>7
  <2>. QED
    BY <2>1, <2>2 DEF Joins
<1>17. FlattenSeq(tt) = g[n] /\ FlattenSeq(tt) \in Seq(Nat)
  BY <1>12, <1>15, <1>16, FlattenBy
<1>18. Iovs(d) = FlattenSeq(tt)
  <2> DEFINE from(i) == IF i < d.index THEN <<>>
                        ELSE IF i = d.index THEN SubSeq(d.packets[i].data, d.offset + 1, PacketSize(d, i)) ELSE d.packets[i].data
  <2>1. ASSUME NEW i \in 1 .. n PROVE from(i) = tt[i]
    <3> HIDE DEF packet, p
    <3>1. tt[i] = p[i].data /\ tt[i] \in Seq(Nat) /\ d.packets[i] = p[i] /\ ~ (i < d.index)
      BY <1>10, <1>11, <1>12
    <3>2. CASE i = 1
      <4>1. SubSeq(tt[i], 0 + 1, Len(tt[i])) = tt[i]
        BY <3>1, SubSeqFull
      <4>2. from(i) = SubSeq(tt[i], 0 + 1, Len(tt[i]))
        BY <3>1, <3>2, <1>10 DEF PacketSize
      <4>. QED
        BY <4>1, <4>2
    <3>3. CASE i # 1
      BY <3>1, <3>3, <1>10
    <3>. QED
      BY <3>2, <3>3
  <2>2. Iovs(d) = FlattenSeq([i \in DOMAIN d.packets |-> from(i)])
    BY Zenon DEF Iovs
  <2>3. [i \in DOMAIN d.packets |-> from(i)] = tt
    <3>1. DOMAIN d.packets = 1 .. n
      <4> HIDE DEF p
      <4>. QED
        BY <1>9, <1>10
    <3>2. tt = [i \in 1 .. n |-> tt[i]]
      BY <1>11
    <3> HIDE DEF from
    <3>. QED
      BY <2>1, <3>1, <3>2
  <2>. QED
    BY <2>2, <2>3, Zenon
<1>19. Iovs(d) = Numbers(given + 1, m(n)) /\ m(n) \in Nat /\ Iovs(d) \in Seq(Nat)
  <2>1. n \in 0 .. n
    OBVIOUS
  <2>2. m(n) \in Nat
    BY <2>1, <1>13
  <2> HIDE DEF m
  <2>. QED
    BY <2>1, <2>2, <1>15, <1>17, <1>18
<1>20. Len(Iovs(d)) = m(n)
  <2>1. PICK x \in Nat : x = m(n)
    BY <1>19
  <2>2. Len(Numbers(given + 1, x)) = x
    BY NumbersAreTyped
  <2> HIDE DEF m
  <2>. QED
    BY <2>1, <2>2, <1>19
<1>. QED
  <2> HIDE DEF m
  <2>. QED
    BY <1>10, <1>19, <1>20

LEMMA IovsTyped ==
  ASSUME NEW d, IsByteData(d)
  PROVE  Iovs(d) \in Seq(Nat) /\ Len(Iovs(d)) \in Nat /\ (~ Remain(d) => Iovs(d) = <<>>)
<1> DEFINE p == d.packets
<1>1. p \in Seq(Packets) /\ d.index \in 1 .. Len(p) /\ d.offset \in 0 .. PacketSize(d, d.index)
  BY DEF IsByteData
<1>2. PICK g : /\ \A x : x.packets = p => Reaching(x, g)
               /\ \A x : x.packets = p /\ x.index \in 1 .. Len(p) /\ x.offset \in 0 .. PacketSize(x, x.index)
                       => Iovs(x) = SubSeq(g[Len(p)], Stands(x) + 1, Len(g[Len(p)])) /\ Iovs(x) \in Seq(Nat)
  BY <1>1, DataReaches
<1>3. Iovs(d) = SubSeq(g[Len(p)], Stands(d) + 1, Len(g[Len(p)])) /\ Iovs(d) \in Seq(Nat)
  BY <1>1, <1>2
<1>4. ASSUME ~ Remain(d) PROVE Iovs(d) = <<>>
  <2>1. d.index = Len(p) /\ d.offset = PacketSize(d, d.index)
    BY <1>4 DEF Remain
  <2>2. Reaching(d, g)
    BY <1>2
  <2>3. PICK i \in 1 .. Len(p) : i = d.index
    BY <1>1
  <2>9. Len(p) \in Nat
    BY <1>1, LenProperties
  <2>4. i - 1 \in 0 .. Len(p) /\ (i - 1) + 1 = i /\ i = Len(p)
    BY <2>1, <2>3, <2>9
  <2>5. Before(d, i) = Len(g[i - 1]) /\ Len(g[i]) = Len(g[i - 1]) + PacketSize(d, i) /\ Len(g[Len(p)]) \in Nat
    <3>1. Before(d, (i - 1) + 1) = Len(g[i - 1])
      BY <2>2, <2>4 DEF Reaching
    <3>2. Len(g[i]) = Len(g[i - 1]) + PacketSize(d, i)
      BY <2>2 DEF Reaching
    <3>3. Len(g[Len(p)]) \in Nat
      BY <2>2, <2>9 DEF Reaching
    <3>. QED
      BY <3>1, <3>2, <3>3, <2>4
  <2>6. Stands(d) = Len(g[Len(p)])
    BY <2>1, <2>3, <2>4, <2>5 DEF Stands
  <2>7. Stands(d) + 1 \in Int /\ Len(g[Len(p)]) \in Int /\ Len(g[Len(p)]) < Stands(d) + 1
    BY <2>5, <2>6
  <2>. QED
    BY <2>7, <1>3, SubSeqEmpty
<1>. QED
  BY <1>3, <1>4, LenProperties

(* What Writev took and what is left are what there was. *)
LEMMA WritevSplits ==
  ASSUME NEW d, IsByteData(d), NEW n \in 0 .. Len(Iovs(d)), NEW r, r = IF n = 0 THEN d ELSE ModifyIndexAndOffset(d, n)
  PROVE  /\ IsByteData(r) /\ r.packets = d.packets /\ d.index <= r.index
         /\ SubSeq(Iovs(d), 1, n) \in Seq(Nat)
         /\ Iovs(d) = SubSeq(Iovs(d), 1, n) \o Iovs(r)
         /\ ~ Remain(r) => Iovs(r) = <<>>
<1>1. PICK s \in Seq(Nat) : s = Iovs(d)
  BY IovsTyped
<1>2. Len(s) \in Nat /\ n \in 0 .. Len(s) /\ n \in Nat
  BY <1>1, LenProperties
<1>3. SubSeq(s, 1, n) \in Seq(Nat) /\ SubSeq(s, 1, n) \o SubSeq(s, n + 1, Len(s)) = s
  <2>1. SubSeq(s, 1, n) \in Seq(Nat)
    BY <1>2
  <2>2. 1 \in 1 .. Len(s) + 1 /\ n \in 1 - 1 .. Len(s) /\ Len(s) \in n .. Len(s)
    BY <1>2
  <2>3. SubSeq(s, 1, n) \o SubSeq(s, n + 1, Len(s)) = SubSeq(s, 1, Len(s))
    BY <2>2, ConcatAdjacentSubSeq
  <2>4. SubSeq(s, 1, Len(s)) = s
    BY SubSeqFull
  <2>. QED
    BY <2>1, <2>3, <2>4
<1>4. CASE n = 0
  <2>1. r = d
    BY <1>4
  <2>2. SubSeq(s, n + 1, Len(s)) = s
    BY <1>4, SubSeqFull
  <2>3. d.index \in Nat
    BY DEF IsByteData
  <2>. QED
    BY <2>1, <2>2, <2>3, <1>1, <1>3, IovsTyped
<1>5. CASE n # 0
  <2>1. r = ModifyIndexAndOffset(d, n)
    BY <1>5
  <2>2. /\ IsByteData(r) /\ r.packets = d.packets /\ d.index <= r.index
        /\ Iovs(r) = SubSeq(Iovs(d), n + 1, Len(Iovs(d)))
        /\ ~ Remain(r) => Iovs(r) = <<>>
    BY <2>1, IndexMoves
  <2>. QED
    BY <2>2, <1>1, <1>3
<1>. QED
  BY <1>4, <1>5

(* The queue of a connection, and all bytes in it. *)
Datas == {d \in [packets : Seq(Packets), index : Nat, offset : Nat] : IsByteData(d) /\ ~ Borrows(d)}
Waiting(q) == FlattenSeq([k \in DOMAIN q |-> Iovs(q[k])])

LEMMA WaitingTyped ==
  ASSUME NEW q \in Seq(Datas)
  PROVE  /\ Len(q) \in Nat /\ DOMAIN q = 1 .. Len(q) /\ Waiting(q) \in Seq(Nat)
         /\ [k \in DOMAIN q |-> Iovs(q[k])] \in [1 .. Len(q) -> Seq(Nat)]
<1>1. Len(q) \in Nat /\ DOMAIN q = 1 .. Len(q)
  BY LenProperties
<1>2. ASSUME NEW k \in 1 .. Len(q) PROVE Iovs(q[k]) \in Seq(Nat)
  <2>1. q[k] \in Datas
    BY ElementOfSeq
  <2>2. IsByteData(q[k])
    BY <2>1 DEF Datas
  <2>. QED
    BY <2>2, IovsTyped
<1>3. PICK tt : tt = [k \in DOMAIN q |-> Iovs(q[k])]
  OBVIOUS
<1>4. tt \in [1 .. Len(q) -> Seq(Nat)]
  BY <1>1, <1>2, <1>3
<1>5. PICK g \in [0 .. Len(q) -> Seq(Nat)] : Joins(tt, Len(q), g)
  BY <1>1, <1>4, FlattenJoins
<1>6. FlattenSeq(tt) \in Seq(Nat)
  BY <1>1, <1>4, <1>5, FlattenBy
<1>. QED
  BY <1>1, <1>3, <1>4, <1>6 DEF Waiting

LEMMA WaitingPut ==
  ASSUME NEW d \in Datas, NEW q \in Seq(Datas), NEW r, r = <<d>> \o q
  PROVE  r \in Seq(Datas) /\ r # <<>> /\ Waiting(r) = Iovs(d) \o Waiting(q)
<1>1. PICK n \in Nat : n = Len(q) /\ DOMAIN q = 1 .. n
  BY WaitingTyped
<1>2. <<d>> \in Seq(Datas) /\ Len(<<d>>) = 1 /\ <<d>>[1] = d
  OBVIOUS
<1>3. r \in Seq(Datas) /\ Len(r) = n + 1 /\ r[1] = d /\ \A k \in 1 .. n : r[k + 1] = q[k]
  <2>1. PICK s \in Seq(Datas) : s = <<d>> /\ Len(s) = 1 /\ s[1] = d
    BY <1>2
  <2>2. /\ s \o q \in Seq(Datas) /\ Len(s \o q) = Len(s) + Len(q)
        /\ \A i \in 1 .. Len(s) + Len(q) : (s \o q)[i] = IF i <= Len(s) THEN s[i] ELSE q[i - Len(s)]
    BY ConcatProperties
  <2>3. r = s \o q
    BY <2>1
  <2>4. \A i \in 1 .. n + 1 : r[i] = IF i <= 1 THEN d ELSE q[i - 1]
    <3>1. ASSUME NEW i \in 1 .. n + 1 PROVE r[i] = IF i <= 1 THEN d ELSE q[i - 1]
      <4>1. i \in 1 .. Len(s) + Len(q) /\ (i <= 1 => i = 1)
        BY <1>1, <2>1
      <4>. QED
        BY <4>1, <2>1, <2>2, <2>3
    <3>. QED
      BY <3>1
  <2>5. ASSUME NEW k \in 1 .. n PROVE r[k + 1] = q[k]
    <3>1. k + 1 \in 1 .. n + 1 /\ ~ (k + 1 <= 1) /\ (k + 1) - 1 = k
      OBVIOUS
    <3>2. r[k + 1] = q[(k + 1) - 1]
      BY <3>1, <2>4
    <3>. QED
      BY <3>1, <3>2
  <2>6. r[1] = d
    BY <2>4
  <2>7. r \in Seq(Datas) /\ Len(r) = n + 1
    BY <1>1, <2>1, <2>2, <2>3
  <2>. QED
    BY <2>5, <2>6, <2>7
<1>4. PICK tt : tt = [k \in DOMAIN r |-> Iovs(r[k])]
  OBVIOUS
<1>5. PICK rest : rest = [k \in 1 .. n |-> tt[k + 1]]
  OBVIOUS
<1>6. tt \in [1 .. n + 1 -> Seq(Nat)] /\ DOMAIN r = 1 .. n + 1
  BY <1>3, <1>4, WaitingTyped
<1>7. FlattenSeq(tt) = tt[1] \o FlattenSeq(rest)
  <2>1. tt \in [1 .. n + 1 -> Seq(Nat)]
    BY <1>6
  <2>2. rest \in [1 .. n -> Seq(Nat)] /\ \A k \in 1 .. n : rest[k] = tt[k + 1]
    BY <2>1, <1>5
  <2>. QED
    BY <2>1, <2>2, FlattenFirst
<1>8. tt[1] = Iovs(d)
  BY <1>3, <1>4, <1>6
<1>9. rest = [k \in DOMAIN q |-> Iovs(q[k])]
  <2>1. ASSUME NEW k \in 1 .. n PROVE rest[k] = Iovs(q[k])
    <3>1. k + 1 \in 1 .. n + 1
      OBVIOUS
    <3>2. tt[k + 1] = Iovs(r[k + 1])
      BY <3>1, <1>4, <1>6
    <3>. QED
      BY <3>2, <1>3, <1>5
  <2>2. rest = [k \in 1 .. n |-> rest[k]]
    BY <1>5
  <2>. QED
    BY <2>1, <2>2, <1>1
<1>10. r # <<>>
  BY <1>3
<1>. QED
  BY <1>3, <1>4, <1>7, <1>8, <1>9, <1>10 DEF Waiting

LEMMA WaitingAppend ==
  ASSUME NEW d \in Datas, NEW q \in Seq(Datas), NEW r, r = Append(q, d)
  PROVE  r \in Seq(Datas) /\ r # <<>> /\ Waiting(r) = Waiting(q) \o Iovs(d)
<1>1. PICK n \in Nat : n = Len(q) /\ DOMAIN q = 1 .. n
  BY WaitingTyped
<1>3. r \in Seq(Datas) /\ Len(r) = n + 1 /\ r[n + 1] = d /\ \A k \in 1 .. n : r[k] = q[k]
  BY <1>1
<1>4. PICK tt : tt = [k \in DOMAIN r |-> Iovs(r[k])]
  OBVIOUS
<1>5. PICK front : front = [k \in 1 .. n |-> tt[k]]
  OBVIOUS
<1>6. tt \in [1 .. n + 1 -> Seq(Nat)] /\ DOMAIN r = 1 .. n + 1
  BY <1>3, <1>4, WaitingTyped
<1>7. FlattenSeq(tt) = FlattenSeq(front) \o tt[n + 1]
  BY <1>5, <1>6, FlattenLast
<1>8. tt[n + 1] = Iovs(d)
  BY <1>3, <1>4, <1>6
<1>9. front = [k \in DOMAIN q |-> Iovs(q[k])]
  <2>1. ASSUME NEW k \in 1 .. n PROVE front[k] = Iovs(q[k])
    <3>1. k \in 1 .. n + 1
      OBVIOUS
    <3>2. tt[k] = Iovs(r[k])
      BY <3>1, <1>4, <1>6
    <3>. QED
      BY <3>2, <1>3, <1>5
  <2>2. front = [k \in 1 .. n |-> front[k]]
    BY <1>5
  <2>. QED
    BY <2>1, <2>2, <1>1
<1>10. r # <<>>
  BY <1>3
<1>. QED
  BY <1>3, <1>4, <1>7, <1>8, <1>9, <1>10 DEF Waiting

(* What the socket took and what waits are what was given, in order. *)
StreamInv ==
  /\ given \in Nat /\ wrote \in Seq(Nat) /\ send_datas \in Seq(Datas)
  /\ wrote \o Waiting(send_datas) = Numbers(1, given)
  /\ writable <=> send_datas # <<>>

Rejoin(w, x, q, y) == (w \o x) \o (q \o y) = (w \o q) \o (x \o y)
LEMMA Rejoins ==
  ASSUME NEW w \in Seq(Nat), NEW x \in Seq(Nat), NEW y \in Seq(Nat), NEW q \in Seq(Nat), q = <<>> \/ x = <<>>
  PROVE  Rejoin(w, x, q, y)
<1>1. (w \o x) \o (q \o y) = w \o (x \o (q \o y)) /\ (w \o q) \o (x \o y) = w \o (q \o (x \o y))
  <2>1. q \o y \in Seq(Nat) /\ x \o y \in Seq(Nat)
    OBVIOUS
  <2>2. Associate(w, x, q \o y) /\ Associate(w, q, x \o y)
    BY <2>1, Associates
  <2>. QED
    BY <2>2, Zenon DEF Associate
<1>2. x \o (q \o y) = q \o (x \o y)
  <2>1. x \o y \in Seq(Nat) /\ q \o y \in Seq(Nat)
    OBVIOUS
  <2>2. \A b \in Seq(Nat) : <<>> \o b = b
    BY ConcatEmptySeq
  <2>3. CASE q = <<>>
    BY <2>1, <2>2, <2>3
  <2>4. CASE x = <<>>
    BY <2>1, <2>2, <2>4
  <2>. QED
    BY <2>3, <2>4
<1>. QED
  BY <1>1, <1>2, Zenon DEF Rejoin

LEMMA SendKeepsStream ==
  ASSUME StreamInv, NEW shape \in Shapes, Send(shape)
  PROVE  StreamInv'
<1> DEFINE d == NewData(shape)
<1>1. given \in Nat /\ wrote \in Seq(Nat) /\ send_datas \in Seq(Datas) /\ Waiting(send_datas) \in Seq(Nat)
      /\ wrote \o Waiting(send_datas) = Numbers(1, given) /\ (writable <=> send_datas # <<>>)
  BY WaitingTyped DEF StreamInv
<1>2. IsByteData(d) /\ Iovs(d) \in Seq(Nat) /\ Iovs(d) = Numbers(given + 1, Len(Iovs(d)))
  <2>1. shape \in Seq([kind : {"borrowed", "copy", "file"}, size : Nat]) /\ shape # <<>>
    BY BufferAssumption
  <2> HIDE DEF d
  <2>2. d = NewData(shape)
    BY DEF d
  <2>. QED
    BY <2>1, <2>2, <1>1, NewDataFollows
<1>3. PICK n \in IF NothingWaits /\ Remain(d) THEN 0 .. Len(Iovs(d)) ELSE {0} :
        LET rest == IF n = 0 THEN d ELSE ModifyIndexAndOffset(d, n)
        IN  /\ Took(d, n)
            /\ IF Remain(rest)
               THEN send_datas' = Append(send_datas, CopyDataIfNeed(rest)) /\ writable' = TRUE
               ELSE UNCHANGED <<send_datas, writable>>
  BY DEF Send
<1>4. given' = given + Len(Iovs(d))
  BY DEF Send
<1> HIDE DEF d
<1>5. PICK all \in Nat : all = Len(Iovs(d))
  BY <1>2, LenProperties
<1>6. n \in 0 .. Len(Iovs(d)) /\ (Waiting(send_datas) = <<>> \/ n = 0)
  <2>1. n \in 0 .. all /\ (NothingWaits \/ n = 0)
    BY <1>3, <1>5
  <2>2. NothingWaits => Waiting(send_datas) = <<>>
    <3>1. Waiting(<<>>) = <<>>
      BY DEF Waiting, FlattenSeq
    <3>. QED
      BY <3>1 DEF NothingWaits
  <2>. QED
    BY <2>1, <2>2, <1>5
<1>7. PICK rest : rest = IF n = 0 THEN d ELSE ModifyIndexAndOffset(d, n)
  OBVIOUS
<1>8. /\ IsByteData(rest) /\ SubSeq(Iovs(d), 1, n) \in Seq(Nat)
      /\ Iovs(d) = SubSeq(Iovs(d), 1, n) \o Iovs(rest) /\ (~ Remain(rest) => Iovs(rest) = <<>>)
  BY <1>2, <1>6, <1>7, WritevSplits
<1>9. PICK x \in Seq(Nat), y \in Seq(Nat), w \in Seq(Nat) : x = SubSeq(Iovs(d), 1, n) /\ y = Iovs(rest) /\ w = Waiting(send_datas)
  BY <1>1, <1>8, IovsTyped
<1>10. wrote' = wrote \o x /\ Iovs(d) = x \o y
  BY <1>3, <1>8, <1>9 DEF Took
<1>11. w = <<>> \/ x = <<>>
  <2>1. ASSUME n = 0 PROVE x = <<>>
    <3>1. x = SubSeq(Iovs(d), 1, 0)
      BY <2>1, <1>9
    <3>2. 1 \in Int /\ 0 \in Int /\ 0 < 1
      OBVIOUS
    <3>. QED
      BY <3>1, <3>2, SubSeqEmpty
  <2>. QED
    BY <2>1, <1>6, <1>9
<1>12. given' \in Nat /\ wrote' \in Seq(Nat)
  BY <1>1, <1>4, <1>5, <1>10
<1>13. send_datas' \in Seq(Datas) /\ Waiting(send_datas') = w \o y /\ (writable' <=> send_datas' # <<>>)
  <2>1. CASE Remain(rest)
    <3>1. send_datas' = Append(send_datas, CopyDataIfNeed(rest)) /\ writable' = TRUE
      BY <2>1, <1>3, <1>7
    <3>2. PICK c : c = CopyDataIfNeed(rest)
      OBVIOUS
    <3>3. IsByteData(c) /\ Iovs(c) = y /\ ~ Borrows(c)
      BY <3>2, <1>8, <1>9, CopyKeeps
    <3>4. c \in Datas
      BY <3>3 DEF Datas, IsByteData
    <3>5. PICK q : q = Append(send_datas, c)
      OBVIOUS
    <3>6. q \in Seq(Datas) /\ q # <<>> /\ Waiting(q) = Waiting(send_datas) \o Iovs(c)
      BY <3>4, <3>5, <1>1, WaitingAppend
    <3>. QED
      BY <3>1, <3>2, <3>3, <3>5, <3>6, <1>9
  <2>2. CASE ~ Remain(rest)
    <3>1. send_datas' = send_datas /\ writable' = writable
      BY <2>2, <1>3, <1>7
    <3>2. y = <<>>
      BY <2>2, <1>8, <1>9
    <3>3. w \o y = w
      BY <3>2, ConcatEmptySeq
    <3>. QED
      BY <3>1, <3>3, <1>1, <1>9
  <2>. QED
    BY <2>1, <2>2
<1>14. wrote' \o Waiting(send_datas') = Numbers(1, given')
  <2>1. wrote' \o Waiting(send_datas') = (wrote \o x) \o (w \o y)
    BY <1>10, <1>13
  <2>2. (wrote \o x) \o (w \o y) = (wrote \o w) \o (x \o y)
    <3>1. Rejoin(wrote, x, w, y)
      BY <1>1, <1>11, Rejoins
    <3>. QED
      BY <3>1 DEF Rejoin
  <2>3. wrote \o w = Numbers(1, given) /\ x \o y = Numbers(given + 1, all)
    BY <1>1, <1>2, <1>5, <1>9, <1>10
  <2>4. Numbers(1, given) \o Numbers(given + 1, all) = Numbers(1, given + all)
    <3>1. 1 \in Nat /\ 1 + given = given + 1
      BY <1>1
    <3>2. Numbers(1, given) \o Numbers(1 + given, all) = Numbers(1, given + all)
      BY <3>1, <1>1, NumbersJoin
    <3>. QED
      BY <3>1, <3>2, Zenon
  <2>. QED
    BY <2>1, <2>2, <2>3, <2>4, <1>4, <1>5
<1>. QED
  BY <1>12, <1>13, <1>14 DEF StreamInv

LEMMA HandleWriteKeepsStream ==
  ASSUME StreamInv, HandleWrite
  PROVE  StreamInv'
<1>1. given \in Nat /\ wrote \in Seq(Nat) /\ send_datas \in Seq(Datas) /\ send_datas # <<>>
      /\ wrote \o Waiting(send_datas) = Numbers(1, given)
  BY DEF StreamInv, HandleWrite
<1>2. PICK d, tail : d = Head(send_datas) /\ tail = Tail(send_datas)
  OBVIOUS
<1>3. d \in Datas /\ tail \in Seq(Datas) /\ send_datas = <<d>> \o tail
  BY <1>1, <1>2, HeadTailProperties
<1>4. IsByteData(d) /\ ~ Borrows(d)
  BY <1>3 DEF Datas
<1>5. PICK n \in 0 .. Len(Iovs(d)) :
        LET rest == IF n = 0 THEN d ELSE ModifyIndexAndOffset(d, n)
            queue == IF Remain(rest) THEN <<rest>> \o tail ELSE tail
        IN  Took(d, n) /\ send_datas' = queue /\ writable' = (queue # <<>>)
  BY <1>2 DEF HandleWrite
<1>6. given' = given
  BY DEF HandleWrite
<1>7. PICK rest : rest = IF n = 0 THEN d ELSE ModifyIndexAndOffset(d, n)
  OBVIOUS
<1>8. /\ IsByteData(rest) /\ rest.packets = d.packets /\ d.index <= rest.index /\ SubSeq(Iovs(d), 1, n) \in Seq(Nat)
      /\ Iovs(d) = SubSeq(Iovs(d), 1, n) \o Iovs(rest) /\ (~ Remain(rest) => Iovs(rest) = <<>>)
  BY <1>4, <1>5, <1>7, WritevSplits
<1>9. PICK x \in Seq(Nat), y \in Seq(Nat), w \in Seq(Nat) : x = SubSeq(Iovs(d), 1, n) /\ y = Iovs(rest) /\ w = Waiting(tail)
  BY <1>3, <1>8, IovsTyped, WaitingTyped
<1>10. PICK queue : queue = IF Remain(rest) THEN <<rest>> \o tail ELSE tail
  OBVIOUS
<1>11. wrote' = wrote \o x /\ Iovs(d) = x \o y /\ send_datas' = queue /\ (writable' <=> queue # <<>>)
  BY <1>5, <1>7, <1>8, <1>9, <1>10 DEF Took
<1>12. rest \in Datas
  <2>1. ~ Borrows(rest)
    <3> SUFFICES ASSUME NEW i \in rest.index .. Len(d.packets), d.packets[i].kind = "borrowed" PROVE FALSE
      BY <1>8 DEF Borrows
    <3>1. d.index \in Nat /\ rest.index \in Nat
      BY <1>4, <1>8 DEF IsByteData
    <3>2. i \in d.index .. Len(d.packets)
      BY <3>1, <1>8
    <3>. QED
      BY <3>2, <1>4 DEF Borrows
  <2>. QED
    BY <2>1, <1>8 DEF Datas, IsByteData
<1>13. queue \in Seq(Datas) /\ Waiting(queue) = y \o w
  <2>1. CASE Remain(rest)
    <3>1. queue = <<rest>> \o tail
      BY <2>1, <1>10
    <3>2. queue \in Seq(Datas) /\ Waiting(queue) = Iovs(rest) \o Waiting(tail)
      BY <3>1, <1>3, <1>12, WaitingPut
    <3>. QED
      BY <3>2, <1>9
  <2>2. CASE ~ Remain(rest)
    <3>1. queue = tail /\ y = <<>>
      BY <2>2, <1>8, <1>9, <1>10
    <3>2. y \o w = w
      BY <3>1, ConcatEmptySeq
    <3>. QED
      BY <3>1, <3>2, <1>3, <1>9
  <2>. QED
    BY <2>1, <2>2
<1>14. wrote' \o Waiting(queue) = Numbers(1, given)
  <2>1. wrote' \o Waiting(queue) = (wrote \o x) \o (y \o w)
    BY <1>11, <1>13
  <2>3. y \o w \in Seq(Nat)
    OBVIOUS
  <2>2. Associate(wrote, x, y \o w) /\ Associate(x, y, w)
    BY <2>3, <1>1, Associates
  <2>4. (wrote \o x) \o (y \o w) = wrote \o (x \o (y \o w)) /\ x \o (y \o w) = (x \o y) \o w
    BY <2>2, Zenon DEF Associate
  <2>5. Waiting(send_datas) = Iovs(d) \o Waiting(tail)
    BY <1>3, WaitingPut
  <2>6. Waiting(send_datas) = (x \o y) \o w
    BY <2>5, <1>9, <1>11
  <2>. QED
    BY <2>1, <2>4, <2>6, <1>1, Zenon
<1>15. wrote' \in Seq(Nat)
  BY <1>1, <1>11
<1>. QED
  BY <1>1, <1>6, <1>11, <1>13, <1>14, <1>15 DEF StreamInv

LEMMA StreamInvKept == BytesSpec => []StreamInv
<1>1. ASSUME BytesInit PROVE StreamInv
  <2>1. Waiting(<<>>) = <<>>
    BY DEF Waiting, FlattenSeq
  <2>2. Numbers(1, 0) = <<>>
    <3>1. Numbers(1, 0) \in Seq(Nat) /\ Len(Numbers(1, 0)) = 0
      <4>1. 1 \in Nat /\ 0 \in Nat
        OBVIOUS
      <4>. QED
        BY <4>1, NumbersAreTyped
    <3>. QED
      BY <3>1, EmptySeq
  <2>3. <<>> \o <<>> = <<>> /\ <<>> \in Seq(Nat) /\ <<>> \in Seq(Datas)
    <3>1. <<>> \in Seq(Nat) /\ <<>> \in Seq(Datas)
      BY EmptySeq
    <3>. QED
      BY <3>1, ConcatEmptySeq
  <2>. QED
    BY <1>1, <2>1, <2>2, <2>3 DEF BytesInit, StreamInv
<1>2. ASSUME StreamInv, BytesNext PROVE StreamInv'
  <2>1. CASE HandleWrite
    BY <1>2, <2>1, HandleWriteKeepsStream
  <2>2. ASSUME NEW shape \in Shapes, Send(shape) PROVE StreamInv'
    BY <1>2, <2>2, SendKeepsStream
  <2>3. ASSUME NEW n, Readv(n) \/ ReadBytes(n) PROVE StreamInv'
    <3>1. UNCHANGED outvars
      BY <2>3 DEF Readv, ReadBytes
    <3>. QED
      BY <3>1, <1>2 DEF StreamInv, outvars
  <2>. QED
    BY <1>2, <2>1, <2>2, <2>3 DEF BytesNext
<1>3. ASSUME StreamInv, UNCHANGED bytevars PROVE StreamInv'
  BY <1>3 DEF StreamInv, bytevars, outvars
<1>. QED
  BY <1>1, <1>2, <1>3, PTL DEF BytesSpec

(* The socket gets all bytes that Send was given, in that order, over any partial writes; nothing that *)
(* waits is in memory of the caller, and the connection waits for room exactly while something is to   *)
(* be sent (bytedata.cc, tcpconnection.cc).                                                            *)
THEOREM StreamStaysKept == BytesSpec => []StreamIsKept
<1>1. ASSUME StreamInv PROVE StreamIsKept
  <2>1. \A k \in DOMAIN send_datas : \A i \in send_datas[k].index .. Len(send_datas[k].packets) :
          send_datas[k].packets[i].kind # "borrowed"
    <3> SUFFICES ASSUME NEW k \in DOMAIN send_datas, NEW i \in send_datas[k].index .. Len(send_datas[k].packets),
                        send_datas[k].packets[i].kind = "borrowed"
                 PROVE FALSE
      OBVIOUS
    <3>1. send_datas \in Seq(Datas)
      BY <1>1 DEF StreamInv
    <3>2. send_datas[k] \in Datas
      BY <3>1, LenProperties, ElementOfSeq
    <3>3. ~ Borrows(send_datas[k])
      BY <3>2 DEF Datas
    <3>. QED
      BY <3>3 DEF Borrows
  <2>. QED
    BY <1>1, <2>1 DEF StreamInv, StreamIsKept, Waiting
<1>. QED
  BY <1>1, StreamInvKept, PTL

-----------------------------------------------------------------------------
(***************************************************************************)
(* RedisLock: a lock is kept, for any number of clients.  LockIsKept speaks *)
(* of what a client knows; the invariant adds the moment before, when the  *)
(* server did SET and the answer is still on its way, and why nobody else  *)
(* can delete the key: an EVAL carries a value that its own client drew.   *)
(***************************************************************************)

Commands == [cmd : {"none", "SET", "EVAL"}, value : Nanos \cup {"none"},
             at : {"idle", "sent", "done", "refused", "broken"}]
LockTypeOK ==
  /\ key \in [value : Nanos \cup {"none"}, by : Clients \cup {"none"}]
  /\ conn \in [Clients -> Commands]
  /\ lock \in [Clients -> [value : Nanos \cup {""}, holds : BOOLEAN]]
  /\ drew \in [Clients -> SUBSET Nanos]
\* A client works only with values that it drew itself.
ValuesAreDrawn ==
  \A c \in Clients :
    /\ conn[c].cmd # "none" => conn[c].value \in drew[c]
    /\ lock[c].value # "" => lock[c].value \in drew[c]
\* A holder has nothing under way that could delete its key.
HolderIsQuiet == \A c \in Clients : lock[c].holds => lock[c].value # "" /\ conn[c].at \in {"idle", "broken"}
\* The server did the SET of c; the answer is still to come.
TakenIsKept ==
  \A c \in Clients :
    conn[c].cmd = "SET" /\ conn[c].at = "done" /\ c \notin expired
      => SameNanos(c, conn[c].value) \/ key = [value |-> conn[c].value, by |-> c]
LockInv == LockTypeOK /\ ValuesAreDrawn /\ HolderIsQuiet /\ TakenIsKept /\ LockIsKept

(* The initial state satisfies the invariant: nobody has anything. *)
LEMMA LockInitial == LockInit => LockInv
<1> SUFFICES ASSUME LockInit PROVE LockInv
  OBVIOUS
<1>1. LockTypeOK
  BY DEF LockInit, Commands, LockTypeOK, NoKey, Quiet, NoLock
<1>2. \A c \in Clients : conn[c].cmd = "none" /\ lock[c].value = "" /\ lock[c].holds = FALSE
  BY DEF LockInit, Quiet, NoLock
<1>. QED
  BY <1>1, <1>2 DEF LockInv, ValuesAreDrawn, HolderIsQuiet, TakenIsKept, LockIsKept

(* A client keeps its shares of the invariant through a step of Lock: the    *)
(* set of drawn values only grows.                                           *)
LEMMA LockStep ==
  ASSUME LockInv, NEW c \in Clients, NEW nsec \in Nanos, Lock(c, nsec)
  PROVE  LockInv'
<1> USE DEF LockInv
<1>1. LockTypeOK'
  BY DEF Lock, Cmd, NoLock, Commands, LockTypeOK
<1>2. ValuesAreDrawn'
  BY DEF Lock, Cmd, NoLock, Commands, LockTypeOK, ValuesAreDrawn
<1>3. HolderIsQuiet'
  BY DEF Lock, Cmd, NoLock, Commands, LockTypeOK, HolderIsQuiet
<1>4. TakenIsKept'
  BY DEF Lock, Cmd, Commands, LockTypeOK, TakenIsKept, SameNanos
<1>5. LockIsKept'
  BY DEF Lock, Cmd, NoLock, Commands, LockTypeOK, LockIsKept, SameNanos
<1>. QED
  BY <1>1, <1>2, <1>3, <1>4, <1>5

(* Unlock gives up the lock before its command leaves. *)
LEMMA UnlockStep ==
  ASSUME LockInv, NEW c \in Clients, Unlock(c)
  PROVE  LockInv'
<1> USE DEF LockInv
<1>1. LockTypeOK'
  BY ZenonT(60) DEF Unlock, Cmd, Commands, LockTypeOK
<1>2. ValuesAreDrawn'
  BY ZenonT(60) DEF Unlock, Cmd, Commands, LockTypeOK, ValuesAreDrawn
<1>3. HolderIsQuiet'
  BY DEF Unlock, Cmd, Commands, LockTypeOK, HolderIsQuiet
<1>4. TakenIsKept'
  BY DEF Unlock, Cmd, Commands, LockTypeOK, TakenIsKept, SameNanos
<1>5. LockIsKept'
  BY DEF Unlock, Cmd, Commands, LockTypeOK, LockIsKept, SameNanos
<1>. QED
  BY <1>1, <1>2, <1>3, <1>4, <1>5

(* The server does a command of c.  A script deletes the key of another      *)
(* client only when both drew the same nanoseconds.                          *)
LEMMA ServeStep ==
  ASSUME LockInv, NEW c \in Clients, Serve(c)
  PROVE  LockInv'
<1> USE DEF LockInv
<1> DEFINE sets == conn[c].cmd = "SET" /\ key = NoKey
           deletes == conn[c].cmd = "EVAL" /\ Deletes(conn[c].value)
<1>0. /\ conn[c].at = "sent"
      /\ key' = IF sets THEN [value |-> conn[c].value, by |-> c] ELSE IF deletes THEN NoKey ELSE key
      /\ conn' = [conn EXCEPT ![c].at = IF sets \/ deletes THEN "done" ELSE "refused"]
      /\ expired' = IF sets THEN expired \ {c} ELSE expired
      /\ lock' = lock /\ drew' = drew
  BY DEF Serve
<1>1. LockTypeOK'
  <2>1. key' \in [value : Nanos \cup {"none"}, by : Clients \cup {"none"}]
    BY <1>0 DEF Commands, LockTypeOK, NoKey
  <2>2. conn' \in [Clients -> Commands]
    <3> DEFINE answer == IF sets \/ deletes THEN "done" ELSE "refused"
    <3>1. answer \in {"done", "refused"}
      OBVIOUS
    <3>2. conn' = [conn EXCEPT ![c].at = answer]
      BY <1>0
    <3> HIDE DEF answer
    <3>3. conn \in [Clients -> Commands]
      BY DEF LockTypeOK
    <3>4. [conn[c] EXCEPT !.at = answer] \in Commands
      BY <3>1, <3>3 DEF Commands
    <3>. QED
      BY <3>2, <3>3, <3>4
  <2>. QED
    BY <1>0, <2>1, <2>2 DEF Commands, LockTypeOK
<1>2. ValuesAreDrawn'
  BY <1>0, ZenonT(60) DEF Commands, LockTypeOK, ValuesAreDrawn
<1>3. HolderIsQuiet'
  BY <1>0 DEF Commands, LockTypeOK, HolderIsQuiet
<1>4. ASSUME NEW d \in Clients, d # c, NEW v \in drew[d], d \notin expired',
             SameNanos(d, v) \/ key = [value |-> v, by |-> d]
      PROVE  SameNanos(d, v)' \/ key' = [value |-> v, by |-> d]
  <2>1. CASE SameNanos(d, v)
    BY <2>1, <1>0 DEF SameNanos
  <2>2. CASE key = [value |-> v, by |-> d]
    <3>1. key # NoKey
      BY <2>2, <1>4, LockAssumption DEF NoKey, Commands, LockTypeOK
    <3>2. CASE deletes
      BY <3>2, <2>2, <1>0, <1>4 DEF Deletes, ValuesAreDrawn, SameNanos
    <3>3. CASE ~ deletes
      BY <3>1, <3>3, <2>2, <1>0
    <3>. QED
      BY <3>2, <3>3
  <2>. QED
    BY <1>4, <2>1, <2>2
<1>5. TakenIsKept'
  <2> SUFFICES ASSUME NEW d \in Clients, conn'[d].cmd = "SET", conn'[d].at = "done", d \notin expired'
               PROVE  (SameNanos(d, conn[d].value) \/ key = [value |-> conn[d].value, by |-> d])'
    BY DEF TakenIsKept
  <2>1. CASE d = c
    BY <2>1, <1>0, ZenonT(60) DEF Commands, LockTypeOK
  <2>2. CASE d # c
    <3>1. conn'[d] = conn[d] /\ d \notin expired /\ conn[d].value \in drew[d]
      BY <2>2, <1>0 DEF Commands, LockTypeOK, ValuesAreDrawn
    <3>. QED
      BY <3>1, <2>2, <1>4 DEF TakenIsKept
  <2>. QED
    BY <2>1, <2>2
<1>6. LockIsKept'
  <2> SUFFICES ASSUME NEW d \in Clients, lock'[d].holds, d \notin expired'
               PROVE  (SameNanos(d, lock[d].value) \/ key = [value |-> lock[d].value, by |-> d])'
    BY DEF LockIsKept
  <2>1. d # c
    BY <1>0 DEF HolderIsQuiet
  <2>2. d \notin expired /\ lock'[d] = lock[d] /\ lock[d].value \in drew[d]
    BY <2>1, <1>0 DEF HolderIsQuiet, ValuesAreDrawn
  <2>. QED
    BY <2>1, <2>2, <1>4 DEF LockIsKept
<1>. QED
  BY <1>1, <1>2, <1>3, <1>5, <1>6

(* Whoever owned the key that expires is named in expired. *)
LEMMA ExpireStep ==
  ASSUME LockInv, Expire
  PROVE  LockInv'
<1> USE DEF LockInv
<1>1. LockTypeOK' /\ ValuesAreDrawn' /\ HolderIsQuiet'
  BY DEF Expire, NoKey, Commands, LockTypeOK, ValuesAreDrawn, HolderIsQuiet
<1>2. TakenIsKept'
  BY DEF Expire, TakenIsKept, SameNanos
<1>3. LockIsKept'
  BY DEF Expire, LockIsKept, SameNanos
<1>. QED
  BY <1>1, <1>2, <1>3

(* The answer of SET turns what the server did into what the client knows. *)
LEMMA AnswerStep ==
  ASSUME LockInv, NEW c \in Clients, Answer(c)
  PROVE  LockInv'
<1> USE DEF LockInv
<1>1. LockTypeOK'
  <2>1. conn[c].cmd = "SET" => conn[c].value \in Nanos
    BY DEF Commands, LockTypeOK, ValuesAreDrawn
  <2>2. CASE conn[c].cmd = "SET" /\ conn[c].at = "done"
    BY <2>1, <2>2 DEF Answer, Quiet, Commands, LockTypeOK
  <2>3. CASE ~ (conn[c].cmd = "SET" /\ conn[c].at = "done")
    BY <2>3 DEF Answer, Quiet, Commands, LockTypeOK
  <2>. QED
    BY <2>2, <2>3
<1>2. ValuesAreDrawn'
  BY DEF Answer, Quiet, Commands, LockTypeOK, ValuesAreDrawn
<1>3. HolderIsQuiet'
  BY LockAssumption, ZenonT(60) DEF Answer, Quiet, Commands, LockTypeOK, HolderIsQuiet, ValuesAreDrawn
<1>4. TakenIsKept'
  BY DEF Answer, Quiet, Commands, LockTypeOK, TakenIsKept, SameNanos
<1>5. LockIsKept'
  BY DEF Answer, Commands, LockTypeOK, LockIsKept, TakenIsKept, SameNanos
<1>. QED
  BY <1>1, <1>2, <1>3, <1>4, <1>5

(* A lost connection takes its command with it. *)
LEMMA LoseStep ==
  ASSUME LockInv, NEW c \in Clients, Lose(c)
  PROVE  LockInv'
<1> USE DEF LockInv
<1>1. LockTypeOK' /\ ValuesAreDrawn' /\ HolderIsQuiet'
  BY DEF Lose, Quiet, Commands, LockTypeOK, ValuesAreDrawn, HolderIsQuiet
<1>2. TakenIsKept'
  BY DEF Lose, Quiet, Commands, LockTypeOK, TakenIsKept, SameNanos
<1>3. LockIsKept'
  BY DEF Lose, LockIsKept, SameNanos
<1>. QED
  BY <1>1, <1>2, <1>3

(* The lock that Redis::Lock gave stays its client's own until the client    *)
(* unlocks or the lifetime is over, unless another drew the same nanoseconds *)
(* (redis.cc).                                                               *)
THEOREM LockStaysKept == LockSpec => []LockIsKept
<1>1. LockInv /\ [LockNext]_lockvars => LockInv'
  <2> SUFFICES ASSUME LockInv, [LockNext]_lockvars PROVE LockInv'
    OBVIOUS
  <2>1. CASE UNCHANGED lockvars
    BY <2>1 DEF lockvars, LockInv, Commands, LockTypeOK, ValuesAreDrawn,
                HolderIsQuiet, TakenIsKept, LockIsKept, SameNanos
  <2>2. CASE LockNext
    BY <2>2, LockStep, UnlockStep, ServeStep, ExpireStep, AnswerStep, LoseStep DEF LockNext
  <2>. QED
    BY <2>1, <2>2
<1>2. LockInv => LockIsKept
  BY DEF LockInv
<1>. QED
  BY LockInitial, <1>1, <1>2, PTL DEF LockSpec

-----------------------------------------------------------------------------
(***************************************************************************)
(* MemoryPool: the objects of a pool do not overlap, for any sizes, classes *)
(* and blocks of which each size class has objects of one room.  The       *)
(* invariant gives every address that was ever cut from a block the room of *)
(* its class, whether the object is held or free: Allocate from a list and *)
(* Deallocate then leave all rooms as they are, and a new object is cut    *)
(* behind the last of them.                                                *)
(***************************************************************************)

(* Multiples of the alignment. *)

LEMMA Residue ==
  ASSUME NEW a \in Nat \ {0}, NEW n \in Nat, NEW k \in Nat, NEW r \in 0 .. a - 1, n = a * k + r
  PROVE  n % a = r
<1> DEFINE q == n \div a
           s == n % a
<1>1. q \in Nat /\ s \in 0 .. a - 1 /\ n = a * q + s
  OBVIOUS
<1> HIDE DEF q, s
<1>2. CASE k < q
  <2>1. a * (k + 1) <= a * q /\ a * (k + 1) = a * k + a
    BY <1>1, <1>2
  <2>. QED
    BY <1>1, <2>1
<1>3. CASE q < k
  <2>1. a * (q + 1) <= a * k /\ a * (q + 1) = a * q + a
    BY <1>1, <1>3
  <2>. QED
    BY <1>1, <2>1
<1>4. CASE q = k
  <2>1. n = a * k + s /\ a * k \in Nat
    BY <1>1, <1>4
  <2>2. s = r
    BY <1>1, <2>1
  <2>. QED
    BY <2>2 DEF s
<1>. QED
  BY <1>1, <1>2, <1>3, <1>4

LEMMA Multiples ==
  ASSUME NEW n \in Nat
  PROVE  n % Align = 0 <=> \E k \in Nat : n = Align * k
<1>1. Align \in Nat \ {0}
  BY PoolAssumption
<1>2. ASSUME n % Align = 0 PROVE n \div Align \in Nat /\ n = Align * (n \div Align)
  BY <1>1, <1>2
<1>3. ASSUME NEW k \in Nat, n = Align * k PROVE n % Align = 0
  <2>1. 0 \in 0 .. Align - 1 /\ n = Align * k + 0
    BY <1>1, <1>3
  <2>. QED
    BY <1>1, <2>1, Residue
<1>. QED
  BY <1>2, <1>3

LEMMA SumIsAligned ==
  ASSUME NEW m \in Nat, NEW n \in Nat, m % Align = 0, n % Align = 0
  PROVE  (m + n) % Align = 0
<1>1. PICK j \in Nat : m = Align * j
  BY Multiples
<1>2. PICK k \in Nat : n = Align * k
  BY Multiples
<1>3. m + n = Align * (j + k) /\ m + n \in Nat /\ j + k \in Nat
  BY <1>1, <1>2, PoolAssumption
<1>. QED
  BY <1>3, Multiples

LEMMA DifferenceIsAligned ==
  ASSUME NEW m \in Nat, NEW n \in Nat, n <= m, m % Align = 0, n % Align = 0
  PROVE  (m - n) % Align = 0
<1>1. PICK j \in Nat : m = Align * j
  BY Multiples
<1>2. PICK k \in Nat : n = Align * k
  BY Multiples
<1>3. Align \in Nat \ {0}
  BY PoolAssumption
<1>4. ~ (j < k)
  <2>1. j < k => Align * (j + 1) <= Align * k /\ Align * (j + 1) = Align * j + Align
    BY <1>3
  <2>. QED
    BY <1>1, <1>2, <1>3, <2>1
<1>5. m - n = Align * (j - k) /\ m - n \in Nat /\ j - k \in Nat
  BY <1>1, <1>2, <1>3, <1>4
<1>. QED
  BY <1>5, Multiples

\* Aligned(n) is the least multiple of the alignment that is not less than n.
LEMMA AlignedIsLeast ==
  ASSUME NEW n \in Nat
  PROVE  /\ Slop(n) \in Nat /\ Aligned(n) \in Nat /\ n <= Aligned(n) /\ Aligned(n) % Align = 0
         /\ \A m \in Nat : n <= m /\ m % Align = 0 => Aligned(n) <= m
<1> DEFINE q == n \div Align
           s == n % Align
<1>0. Align \in Nat \ {0} /\ Align \in Nat
  BY PoolAssumption
<1>1. q \in Nat /\ s \in 0 .. Align - 1 /\ n = Align * q + s
  BY <1>0
<1>2. Slop(n) = (Align - s) % Align
  BY DEF Slop
<1> HIDE DEF q, s
<1>3. CASE s = 0
  <2>1. Align - s = Align * 1 + 0 /\ 0 \in 0 .. Align - 1 /\ Align - s \in Nat
    BY <1>0, <1>3
  <2>2. Slop(n) = 0
    BY <1>0, <1>2, <2>1, Residue
  <2>3. Aligned(n) = n /\ n % Align = 0
    BY <1>3, <2>2 DEF Aligned, s
  <2>. QED
    BY <2>2, <2>3
<1>4. CASE s # 0
  <2>1. Align - s = Align * 0 + (Align - s) /\ Align - s \in 0 .. Align - 1 /\ Align - s \in Nat
    BY <1>0, <1>1, <1>4
  <2>2. Slop(n) = Align - s
    BY <1>0, <1>2, <2>1, Residue
  <2>3. Aligned(n) = Align * (q + 1) /\ q + 1 \in Nat
    BY <1>0, <1>1, <2>2 DEF Aligned
  <2>4. Aligned(n) \in Nat /\ n <= Aligned(n)
    BY <1>0, <1>1, <2>1, <2>2 DEF Aligned
  <2>5. Aligned(n) % Align = 0
    BY <2>3, <2>4, Multiples
  <2>6. ASSUME NEW m \in Nat, n <= m, m % Align = 0 PROVE Aligned(n) <= m
    <3>1. PICK p \in Nat : m = Align * p
      BY <2>6, Multiples
    <3>2. q < p
      <4>1. Align * q < Align * p
        BY <1>0, <1>1, <1>4, <2>6, <3>1
      <4>. QED
        BY <1>0, <1>1, <4>1
    <3>3. Align * (q + 1) <= Align * p
      BY <1>0, <1>1, <3>2
    <3>. QED
      BY <2>3, <3>1, <3>3
  <2>. QED
    BY <2>1, <2>2, <2>4, <2>5, <2>6
<1>. QED
  BY <1>3, <1>4

(* The size classes. *)

LEMMA IndexIsClass == ASSUME NEW bytes \in Sizes PROVE MemorylistsIndex(bytes) \in Class
<1> DEFINE T == {c \in Class : bytes <= Align * 2 ^ c}
<1>1. /\ bytes \in Nat /\ Align \in Nat /\ Classes \in Nat \ {0} /\ bytes <= Align * 2 ^ (Classes - 1)
  BY PoolAssumption
<1>2. Classes - 1 \in T
  BY <1>1 DEF Class
<1>3. T \subseteq Nat /\ T # {}
  <2>1. Class \subseteq Nat
    BY <1>1 DEF Class
  <2>. QED
    BY <1>2, <2>1
<1> HIDE DEF T
<1>4. PICK c \in T : \A d \in T : ~ (<<d, c>> \in OpToRel(<, Nat))
  BY <1>3, WFMin, NatLessThanWellFounded
<1>5. c \in Class /\ bytes <= Align * 2 ^ c
  BY <1>4 DEF T
<1>6. ASSUME NEW d \in 0 .. c - 1 PROVE bytes > Align * 2 ^ d
  <2>1. d \in Class /\ d \in Nat /\ c \in Nat /\ d < c
    BY <1>1, <1>5 DEF Class
  <2>2. <<d, c>> \in OpToRel(<, Nat)
    BY <2>1 DEF OpToRel
  <2>3. ~ (bytes <= Align * 2 ^ d)
    BY <1>4, <2>1, <2>2 DEF T
  <2>. QED
    BY <1>1, <2>1, <2>3
<1>. QED
  BY <1>5, <1>6 DEF MemorylistsIndex

(* The objects: where they are and what room they have. *)

\* The room of the objects of a class.
Room(c) == IF \E b \in Sizes : MemorylistsIndex(b) = c
           THEN Aligned(CHOOSE b \in Sizes : MemorylistsIndex(b) = c) ELSE Align

LEMMA RoomOfClass ==
  /\ \A b \in Sizes : b \in Nat /\ MemorylistsIndex(b) \in Class /\ b <= Room(MemorylistsIndex(b))
  /\ \A b \in Sizes : Room(MemorylistsIndex(b)) = Aligned(b) /\ Aligned(b) <= BlockSize
  /\ \A c \in Class : Room(c) \in Nat /\ Align <= Room(c) /\ Room(c) % Align = 0
<1>0. Align \in Nat \ {0} /\ BlockSize \in Nat /\ BlockSize % Align = 0
  BY PoolAssumption
<1>1. ASSUME NEW b \in Sizes
      PROVE  /\ b \in Nat \ {0} /\ b <= BlockSize /\ MemorylistsIndex(b) \in Class
             /\ Room(MemorylistsIndex(b)) = Aligned(b)
  <2> DEFINE c == MemorylistsIndex(b)
             d == CHOOSE x \in Sizes : MemorylistsIndex(x) = c
  <2>1. d \in Sizes /\ MemorylistsIndex(d) = c
    OBVIOUS
  <2>2. Room(c) = Aligned(d)
    BY DEF Room
  <2> HIDE DEF c, d
  <2>3. Aligned(d) = Aligned(b)
    BY <2>1, OneRoomPerClass DEF c
  <2>. QED
    BY <2>2, <2>3, PoolAssumption, IndexIsClass DEF c
<1>2. ASSUME NEW b \in Sizes
      PROVE  /\ Aligned(b) \in Nat /\ b <= Aligned(b) /\ Aligned(b) <= BlockSize
             /\ Aligned(b) % Align = 0 /\ Align <= Aligned(b)
  <2>1. Aligned(b) \in Nat /\ b <= Aligned(b) /\ Aligned(b) <= BlockSize /\ Aligned(b) % Align = 0
    BY <1>0, <1>1, AlignedIsLeast
  <2>2. PICK k \in Nat : Aligned(b) = Align * k
    BY <2>1, Multiples
  <2>3. k # 0
    BY <1>0, <1>1, <2>1, <2>2
  <2>4. Align <= Align * k
    BY <1>0, <2>3
  <2>. QED
    BY <2>1, <2>2, <2>4
<1>3. ASSUME NEW c \in Class PROVE Room(c) \in Nat /\ Align <= Room(c) /\ Room(c) % Align = 0
  <2>1. Align \in Nat /\ Align <= Align /\ Align % Align = 0
    BY <1>0, Residue
  <2>. QED
    BY <1>2, <2>1 DEF Room
<1>. QED
  BY <1>1, <1>2, <1>3

\* The addresses of class c that were cut from the blocks, held or free.
Cut(c) == {o.at : o \in {p \in live : MemorylistsIndex(p.bytes) = c}} \cup ToSet(lists[c])

\* Where the part of a block ends that objects were cut from.
EndIn(block, last, upto) == IF block = last THEN Aligned(upto) ELSE BlockSize
EndOf(block) == EndIn(block, blocks, used)

PoolTyped ==
  /\ lists \in [Class -> Seq(Nat \X Nat)]
  /\ live \subseteq [at : Nat \X Nat, bytes : Sizes]
  /\ blocks \in Nat /\ used \in 0 .. BlockSize
  /\ IsFiniteSet(live) /\ IsFiniteSet(FreeAddresses)

\* An object has its room in its block.
CutsFit ==
  \A c \in Class : \A a \in Cut(c) :
    a[1] \in 1 .. blocks /\ a[2] % Align = 0 /\ a[2] + Room(c) <= EndOf(a[1])

\* The rooms of two objects are apart.
CutsApart ==
  \A c, d \in Class : \A a \in Cut(c), b \in Cut(d) :
    a[1] = b[1] => \/ a = b /\ c = d
                   \/ a[2] + Room(c) <= b[2]
                   \/ b[2] + Room(d) <= a[2]

Different(list) == \A i, j \in 1 .. Len(list) : list[i] = list[j] => i = j

\* An address is held once, or it is in one list once.
OneHolder ==
  /\ \A o, p \in live : o.at = p.at => o = p
  /\ \A o \in live, c \in Class : o.at \notin ToSet(lists[c])
  /\ \A c, d \in Class : c # d => ToSet(lists[c]) \cap ToSet(lists[d]) = {}
  /\ \A c \in Class : Different(lists[c])

MemoryInv == PoolTyped /\ CutsFit /\ CutsApart /\ OneHolder

LEMMA MemoryInitial == PoolInit => MemoryInv
<1> SUFFICES ASSUME PoolInit PROVE MemoryInv
  OBVIOUS
<1>1. lists = [c \in Class |-> <<>>] /\ blocks = 0 /\ used = BlockSize /\ live = {} /\ BlockSize \in Nat
  BY PoolAssumption DEF PoolInit
<1>2. \A c \in Class : lists[c] = <<>> /\ DOMAIN lists[c] = {} /\ ToSet(lists[c]) = {}
  BY <1>1 DEF ToSet
<1>3. FreeAddresses = {}
  BY <1>2 DEF FreeAddresses
<1>4. \A c \in Class : Cut(c) = {}
  BY <1>1, <1>2 DEF Cut
<1>5. PoolTyped
  BY <1>1, <1>3, FS_EmptySet DEF PoolTyped
<1>. QED
  BY <1>1, <1>2, <1>4, <1>5 DEF MemoryInv, CutsFit, CutsApart, OneHolder, Different

\* The objects change hands, and their rooms are the same.
LEMMA CutsSame ==
  ASSUME CutsFit, CutsApart, UNCHANGED <<blocks, used>>, \A c \in Class : Cut(c)' = Cut(c)
  PROVE  CutsFit' /\ CutsApart'
<1>1. \A block : EndOf(block)' = EndOf(block)
  BY DEF EndOf, EndIn
<1>. QED
  BY <1>1 DEF CutsFit, CutsApart

\* A list with one in front, and without its first.
LEMMA PushedFront ==
  ASSUME NEW S, NEW s \in Seq(S), NEW x \in S
  PROVE  /\ <<x>> \o s \in Seq(S) /\ ToSet(<<x>> \o s) = ToSet(s) \cup {x}
         /\ x \notin ToSet(s) /\ Different(s) => Different(<<x>> \o s)
<1> DEFINE t == <<x>> \o s
           n == Len(s)
<1>1. /\ t \in Seq(S) /\ Len(t) = n + 1 /\ n \in Nat /\ DOMAIN t = 1 .. n + 1 /\ DOMAIN s = 1 .. n
      /\ t[1] = x /\ \A i \in 2 .. n + 1 : t[i] = s[i - 1]
  OBVIOUS
<1> HIDE DEF t, n
<1>2. ASSUME NEW i \in 1 .. n + 1, i # 1 PROVE i \in 2 .. n + 1 /\ i - 1 \in 1 .. n
  BY <1>1, <1>2
<1>3. \A i \in 1 .. n : t[i + 1] = s[i] /\ i + 1 \in 1 .. n + 1
  BY <1>1
<1>4. ToSet(t) = ToSet(s) \cup {x}
  <2>1. ASSUME NEW y \in ToSet(t) PROVE y \in ToSet(s) \cup {x}
    <3>1. PICK i \in 1 .. n + 1 : y = t[i]
      BY <1>1, <2>1 DEF ToSet
    <3>2. i # 1 => t[i] = s[i - 1] /\ i - 1 \in DOMAIN s
      BY <1>1, <1>2
    <3>. QED
      BY <1>1, <3>1, <3>2 DEF ToSet
  <2>2. ASSUME NEW y \in ToSet(s) PROVE y \in ToSet(t)
    <3>1. PICK i \in 1 .. n : y = s[i]
      BY <1>1, <2>2 DEF ToSet
    <3>2. t[i + 1] = y /\ i + 1 \in DOMAIN t
      BY <1>1, <1>3, <3>1
    <3>. QED
      BY <3>2 DEF ToSet
  <2>3. 1 \in DOMAIN t
    BY <1>1
  <2>4. x \in ToSet(t)
    BY <1>1, <2>3 DEF ToSet
  <2>. QED
    BY <2>1, <2>2, <2>4
<1>5. ASSUME x \notin ToSet(s), Different(s), NEW i \in 1 .. n + 1, NEW j \in 1 .. n + 1, t[i] = t[j]
      PROVE  i = j
  <2>1. \A m \in 1 .. n : s[m] # x
    BY <1>1, <1>5 DEF ToSet
  <2>2. i = 1 <=> t[i] = x
    BY <1>1, <1>2, <2>1
  <2>3. j = 1 <=> t[j] = x
    BY <1>1, <1>2, <2>1
  <2>4. i # 1 /\ j # 1 => s[i - 1] = s[j - 1] /\ i - 1 \in 1 .. n /\ j - 1 \in 1 .. n
    BY <1>1, <1>2, <1>5
  <2>5. i # 1 /\ j # 1 => i - 1 = j - 1
    BY <1>1, <1>5, <2>4 DEF Different, n
  <2>. QED
    BY <1>5, <2>2, <2>3, <2>5
<1>. QED
  BY <1>1, <1>4, <1>5 DEF Different, t, n

LEMMA PoppedFront ==
  ASSUME NEW S, NEW s \in Seq(S), s # <<>>
  PROVE  /\ Tail(s) \in Seq(S) /\ Head(s) \in S /\ Head(s) \in ToSet(s)
         /\ Different(s) => Different(Tail(s)) /\ ToSet(Tail(s)) = ToSet(s) \ {Head(s)}
<1> DEFINE t == Tail(s)
           n == Len(s)
<1>1. /\ t \in Seq(S) /\ Len(t) = n - 1 /\ n \in Nat \ {0} /\ DOMAIN t = 1 .. n - 1 /\ DOMAIN s = 1 .. n
      /\ Head(s) = s[1] /\ s[1] \in S /\ \A i \in 1 .. n - 1 : t[i] = s[i + 1]
  OBVIOUS
<1> HIDE DEF t, n
<1>2. ASSUME NEW i \in 1 .. n, i # 1 PROVE i - 1 \in 1 .. n - 1 /\ t[i - 1] = s[i]
  <2>1. i - 1 \in 1 .. n - 1 /\ (i - 1) + 1 = i
    BY <1>1, <1>2
  <2>. QED
    BY <1>1, <2>1
<1>3. \A i \in 1 .. n - 1 : i + 1 \in 1 .. n /\ i + 1 # 1
  BY <1>1
<1>4. 1 \in 1 .. n
  BY <1>1
<1>5. ASSUME Different(s) PROVE ToSet(t) = ToSet(s) \ {s[1]}
  <2>1. ASSUME NEW y \in ToSet(t) PROVE y \in ToSet(s) /\ y # s[1]
    <3>1. PICK i \in 1 .. n - 1 : y = s[i + 1]
      BY <1>1, <2>1 DEF ToSet
    <3>. QED
      BY <1>1, <1>3, <1>4, <1>5, <3>1 DEF Different, ToSet, n
  <2>2. ASSUME NEW y \in ToSet(s), y # s[1] PROVE y \in ToSet(t)
    <3>1. PICK i \in 1 .. n : y = s[i]
      BY <1>1, <2>2 DEF ToSet
    <3>2. t[i - 1] = s[i] /\ i - 1 \in DOMAIN t
      BY <1>1, <1>2, <2>2, <3>1
    <3>. QED
      BY <3>1, <3>2 DEF ToSet
  <2>. QED
    BY <2>1, <2>2
<1>6. ASSUME Different(s), NEW i \in 1 .. n - 1, NEW j \in 1 .. n - 1, t[i] = t[j] PROVE i = j
  <2>1. i + 1 = j + 1
    BY <1>1, <1>3, <1>6 DEF Different, n
  <2>. QED
    BY <2>1
<1>7. Head(s) \in ToSet(s)
  BY <1>1, <1>4 DEF ToSet
<1>. QED
  BY <1>1, <1>5, <1>6, <1>7 DEF Different, t

\* Deallocate: the address goes to the front of the list of its class.
LEMMA DeallocateStep == ASSUME MemoryInv, NEW o \in live, Deallocate(o) PROVE MemoryInv'
<1> USE DEF MemoryInv, PoolTyped
<1> DEFINE k == MemorylistsIndex(o.bytes)
           freed == <<o.at>> \o lists[k]
<1>1. o.at \in Nat \X Nat /\ o.bytes \in Sizes /\ k \in Class /\ lists[k] \in Seq(Nat \X Nat)
  BY IndexIsClass
<1>2. /\ live' = live \ {o} /\ UNCHANGED <<blocks, used>>
      /\ lists' = [lists EXCEPT ![k] = freed]
  BY DEF Deallocate
<1> HIDE DEF k
<1>3. /\ freed \in Seq(Nat \X Nat) /\ ToSet(freed) = ToSet(lists[k]) \cup {o.at}
      /\ o.at \notin ToSet(lists[k]) /\ Different(freed)
  BY <1>1, PushedFront DEF OneHolder
<1> HIDE DEF freed
<1>4. /\ lists'[k] = freed /\ \A c \in Class \ {k} : lists'[c] = lists[c]
      /\ lists' \in [Class -> Seq(Nat \X Nat)]
  BY <1>1, <1>2, <1>3
<1>5. \A c \in Class : ToSet(lists'[c]) = IF c = k THEN ToSet(lists[c]) \cup {o.at} ELSE ToSet(lists[c])
  BY <1>3, <1>4
<1>6. \A c \in Class : Cut(c)' = Cut(c)
  <2>1. \A c \in Class : Cut(c)' = {p.at : p \in {q \in live \ {o} : MemorylistsIndex(q.bytes) = c}} \cup ToSet(lists'[c])
    BY <1>2 DEF Cut
  <2>. QED
    BY <1>5, <2>1 DEF Cut, k
<1>7. CutsFit' /\ CutsApart'
  BY <1>2, <1>6, CutsSame
<1>8. FreeAddresses' = FreeAddresses \cup {o.at}
  <2>1. FreeAddresses' = UNION {ToSet(lists'[c]) : c \in Class}
    BY DEF FreeAddresses
  <2>2. \A a : a \in FreeAddresses' <=> \E c \in Class : a \in ToSet(lists'[c])
    BY <2>1
  <2>3. \A a : a \in FreeAddresses <=> \E c \in Class : a \in ToSet(lists[c])
    BY DEF FreeAddresses
  <2>. QED
    BY <1>1, <1>5, <2>2, <2>3
<1>9. PoolTyped'
  <2>1. IsFiniteSet(FreeAddresses') /\ IsFiniteSet(live')
    BY <1>2, <1>8, FS_AddElement, FS_RemoveElement
  <2>. QED
    BY <1>2, <1>4, <2>1
<1>10. OneHolder'
  <2>1. \A p, q \in live' : p.at = q.at => p = q
    BY <1>2 DEF OneHolder
  <2>2. ASSUME NEW p \in live', NEW c \in Class PROVE p.at \notin ToSet(lists'[c])
    <3>1. p \in live /\ p.at # o.at
      BY <1>2 DEF OneHolder
    <3>. QED
      BY <1>5, <3>1 DEF OneHolder
  <2>3. ASSUME NEW c \in Class, NEW d \in Class, c # d PROVE ToSet(lists'[c]) \cap ToSet(lists'[d]) = {}
    <3>1. ToSet(lists[c]) \cap ToSet(lists[d]) = {} /\ o.at \notin ToSet(lists[c]) /\ o.at \notin ToSet(lists[d])
      BY <2>3 DEF OneHolder
    <3>. QED
      BY <1>5, <2>3, <3>1
  <2>4. \A c \in Class : Different(lists'[c])
    BY <1>3, <1>4 DEF OneHolder
  <2>. QED
    BY <2>1, <2>2, <2>3, <2>4 DEF OneHolder
<1>. QED
  BY <1>7, <1>9, <1>10

\* Allocate, of an object that is free: the first of its class.
LEMMA ReuseStep ==
  ASSUME MemoryInv, NEW bytes \in Sizes, lists[MemorylistsIndex(bytes)] # <<>>, Allocate(bytes)
  PROVE  MemoryInv'
<1> USE DEF MemoryInv, PoolTyped
<1> DEFINE k == MemorylistsIndex(bytes)
           rest == Tail(lists[k])
           a == Head(lists[k])
           o == [at |-> a, bytes |-> bytes]
<1>1. k \in Class /\ lists[k] \in Seq(Nat \X Nat) /\ lists[k] # <<>>
  BY IndexIsClass
<1>2. /\ live' = live \cup {o} /\ UNCHANGED <<blocks, used>>
      /\ lists' = [lists EXCEPT ![k] = rest]
  BY DEF Allocate, Holds
<1> HIDE DEF k
<1>3. /\ rest \in Seq(Nat \X Nat) /\ ToSet(rest) = ToSet(lists[k]) \ {a} /\ Different(rest)
      /\ a \in ToSet(lists[k]) /\ a \in Nat \X Nat
  BY <1>1, PoppedFront DEF OneHolder
<1> HIDE DEF rest, a
<1>4. /\ o.at = a /\ o.bytes = bytes /\ MemorylistsIndex(o.bytes) = k
      /\ o \in [at : Nat \X Nat, bytes : Sizes]
  BY <1>3 DEF k
<1> HIDE DEF o
<1>5. /\ lists'[k] = rest /\ \A c \in Class \ {k} : lists'[c] = lists[c]
      /\ lists' \in [Class -> Seq(Nat \X Nat)]
  BY <1>1, <1>2, <1>3
<1>6. \A c \in Class : ToSet(lists'[c]) = ToSet(lists[c]) \ {a} /\ (c # k => ToSet(lists'[c]) = ToSet(lists[c]))
  BY <1>1, <1>3, <1>5 DEF OneHolder
<1>7. \A c \in Class : Cut(c)' = Cut(c)
  <2>1. \A c \in Class : Cut(c)' = {p.at : p \in {q \in live \cup {o} : MemorylistsIndex(q.bytes) = c}} \cup ToSet(lists'[c])
    BY <1>2 DEF Cut
  <2>2. \A c \in Class : {p.at : p \in {q \in live \cup {o} : MemorylistsIndex(q.bytes) = c}}
                         = {p.at : p \in {q \in live : MemorylistsIndex(q.bytes) = c}} \cup IF c = k THEN {a} ELSE {}
    BY <1>4
  <2>3. ASSUME NEW c \in Class PROVE Cut(c)' = Cut(c)
    <3>1. (IF c = k THEN {a} ELSE {}) \cup ToSet(lists'[c]) = ToSet(lists[c])
      BY <1>3, <1>6
    <3>2. Cut(c) = {p.at : p \in {q \in live : MemorylistsIndex(q.bytes) = c}} \cup ToSet(lists[c])
      BY DEF Cut
    <3>. QED
      BY <2>1, <2>2, <3>1, <3>2
  <2>. QED
    BY <2>3
<1>8. CutsFit' /\ CutsApart'
  BY <1>2, <1>7, CutsSame
<1>9. FreeAddresses' = FreeAddresses \ {a}
  <2>1. FreeAddresses' = UNION {ToSet(lists'[c]) : c \in Class}
    BY DEF FreeAddresses
  <2>2. \A x : x \in FreeAddresses' <=> \E c \in Class : x \in ToSet(lists'[c])
    BY <2>1
  <2>3. \A x : x \in FreeAddresses <=> \E c \in Class : x \in ToSet(lists[c])
    BY DEF FreeAddresses
  <2>. QED
    BY <1>6, <2>2, <2>3
<1>10. PoolTyped'
  <2>1. IsFiniteSet(FreeAddresses') /\ IsFiniteSet(live')
    BY <1>2, <1>9, FS_AddElement, FS_RemoveElement
  <2>. QED
    BY <1>2, <1>4, <1>5, <2>1
<1>11. OneHolder'
  <2>1. \A p, q \in live' : p.at = q.at => p = q
    BY <1>1, <1>2, <1>3, <1>4 DEF OneHolder
  <2>2. \A p \in live', c \in Class : p.at \notin ToSet(lists'[c])
    BY <1>2, <1>4, <1>6 DEF OneHolder
  <2>3. \A c, d \in Class : c # d => ToSet(lists'[c]) \cap ToSet(lists'[d]) = {}
    BY <1>6 DEF OneHolder
  <2>4. \A c \in Class : Different(lists'[c])
    BY <1>3, <1>5 DEF OneHolder
  <2>. QED
    BY <2>1, <2>2, <2>3, <2>4 DEF OneHolder
<1>. QED
  BY <1>8, <1>10, <1>11

\* What the end of a block is for.
LEMMA EndsOfBlocks ==
  ASSUME PoolTyped
  PROVE  /\ Aligned(used) \in Nat /\ used <= Aligned(used) /\ Aligned(used) <= BlockSize
         /\ Aligned(used) % Align = 0 /\ BlockSize \in Nat
         /\ \A b : EndOf(b) \in Nat /\ EndOf(b) <= BlockSize
<1>1. used \in Nat /\ used <= BlockSize /\ BlockSize \in Nat /\ BlockSize % Align = 0
  BY PoolAssumption DEF PoolTyped
<1>2. Aligned(used) \in Nat /\ used <= Aligned(used) /\ Aligned(used) <= BlockSize /\ Aligned(used) % Align = 0
  BY <1>1, AlignedIsLeast
<1>. QED
  BY <1>1, <1>2 DEF EndOf, EndIn

\* Allocate, of an object that is new: it gets what is behind the others.
LEMMA CutStep ==
  ASSUME MemoryInv, NEW bytes \in Sizes, AllocateInMemoryblocks(bytes), UNCHANGED lists
  PROVE  MemoryInv'
<1> USE DEF MemoryInv, PoolTyped
<1> DEFINE k == MemorylistsIndex(bytes)
           fits == bytes + Slop(used) <= BlockSize - used /\ blocks > 0
           a == IF fits THEN <<blocks, Aligned(used)>> ELSE <<blocks + 1, 0>>
           o == [at |-> a, bytes |-> bytes]
<1>1. /\ k \in Class /\ bytes \in Nat /\ Room(k) = Aligned(bytes) /\ Aligned(bytes) \in Nat
      /\ bytes <= BlockSize /\ Aligned(bytes) <= BlockSize /\ bytes <= Aligned(bytes)
  BY RoomOfClass, PoolAssumption, AlignedIsLeast
<1>2. /\ Aligned(used) \in Nat /\ Slop(used) \in Nat /\ Aligned(used) = used + Slop(used)
      /\ Aligned(used) % Align = 0 /\ used \in Nat /\ blocks \in Nat /\ BlockSize \in Nat
      /\ Aligned(used) <= BlockSize
  <2>1. used \in Nat /\ Aligned(used) = used + Slop(used)
    BY DEF Aligned
  <2>. QED
    BY <2>1, EndsOfBlocks, AlignedIsLeast
<1>3. /\ live' = live \cup {o}
      /\ fits => blocks' = blocks /\ used' = Aligned(used) + bytes /\ blocks > 0
      /\ ~ fits => blocks' = blocks + 1 /\ used' = bytes
  BY <1>2 DEF AllocateInMemoryblocks, Holds, Aligned
<1> HIDE DEF k
<1>4. used' \in 0 .. BlockSize /\ blocks' \in Nat
  <2>1. fits => Aligned(used) + bytes <= BlockSize
    BY <1>1, <1>2
  <2> HIDE DEF fits
  <2>2. CASE fits
    BY <1>1, <1>2, <1>3, <2>1, <2>2
  <2>3. CASE ~ fits
    BY <1>1, <1>2, <1>3, <2>3
  <2>. QED
    BY <2>2, <2>3
<1> HIDE DEF fits
<1>5. Aligned(used') \in Nat /\ used' <= Aligned(used')
  BY <1>4, PoolAssumption, AlignedIsLeast
<1>6. /\ a \in Nat \X Nat /\ a[1] \in 1 .. blocks' /\ a[2] % Align = 0 /\ a[2] + Room(k) <= EndIn(a[1], blocks', used')
      /\ a[1] >= blocks /\ (a[1] = blocks => a[2] = Aligned(used))
  <2>1. CASE fits
    <3>1. a = <<blocks, Aligned(used)>> /\ used' = Aligned(used) + bytes /\ blocks' = blocks /\ blocks > 0
      BY <1>3, <2>1
    <3>2. Aligned(used') % Align = 0 /\ Aligned(used) <= Aligned(used')
      <4>1. used' \in Nat
        BY <1>1, <1>2, <3>1
      <4>2. used <= Aligned(used')
        BY <1>1, <1>2, <1>5, <3>1, <4>1, SMTT(30)
      <4>. QED
        BY <1>2, <1>5, <4>1, <4>2, AlignedIsLeast
    <3>3. (Aligned(used') - Aligned(used)) % Align = 0 /\ Aligned(used') - Aligned(used) \in Nat
      BY <1>2, <1>5, <3>2, DifferenceIsAligned, SMTT(30)
    <3>4. bytes <= Aligned(used') - Aligned(used)
      BY <1>1, <1>2, <1>5, <3>1, SMTT(30)
    <3>5. Aligned(bytes) <= Aligned(used') - Aligned(used)
      BY <1>1, <3>3, <3>4, AlignedIsLeast
    <3>6. a[1] = blocks /\ a[2] = Aligned(used) /\ EndIn(a[1], blocks', used') = Aligned(used')
      BY <3>1 DEF EndOf, EndIn
    <3>. QED
      <4>1. Aligned(used) + Aligned(bytes) <= Aligned(used')
        BY <1>1, <1>2, <1>5, <3>5
      <4>2. blocks \in 1 .. blocks' /\ <<blocks, Aligned(used)>> \in Nat \X Nat
        BY <1>2, <3>1
      <4> HIDE DEF a
      <4>. QED
        BY <1>1, <1>2, <3>1, <3>6, <4>1, <4>2
  <2>2. CASE ~ fits
    <3>1. a = <<blocks + 1, 0>> /\ used' = bytes /\ blocks' = blocks + 1
      BY <1>3, <2>2
    <3>2. a[1] = blocks + 1 /\ a[2] = 0 /\ EndIn(a[1], blocks', used') = Aligned(bytes)
      BY <3>1 DEF EndOf, EndIn
    <3>3. 0 % Align = 0
      <4>1. 0 = Align * 0
        BY PoolAssumption
      <4>. QED
        BY <4>1, Multiples
    <3>. QED
      BY <1>1, <1>2, <3>1, <3>2, <3>3
  <2>. QED
    BY <2>1, <2>2
<1>7. \A b \in 1 .. blocks : EndOf(b) <= EndIn(b, blocks', used') /\ b \in 1 .. blocks'
  <2>1. CASE fits
    <3>1. Aligned(used) <= Aligned(used')
      BY <1>1, <1>2, <1>3, <1>5, <2>1
    <3>. QED
      BY <1>2, <1>3, <2>1, <3>1 DEF EndOf, EndIn
  <2>2. CASE ~ fits
    BY <1>2, <1>3, <2>2 DEF EndOf, EndIn
  <2>. QED
    BY <2>1, <2>2
<1> HIDE DEF a
<1>8. /\ o.at = a /\ o.bytes = bytes /\ MemorylistsIndex(o.bytes) = k
      /\ o \in [at : Nat \X Nat, bytes : Sizes]
  BY <1>6 DEF k
<1> HIDE DEF o
<1>9. \A c \in Class : Cut(c)' = Cut(c) \cup (IF c = k THEN {a} ELSE {})
  BY <1>3, <1>8 DEF Cut
<1>10. ASSUME NEW c \in Class, NEW e \in Cut(c), e[1] = a[1] PROVE e[2] + Room(c) <= a[2]
  <2>1. e[1] \in 1 .. blocks /\ e[2] + Room(c) <= EndOf(e[1])
    BY DEF CutsFit
  <2>2. a[1] = blocks
    BY <1>2, <1>4, <1>6, <1>10, <2>1
  <2>. QED
    BY <1>6, <1>10, <2>1, <2>2 DEF EndOf, EndIn
<1>11. \A c \in Class : Cut(c) \subseteq Nat \X Nat
  <2>1. ASSUME NEW c \in Class PROVE ToSet(lists[c]) \subseteq Nat \X Nat
    BY DEF ToSet
  <2>. QED
    BY <2>1 DEF Cut
<1>12. \A c \in Class : a \notin Cut(c)
  <2>1. ASSUME NEW c \in Class, a \in Cut(c) PROVE FALSE
    <3>1. a[2] + Room(c) <= a[2]
      BY <1>10, <2>1
    <3>2. a[2] \in Nat /\ Room(c) \in Nat /\ Room(c) > 0
      BY <1>6, RoomOfClass, PoolAssumption
    <3>. QED
      BY <3>1, <3>2
  <2>. QED
    BY <2>1
<1>13. CutsFit'
  <2>1. ASSUME NEW c \in Class, NEW e \in Cut(c)'
        PROVE  e[1] \in 1 .. blocks' /\ e[2] % Align = 0 /\ e[2] + Room(c) <= EndIn(e[1], blocks', used')
    <3>1. CASE e \in Cut(c)
      <4>1. e[1] \in 1 .. blocks /\ e[2] % Align = 0 /\ e[2] + Room(c) <= EndOf(e[1]) /\ e[2] \in Nat
        BY <1>11, <3>1 DEF CutsFit
      <4>2. EndOf(e[1]) <= EndIn(e[1], blocks', used') /\ e[1] \in 1 .. blocks'
        BY <1>7, <4>1
      <4>3. EndOf(e[1]) \in Nat /\ EndIn(e[1], blocks', used') \in Nat /\ Room(c) \in Nat
        BY <1>2, <1>5, RoomOfClass DEF EndOf, EndIn
      <4>. QED
        BY <4>1, <4>2, <4>3
    <3>2. CASE e = a /\ c = k
      BY <1>6, <3>2
    <3>. QED
      BY <1>9, <3>1, <3>2
  <2>. QED
    BY <2>1 DEF CutsFit, EndOf
<1>14. CutsApart'
  <2>1. ASSUME NEW c \in Class, NEW d \in Class, NEW e \in Cut(c)', NEW g \in Cut(d)', e[1] = g[1]
        PROVE  (e = g /\ c = d) \/ e[2] + Room(c) <= g[2] \/ g[2] + Room(d) <= e[2]
    <3>1. CASE e \in Cut(c) /\ g \in Cut(d)
      BY <2>1, <3>1 DEF CutsApart
    <3>2. CASE e \in Cut(c) /\ g = a
      BY <1>10, <2>1, <3>2
    <3>3. CASE e = a /\ g \in Cut(d)
      BY <1>10, <2>1, <3>3
    <3>4. CASE e = a /\ c = k /\ g = a /\ d = k
      BY <3>4
    <3>. QED
      BY <1>9, <3>1, <3>2, <3>3, <3>4
  <2>. QED
    BY <2>1 DEF CutsApart
<1>15. OneHolder'
  <2>1. \A p \in live : p.at # a
    BY <1>12, IndexIsClass DEF Cut
  <2>2. \A c \in Class : a \notin ToSet(lists[c])
    BY <1>12 DEF Cut
  <2>. QED
    BY <1>3, <1>8, <2>1, <2>2 DEF OneHolder
<1>16. PoolTyped'
  <2>1. FreeAddresses' = FreeAddresses
    BY DEF FreeAddresses
  <2>2. IsFiniteSet(FreeAddresses') /\ IsFiniteSet(live')
    BY <1>3, <2>1, FS_AddElement
  <2>. QED
    BY <1>3, <1>4, <1>8, <2>2
<1>. QED
  BY <1>13, <1>14, <1>15, <1>16

LEMMA MemoryNextKeeps == MemoryInv /\ [PoolNext]_poolvars => MemoryInv'
<1> SUFFICES ASSUME MemoryInv, [PoolNext]_poolvars PROVE MemoryInv'
  OBVIOUS
<1>1. ASSUME NEW bytes \in Sizes, Allocate(bytes) PROVE MemoryInv'
  BY <1>1, ReuseStep, CutStep DEF Allocate
<1>2. ASSUME NEW o \in live, Deallocate(o) PROVE MemoryInv'
  BY <1>2, DeallocateStep
<1>3. CASE UNCHANGED poolvars
  BY <1>3 DEF poolvars, MemoryInv, PoolTyped, CutsFit, CutsApart, OneHolder, Cut, EndOf, FreeAddresses
<1>. QED
  BY <1>1, <1>2, <1>3 DEF PoolNext

LEMMA MemoryIsDisjoint == ASSUME MemoryInv PROVE ObjectsAreDisjoint
<1> USE DEF MemoryInv, PoolTyped
<1> DEFINE held(o) == [at |-> o.at, end |-> o.at[2] + o.bytes]
           free(a) == [at |-> a, end |-> a[2] + Align]
           Held == {held(o) : o \in live}
           Free == {free(a) : a \in FreeAddresses}
<1>1. Taken = Held \cup Free
  BY DEF Taken
<1>2. \A a \in FreeAddresses : \E c \in Class : a \in ToSet(lists[c])
  BY DEF FreeAddresses
<1>3. \A o \in live : o.at \notin FreeAddresses
  BY <1>2 DEF OneHolder
<1>4. ASSUME NEW x \in Taken
      PROVE  \E c \in Class : x.at \in Cut(c) /\ x.end \in Nat /\ x.end <= x.at[2] + Room(c) /\ x.at[2] \in Nat
  <2>1. ASSUME NEW o \in live, x = held(o)
        PROVE  \E c \in Class : x.at \in Cut(c) /\ x.end \in Nat /\ x.end <= x.at[2] + Room(c) /\ x.at[2] \in Nat
    <3> DEFINE c == MemorylistsIndex(o.bytes)
    <3>1. /\ x.at = o.at /\ x.end = o.at[2] + o.bytes /\ o.at[2] \in Nat /\ o.bytes \in Nat /\ c \in Class
          /\ o.bytes <= Room(c) /\ Room(c) \in Nat
      BY <2>1, RoomOfClass
    <3>2. o.at \in Cut(c)
      BY DEF Cut
    <3>. QED
      BY <3>1, <3>2, SMTT(30)
  <2>2. ASSUME NEW a \in FreeAddresses, x = free(a)
        PROVE  \E c \in Class : x.at \in Cut(c) /\ x.end \in Nat /\ x.end <= x.at[2] + Room(c) /\ x.at[2] \in Nat
    <3>1. PICK c \in Class : a \in ToSet(lists[c])
      BY <1>2
    <3>2. a \in Nat \X Nat
      BY <3>1 DEF ToSet
    <3>3. x.at = a /\ x.end = a[2] + Align /\ Align <= Room(c) /\ Room(c) \in Nat /\ Align \in Nat
      BY <2>2, RoomOfClass, PoolAssumption
    <3>. QED
      BY <3>1, <3>2, <3>3 DEF Cut
  <2>. QED
    BY <1>1, <2>1, <2>2
<1>5. ASSUME NEW x \in Taken, NEW y \in Taken, x.at = y.at PROVE x = y
  BY <1>1, <1>3, <1>5 DEF OneHolder
<1>6. ASSUME NEW x \in Taken PROVE x.end <= BlockSize /\ x.at[2] % Align = 0
  <2>1. PICK c \in Class : x.at \in Cut(c) /\ x.end \in Nat /\ x.end <= x.at[2] + Room(c) /\ x.at[2] \in Nat
    BY <1>4
  <2>2. x.at[2] % Align = 0 /\ x.at[2] + Room(c) <= EndOf(x.at[1])
    BY <2>1 DEF CutsFit
  <2>3. EndOf(x.at[1]) <= BlockSize /\ EndOf(x.at[1]) \in Nat /\ BlockSize \in Nat /\ Room(c) \in Nat
    BY EndsOfBlocks, RoomOfClass
  <2>. QED
    BY <2>1, <2>2, <2>3
<1>7. ASSUME NEW x \in Taken, NEW y \in Taken, x # y, x.at[1] = y.at[1]
      PROVE  x.end <= y.at[2] \/ y.end <= x.at[2]
  <2>1. PICK c \in Class : x.at \in Cut(c) /\ x.end \in Nat /\ x.end <= x.at[2] + Room(c) /\ x.at[2] \in Nat
    BY <1>4
  <2>2. PICK d \in Class : y.at \in Cut(d) /\ y.end \in Nat /\ y.end <= y.at[2] + Room(d) /\ y.at[2] \in Nat
    BY <1>4
  <2>3. x.at[2] + Room(c) <= y.at[2] \/ y.at[2] + Room(d) <= x.at[2]
    BY <1>5, <1>7, <2>1, <2>2 DEF CutsApart
  <2>4. Room(c) \in Nat /\ Room(d) \in Nat
    BY RoomOfClass
  <2>. QED
    BY <2>1, <2>2, <2>3, <2>4, SMTT(30)
<1>8. IsFiniteSet(Held) /\ Cardinality(Held) = Cardinality(live)
  <2> DEFINE f == [o \in live |-> held(o)]
  <2>1. \A o, p \in live : held(o) = held(p) => o = p
    BY DEF OneHolder
  <2>2. f \in Bijection(live, Held)
    BY <2>1 DEF Bijection, Injection, Surjection, IsInjective
  <2>3. ExistsBijection(live, Held)
    BY <2>2 DEF ExistsBijection
  <2>. QED
    BY <2>3, FS_Bijection
<1>9. IsFiniteSet(Free) /\ Cardinality(Free) = Cardinality(FreeAddresses)
  <2> DEFINE f == [a \in FreeAddresses |-> free(a)]
  <2>1. f \in Bijection(FreeAddresses, Free)
    BY DEF Bijection, Injection, Surjection, IsInjective
  <2>2. ExistsBijection(FreeAddresses, Free)
    BY <2>1 DEF ExistsBijection
  <2>. QED
    BY <2>2, FS_Bijection
<1>10. Held \cap Free = {}
  BY <1>3
<1> HIDE DEF Held, Free
<1>11. Cardinality(Taken) = Cardinality(live) + Cardinality(FreeAddresses)
  <2>1. Cardinality(Taken) = Cardinality(Held) + Cardinality(Free) - Cardinality(Held \cap Free)
    BY <1>1, <1>8, <1>9, FS_Union
  <2>2. Cardinality(Held \cap Free) = 0 /\ Cardinality(Held) \in Nat /\ Cardinality(Free) \in Nat
    BY <1>8, <1>9, <1>10, FS_EmptySet, FS_CardinalityType
  <2>. QED
    BY <1>8, <1>9, <2>1, <2>2
<1>. QED
  BY <1>6, <1>7, <1>11 DEF ObjectsAreDisjoint

-----------------------------------------------------------------------------
(* Objects that the program holds do not overlap with each other nor with    *)
(* the links of free ones, lie in their block and are aligned, whatever is   *)
(* allocated and returned (MemoryPool::Allocate, Deallocate).                *)
THEOREM ObjectsStayApart == PoolSpec => []ObjectsAreDisjoint
<1>. QED
  BY MemoryInitial, MemoryNextKeeps, MemoryIsDisjoint, PTL DEF PoolSpec

-----------------------------------------------------------------------------
(***************************************************************************)
(* WebSocket: the end of a WebSocket is reported, for any frames of the    *)
(* client, cut into any reads.  CloseIsHeard is only kept because nothing  *)
(* is handled after the end: a turn that closes the channel is the last    *)
(* one of its read (OpenOrDone), and a closed channel reads no more.       *)
(***************************************************************************)
\* CloseIsHeard, of any state of the WebSocket.
Heard(q) ==
  /\ {"open", "closes", "sent_close", "recv_close", "done"} \subseteq DOMAIN q
  /\ q.open \in BOOLEAN /\ q.sent_close \in BOOLEAN /\ q.recv_close \in BOOLEAN
  /\ q.done \in BOOLEAN
  /\ q.closes \in IF q.open THEN {0} ELSE {1, 2}
  /\ q.closes = 2 => q.sent_close /\ q.recv_close
  /\ q.recv_close => ~ q.open
OpenOrDone(q) == q.done = TRUE \/ q.open = TRUE

\* What does not touch the ends of the channel.
Same(q, p) ==
  /\ DOMAIN p = DOMAIN q /\ p.done \in BOOLEAN
  /\ p.open = q.open /\ p.closes = q.closes /\ p.sent_close = q.sent_close /\ p.recv_close = q.recv_close

LEMMA SameIsHeard ==
  ASSUME NEW q, NEW p, Heard(q), Same(q, p)
  PROVE  Heard(p) /\ (p.done = q.done /\ OpenOrDone(q) => OpenOrDone(p)) /\ (q.open = TRUE => OpenOrDone(p))
BY DEF Heard, Same, OpenOrDone

LEMMA ForceCloseIsHeard ==
  ASSUME NEW q, Heard(q)
  PROVE  /\ Heard(ForceCloseSocket(q)) /\ ForceCloseSocket(q).done = q.done
         /\ ForceCloseSocket(q).open = FALSE
<1>1. CASE q.open = TRUE
  <2> DEFINE t == [q EXCEPT !.open = FALSE, !.closes = @ + 1]
  <2>1. ForceCloseSocket(q) = t
    BY <1>1 DEF ForceCloseSocket
  <2>2. /\ DOMAIN t = DOMAIN q /\ t.open = FALSE /\ t.closes = 1 /\ t.done = q.done
        /\ t.sent_close = q.sent_close /\ t.recv_close = q.recv_close
    BY <1>1 DEF Heard
  <2> HIDE DEF t
  <2>3. t.open \in BOOLEAN /\ t.sent_close \in BOOLEAN /\ t.recv_close \in BOOLEAN /\ t.done \in BOOLEAN
    BY <2>2 DEF Heard
  <2>4. t.closes \in IF t.open THEN {0} ELSE {1, 2}
    BY <2>2
  <2>5. Heard(t)
    BY <2>2, <2>3, <2>4 DEF Heard
  <2>. QED
    BY <2>1, <2>2, <2>5
<1>2. CASE q.open = FALSE
  <2>1. ForceCloseSocket(q) = q
    BY <1>2 DEF ForceCloseSocket
  <2>. QED
    BY <1>2, <2>1
<1>. QED
  BY <1>1, <1>2 DEF Heard

LEMMA CloseHeard ==
  ASSUME NEW q, Heard(q), q.open = TRUE
  PROVE  Heard(Close(q)) /\ Close(q).done = q.done
<1> DEFINE p == [q EXCEPT !.sent_close = TRUE, !.out = Append(@, "close")]
<1>1. Heard(p) /\ p.done = q.done /\ p.recv_close = FALSE
  BY DEF Heard
<1>2. Close(q) = p
  BY <1>1 DEF Close
<1>. QED
  BY <1>1, <1>2

\* The end of a frame: the one of a close frame ends the channel.
LEMMA CloseFrameIsHeard ==
  ASSUME NEW q, Heard(q), q.open = TRUE
  PROVE  Heard(CloseFrame(q)) /\ CloseFrame(q).done = q.done
<1> DEFINE p == [q EXCEPT !.recv_close = TRUE]
           r == [p EXCEPT !.closes = @ + 1]
           s == [p EXCEPT !.sent_close = TRUE, !.out = Append(@, "close")]
<1>1. /\ DOMAIN p = DOMAIN q /\ p.recv_close = TRUE /\ p.closes = 0 /\ p.open = TRUE
      /\ p.sent_close = q.sent_close /\ p.done = q.done
  BY DEF Heard
<1> HIDE DEF p
<1>2. CASE p.sent_close
  <2>1. CloseFrame(q) = [r EXCEPT !.open = FALSE, !.closes = @ + 1]
    <3>1. CloseFrame(q) = ForceCloseSocket(r)
      BY <1>2 DEF CloseFrame, p
    <3>2. r.open = TRUE
      BY <1>1 DEF Heard
    <3>. QED
      BY <3>1, <3>2 DEF ForceCloseSocket
  <2>2. r.closes = 1 /\ DOMAIN r = DOMAIN p /\ r.recv_close = TRUE /\ r.sent_close = TRUE /\ r.done = q.done
    BY <1>1, <1>2 DEF Heard
  <2> HIDE DEF r
  <2> DEFINE t == [r EXCEPT !.open = FALSE, !.closes = @ + 1]
  <2>3. /\ DOMAIN t = DOMAIN q /\ t.open = FALSE /\ t.closes = 2 /\ t.recv_close = TRUE
        /\ t.sent_close = TRUE /\ t.done = q.done
    BY <1>1, <2>2 DEF Heard
  <2> HIDE DEF t
  <2>4. Heard(t)
    BY <2>3 DEF Heard
  <2>. QED
    BY <2>1, <2>3, <2>4 DEF t
<1>3. CASE ~ p.sent_close
  <2>1. CloseFrame(q) = Close(p)
    BY <1>3 DEF CloseFrame, p
  <2>2. Close(p) = ForceCloseSocket(s)
    <3>1. s.recv_close = TRUE
      BY <1>1 DEF Heard
    <3>. QED
      BY <3>1 DEF Close
  <2>3. /\ s.open = TRUE /\ s.closes = 0 /\ DOMAIN s = DOMAIN p /\ s.recv_close = TRUE
        /\ s.sent_close = TRUE /\ s.done = q.done
    BY <1>1 DEF Heard
  <2> HIDE DEF s
  <2>4. ForceCloseSocket(s) = [s EXCEPT !.open = FALSE, !.closes = @ + 1]
    BY <2>3 DEF ForceCloseSocket
  <2> DEFINE t == [s EXCEPT !.open = FALSE, !.closes = @ + 1]
  <2>5. /\ DOMAIN t = DOMAIN q /\ t.open = FALSE /\ t.closes = 1 /\ t.recv_close = TRUE
        /\ t.sent_close = TRUE /\ t.done = q.done
    BY <1>1, <2>3 DEF Heard
  <2> HIDE DEF t
  <2>6. Heard(t)
    BY <2>5 DEF Heard
  <2>. QED
    BY <2>1, <2>2, <2>4, <2>5, <2>6 DEF t
<1>. QED
  BY <1>2, <1>3

LEMMA FragmentIsHeard ==
  ASSUME NEW q, Heard(q), q.open = TRUE
  PROVE  Heard(HandleFragment(q)) /\ HandleFragment(q).done = q.done
<1> DEFINE p == Unmask([q EXCEPT !.recv_end = Len(q.data)])
           op == frames[q.header].op
<1>1. Same(q, p) /\ p.done = q.done
  BY DEF Unmask, Same, Heard
<1> HIDE DEF p
<1>2. Heard(p) /\ p.open = TRUE
  BY <1>1, SameIsHeard DEF Same
<1>3. ASSUME NEW r, Heard(r) PROVE Heard(Message(r)) /\ Message(r).done = r.done
  <2>1. Same(r, Message(r)) /\ Message(r).done = r.done
    BY <1>3 DEF Message, FragmentFIN, Same, Heard
  <2>. QED
    BY <1>3, <2>1, SameIsHeard
<1>4. \A type : Same(p, [p EXCEPT !.type = type]) /\ [p EXCEPT !.type = type].done = p.done
  BY <1>2 DEF Same, Heard
<1>5. \A type : Heard([p EXCEPT !.type = type])
  BY <1>2, <1>4, SameIsHeard
<1>6. \A type : Heard(Message([p EXCEPT !.type = type])) /\ Message([p EXCEPT !.type = type]).done = p.done
  BY <1>3, <1>4, <1>5
<1>7. Heard(Message(p)) /\ Message(p).done = p.done
  BY <1>2, <1>3
<1>8. LET pong == FragmentFIN([p EXCEPT !.out = Append(@, "pong")])
      IN  Heard(pong) /\ pong.done = p.done
  <2> DEFINE pong == FragmentFIN([p EXCEPT !.out = Append(@, "pong")])
  <2>1. Same(p, pong) /\ pong.done = p.done
    BY <1>2 DEF FragmentFIN, Same, Heard
  <2>. QED
    BY <1>2, <2>1, SameIsHeard
<1>9. Heard(CloseFrame(p)) /\ CloseFrame(p).done = p.done
  BY <1>2, CloseFrameIsHeard
<1>10. Heard(ForceCloseSocket(p)) /\ ForceCloseSocket(p).done = p.done
  BY <1>2, ForceCloseIsHeard
<1>11. HandleFragment(q) = CASE op = 0 -> Message(p)
        [] op = 1 -> Message([p EXCEPT !.type = "Text"])
        [] op = 2 -> Message([p EXCEPT !.type = "Binary"])
        [] op = 8 -> CloseFrame(p)
        [] op = 9 -> FragmentFIN([p EXCEPT !.out = Append(@, "pong")])
        [] OTHER -> ForceCloseSocket(p)
  BY DEF HandleFragment, p
<1> HIDE DEF op
<1>12. \/ HandleFragment(q) = Message(p)
       \/ HandleFragment(q) = Message([p EXCEPT !.type = "Text"])
       \/ HandleFragment(q) = Message([p EXCEPT !.type = "Binary"])
       \/ HandleFragment(q) = CloseFrame(p)
       \/ HandleFragment(q) = FragmentFIN([p EXCEPT !.out = Append(@, "pong")])
       \/ HandleFragment(q) = ForceCloseSocket(p)
  <2>1. CASE op = 0
    BY <1>11, <2>1
  <2>2. CASE op = 1
    BY <1>11, <2>2
  <2>3. CASE op = 2
    BY <1>11, <2>3
  <2>4. CASE op = 8
    BY <1>11, <2>4
  <2>5. CASE op = 9
    BY <1>11, <2>5
  <2>6. CASE op \notin {0, 1, 2, 8, 9}
    BY <1>11, <2>6
  <2>. QED
    BY <2>1, <2>2, <2>3, <2>4, <2>5, <2>6
<1>. QED
  BY <1>1, <1>6, <1>7, <1>8, <1>9, <1>10, <1>12

-----------------------------------------------------------------------------
(* A turn of the loop of handleMessage, and a read.                          *)
LEMMA FieldIsHeard ==
  ASSUME NEW q, NEW next, Heard(q), q.open = TRUE, Same(q, next), next.done = q.done
  PROVE  Heard(Field(q, next)) /\ OpenOrDone(Field(q, next))
<1>1. Same(q, Field(q, next))
  BY DEF Field, Same, Heard
<1>. QED
  BY <1>1, SameIsHeard

LEMMA MiniHeaderIsHeard ==
  ASSUME NEW q, Heard(q), q.open = TRUE
  PROVE  Heard(MiniHeader(q)) /\ OpenOrDone(MiniHeader(q))
<1>1. CASE Unread(q) < 2
  <2>1. Same(q, MiniHeader(q))
    BY <1>1 DEF MiniHeader, Same, Heard
  <2>. QED
    BY <2>1, SameIsHeard
<1>2. CASE ~ (Unread(q) < 2) /\ ~ frames[NextUnit(q).of].masked
  <2> DEFINE p == ForceCloseSocket(q)
             t == [p EXCEPT !.done = TRUE]
  <2>1. MiniHeader(q) = t
    BY <1>2 DEF MiniHeader
  <2>2. Heard(p)
    BY ForceCloseIsHeard
  <2> HIDE DEF p
  <2>3. Same(p, t) /\ t.done = TRUE
    BY <2>2 DEF Same, Heard
  <2> HIDE DEF t
  <2>4. Heard(t) /\ OpenOrDone(t)
    BY <2>2, <2>3, SameIsHeard DEF OpenOrDone
  <2>. QED
    BY <2>1, <2>4
<1>3. CASE ~ (Unread(q) < 2) /\ frames[NextUnit(q).of].masked
  <2>1. Same(q, MiniHeader(q))
    BY <1>3 DEF MiniHeader, Same, Heard
  <2>. QED
    BY <2>1, SameIsHeard
<1>. QED
  BY <1>1, <1>2, <1>3

LEMMA PayloadIsHeard ==
  ASSUME NEW q, Heard(q), q.open = TRUE
  PROVE  Heard(Payload(q)) /\ OpenOrDone(Payload(q))
<1> DEFINE n == Min({Unread(q), q.needrecv})
           p == [q EXCEPT !.done = TRUE, !.needrecv = @ - n, !.taken = @ + n,
                     !.data = @ \o [k \in 1 .. n |-> Wired(Stream[q.taken + k])]]
           r == [p EXCEPT !.parse_state = "MiniHeader"]
<1>1. Payload(q) = IF p.needrecv = 0 THEN HandleFragment(r) ELSE p
  BY DEF Payload
<1>2. Same(q, p) /\ p.done = TRUE
  BY DEF Same, Heard
<1> HIDE DEF p
<1>3. Heard(p) /\ p.open = TRUE
  BY <1>2, SameIsHeard DEF Same
<1>4. Same(p, r) /\ r.done = TRUE
  BY <1>2, <1>3 DEF Same, Heard
<1> HIDE DEF r
<1>5. Heard(r) /\ r.open = TRUE
  BY <1>3, <1>4, SameIsHeard DEF Same
<1>6. Heard(HandleFragment(r)) /\ HandleFragment(r).done = TRUE
  BY <1>4, <1>5, FragmentIsHeard
<1>. QED
  BY <1>1, <1>2, <1>3, <1>6 DEF OpenOrDone

LEMMA TurnIsHeard ==
  ASSUME NEW q, Heard(q), OpenOrDone(q)
  PROVE  Heard(Turn(q)) /\ OpenOrDone(Turn(q))
<1>1. CASE q.done = TRUE
  <2>1. Turn(q) = q
    BY <1>1 DEF Turn
  <2>. QED
    BY <2>1
<1>2. CASE q.done = FALSE
  <2>1. q.open = TRUE
    BY <1>2 DEF OpenOrDone
  <2>2. Heard(MiniHeader(q)) /\ OpenOrDone(MiniHeader(q))
    BY <2>1, MiniHeaderIsHeard
  <2>3. Heard(Payload(q)) /\ OpenOrDone(Payload(q))
    BY <2>1, PayloadIsHeard
  <2>4. Heard(Length(q)) /\ OpenOrDone(Length(q))
    <3> DEFINE next == [q EXCEPT !.needrecv = frames[q.header].length, !.parse_state = "Mask"]
    <3>1. Same(q, next) /\ next.done = q.done
      BY DEF Same, Heard
    <3> HIDE DEF next
    <3>2. Heard(Field(q, next)) /\ OpenOrDone(Field(q, next))
      BY <2>1, <3>1, FieldIsHeard
    <3>. QED
      BY <3>2 DEF Length, next
  <2>5. Heard(Mask(q)) /\ OpenOrDone(Mask(q))
    <3> DEFINE next == [q EXCEPT !.mask = q.header, !.parse_state = "Payload"]
    <3>1. Same(q, next) /\ next.done = q.done
      BY DEF Same, Heard
    <3> HIDE DEF next
    <3>2. Heard(Field(q, next)) /\ OpenOrDone(Field(q, next))
      BY <2>1, <3>1, FieldIsHeard
    <3>. QED
      BY <3>2 DEF Mask, next
  <2>6. CASE q.parse_state = "MiniHeader"
    BY <1>2, <2>2, <2>6 DEF Turn
  <2>7. CASE q.parse_state \in {"Len16", "Len64"}
    BY <1>2, <2>4, <2>7 DEF Turn
  <2>8. CASE q.parse_state = "Mask"
    BY <1>2, <2>5, <2>8 DEF Turn
  <2>9. CASE q.parse_state \notin {"MiniHeader", "Len16", "Len64", "Mask"}
    BY <1>2, <2>3, <2>9 DEF Turn
  <2>. QED
    BY <2>6, <2>7, <2>8, <2>9
<1>. QED
  BY <1>1, <1>2 DEF Heard

LEMMA FramesAreHeard ==
  ASSUME NEW q, Heard(q), q.open = TRUE
  PROVE  Heard(HandleFrames(q))
<1> DEFINE p == [q EXCEPT !.done = FALSE]
           r == Turn(Turn(Turn(Turn(p))))
<1>1. Heard(p) /\ OpenOrDone(p)
  <2>1. Same(q, p) /\ p.open = TRUE
    BY DEF Same, Heard
  <2>. QED
    BY <2>1, SameIsHeard DEF OpenOrDone
<1> HIDE DEF p
<1>2. Heard(r) /\ OpenOrDone(r)
  <2>1. Heard(Turn(p)) /\ OpenOrDone(Turn(p))
    BY <1>1, TurnIsHeard
  <2>2. Heard(Turn(Turn(p))) /\ OpenOrDone(Turn(Turn(p)))
    BY <2>1, TurnIsHeard
  <2>3. Heard(Turn(Turn(Turn(p)))) /\ OpenOrDone(Turn(Turn(Turn(p))))
    BY <2>2, TurnIsHeard
  <2>. QED
    BY <2>3, TurnIsHeard
<1>3. HandleFrames(q) = [r EXCEPT !.done = FALSE]
  BY DEF HandleFrames, p
<1> HIDE DEF r
<1>4. Same(r, [r EXCEPT !.done = FALSE])
  BY <1>2 DEF Same, Heard
<1>. QED
  BY <1>2, <1>3, <1>4, SameIsHeard

-----------------------------------------------------------------------------
(* However the frames of a client are cut into reads and whichever side      *)
(* closes first, the end of the channel is reported to the handler, once, or *)
(* twice when both sides closed, and never while it is open (websocket.cc,   *)
(* Close, ForceClose and the close frame of handleMessage).                  *)
THEOREM CloseStaysHeard == WsSpec => []CloseIsHeard
<1>1. WsInit => Heard(ws)
  BY DEF WsInit, Heard
<1>2. Heard(ws) /\ [WsNext]_wsvars => Heard(ws)'
  <2> SUFFICES ASSUME Heard(ws), [WsNext]_wsvars PROVE Heard(ws')
    BY DEF Heard
  <2>1. CASE ReadFrames
    <3>1. PICK n : ws.open /\ ws' = HandleFrames([ws EXCEPT !.arrived = n])
      BY <2>1 DEF ReadFrames
    <3> DEFINE p == [ws EXCEPT !.arrived = n]
    <3>2. Same(ws, p) /\ p.open = TRUE
      BY <3>1 DEF Same, Heard
    <3> HIDE DEF p
    <3>3. Heard(HandleFrames(p))
      BY <3>2, SameIsHeard, FramesAreHeard
    <3>. QED
      BY <3>1, <3>3 DEF p
  <2>2. CASE ClientHangsUp
    BY <2>2, ForceCloseIsHeard DEF ClientHangsUp
  <2>3. CASE ServerCloses
    <3>1. ws.open = TRUE /\ ws' = Close(ws)
      BY <2>3 DEF ServerCloses, Heard
    <3>. QED
      BY <3>1, CloseHeard
  <2>4. CASE \E f \in Frames : ClientSends(f)
    BY <2>4 DEF ClientSends
  <2>5. CASE UNCHANGED wsvars
    BY <2>5 DEF wsvars
  <2>. QED
    BY <2>1, <2>2, <2>3, <2>4, <2>5 DEF WsNext
<1>3. Heard(ws) => CloseIsHeard
  BY DEF Heard, CloseIsHeard
<1>. QED
  BY <1>1, <1>2, <1>3, PTL DEF WsSpec

-----------------------------------------------------------------------------
(***************************************************************************)
(* JsonValue: whatever calls a program mixes, the value holds the elements *)
(* of the list or of the record that the calls describe (json_value.cc).   *)
(* The map of an array holds just the places of the list that are no       *)
(* holes, and the list does not end with a hole; only then is the largest  *)
(* index the size.  resize() alone may leave a hole at the end, and then   *)
(* it throws.                                                              *)
(***************************************************************************)

\* The map of an array holds the places of the list that are no holes.
ArrayIs(m, l) ==
  /\ l \in Seq(Elements \cup {"hole"}) /\ Len(l) <= MaxIndex + 1
  /\ DOMAIN m = {i \in 0 .. Len(l) - 1 : l[i + 1] # "hole"}
  /\ \A i \in DOMAIN m : m[i] = l[i + 1]
Whole(l) == l # <<>> => l[Len(l)] # "hole"
ValueIs(t, m) ==
  \/ t = "null" /\ DOMAIN m = {} /\ mirror = <<>> /\ threw # "resize"
  \/ t = "array" /\ ArrayIs(m, mirror) /\ (IF threw = "resize" THEN mirror # <<>> /\ ~ Whole(mirror) ELSE Whole(mirror))
  \/ t = "object" /\ DOMAIN m = DOMAIN mirror /\ (\A name \in DOMAIN m : m[name] = mirror[name])
ValueInv ==
  \E t, m :
    /\ container = [type |-> t, map |-> m] /\ ValueIs(t, m)
    /\ threw = "append" => t = "object"
    /\ threw = "removeMember" => t = "array"

(* A set of numbers that is bounded has a largest. *)
LEMMA LargestExists ==
  ASSUME NEW n \in Nat, NEW S \in SUBSET (0 .. n - 1), S # {}
  PROVE  \E k \in S : \A i \in S : k >= i
<1> DEFINE T == {k \in 0 .. n : \A i \in S : i <= k}
<1>1. n \in T /\ T \subseteq Nat
  OBVIOUS
<1> HIDE DEF T
<1>2. PICK k \in T : \A j \in T : ~ (<<j, k>> \in OpToRel(<, Nat))
  BY <1>1, WFMin, NatLessThanWellFounded
<1>3. k \in 0 .. n /\ \A i \in S : i <= k
  BY <1>2 DEF T
<1>4. ASSUME k \notin S PROVE FALSE
  <2>1. \A i \in S : i < k /\ i \in Nat
    BY <1>3, <1>4
  <2>2. k > 0 /\ k - 1 \in Nat /\ k \in Nat
    <3>1. PICK i \in S : i < k /\ i \in Nat
      BY <2>1
    <3>. QED
      BY <1>3, <3>1
  <2>3. k - 1 \in T
    BY <1>3, <2>1, <2>2 DEF T
  <2>4. <<k - 1, k>> \in OpToRel(<, Nat)
    BY <2>2 DEF OpToRel
  <2>. QED
    BY <1>2, <2>3, <2>4
<1>. QED
  BY <1>3, <1>4

(* The size of an array is that of a list that does not end with a hole. *)
LEMMA SizeIsLength ==
  ASSUME NEW m, NEW l, ArrayIs(m, l), Whole(l), NEW v, v = [type |-> "array", map |-> m]
  PROVE  Size(v) = Len(l)
<1>1. v.type = "array" /\ v.map = m /\ Len(l) \in Nat
  BY DEF ArrayIs
<1>2. CASE l = <<>>
  BY <1>1, <1>2 DEF ArrayIs, Size
<1>3. CASE l # <<>>
  <2>1. Len(l) \in Nat \ {0} /\ Len(l) - 1 \in DOMAIN m
    BY <1>1, <1>3 DEF ArrayIs, Whole
  <2>2. \A i \in DOMAIN m : i \in Int /\ Len(l) - 1 >= i
    BY <1>1 DEF ArrayIs
  <2>3. Max(DOMAIN m) = Len(l) - 1
    BY <2>1, <2>2 DEF Max
  <2>. QED
    BY <1>1, <2>1, <2>3 DEF Size
<1>. QED
  BY <1>2, <1>3

(* A place of an array is set, behind its end too: the list grows by holes. *)
LEMMA PlaceIsSet ==
  ASSUME NEW m, NEW l, ArrayIs(m, l), Whole(l), NEW index \in 0 .. MaxIndex, NEW e \in Elements
  PROVE  LET p == [Padded(l, index + 1) EXCEPT ![index + 1] = e]
         IN  ArrayIs(With(m, index, e), p) /\ Whole(p)
<1> DEFINE q == Padded(l, index + 1)
           p == [q EXCEPT ![index + 1] = e]
           E == Elements \cup {"hole"}
<1>1. l \in Seq(E) /\ Len(l) \in Nat /\ index \in Nat /\ MaxIndex \in Nat /\ Len(l) <= MaxIndex + 1 /\ e # "hole"
  BY JsonValueAssumption DEF ArrayIs
<1>2. /\ q \in Seq(E) /\ Len(q) = IF Len(l) >= index + 1 THEN Len(l) ELSE index + 1
      /\ \A i \in 1 .. Len(q) : q[i] = IF i <= Len(l) THEN l[i] ELSE "hole"
  <2>1. CASE Len(l) >= index + 1
    BY <1>1, <2>1 DEF Padded
  <2>2. CASE ~ (Len(l) >= index + 1)
    <3> DEFINE h == [i \in 1 .. index + 1 - Len(l) |-> "hole"]
    <3>1. h \in Seq(E) /\ Len(h) = index + 1 - Len(l)
      BY <1>1, <2>2
    <3>2. q = l \o h
      BY <2>2 DEF Padded
    <3> HIDE DEF h
    <3>3. /\ l \o h \in Seq(E) /\ Len(l \o h) = Len(l) + Len(h)
          /\ \A i \in 1 .. Len(l) + Len(h) : (l \o h)[i] = IF i <= Len(l) THEN l[i] ELSE h[i - Len(l)]
      BY <1>1, <3>1
    <3>4. \A i \in 1 .. Len(h) : h[i] = "hole"
      BY <3>1 DEF h
    <3> HIDE DEF q
    <3>5. q \in Seq(E) /\ Len(q) = index + 1
      <4>1. q \in Seq(E) /\ Len(q) = Len(l) + Len(h)
        BY <3>2, <3>3, Zenon
      <4>. QED
        BY <1>1, <3>1, <4>1
    <3>6. ASSUME NEW i \in 1 .. index + 1 PROVE q[i] = IF i <= Len(l) THEN l[i] ELSE "hole"
      <4>1. i \in 1 .. Len(l) + Len(h) /\ q[i] = IF i <= Len(l) THEN l[i] ELSE h[i - Len(l)]
        BY <1>1, <2>2, <3>1, <3>2, <3>3
      <4>2. ~ (i <= Len(l)) => i - Len(l) \in 1 .. Len(h)
        BY <1>1, <3>1, <4>1
      <4>. QED
        BY <3>4, <4>1, <4>2
    <3>. QED
      BY <2>2, <3>5, <3>6
  <2>. QED
    BY <2>1, <2>2
<1> HIDE DEF q
<1>3. index + 1 \in 1 .. Len(q)
  BY <1>1, <1>2
<1>4. /\ p \in Seq(E) /\ Len(p) = Len(q)
      /\ \A i \in 1 .. Len(q) : p[i] = IF i = index + 1 THEN e ELSE q[i]
  BY <1>1, <1>2, <1>3
<1> HIDE DEF p
<1> DEFINE w == With(m, index, e)
<1>5. DOMAIN w = DOMAIN m \cup {index} /\ \A i \in DOMAIN w : w[i] = IF i = index THEN e ELSE m[i]
  BY DEF With
<1> HIDE DEF w
<1>6. ASSUME NEW i \in 0 .. Len(p) - 1
      PROVE  (i \in DOMAIN w <=> p[i + 1] # "hole") /\ (i \in DOMAIN w => w[i] = p[i + 1])
  <2>1. i + 1 \in 1 .. Len(q) /\ (i = index <=> i + 1 = index + 1) /\ i \in Nat
    BY <1>1, <1>2, <1>4
  <2>2. CASE i = index
    BY <1>1, <1>4, <1>5, <2>1, <2>2
  <2>3. CASE i # index
    <3>1. p[i + 1] = IF i + 1 <= Len(l) THEN l[i + 1] ELSE "hole"
      BY <1>1, <1>2, <1>4, <2>1, <2>3
    <3>2. i \in DOMAIN m <=> i + 1 <= Len(l) /\ l[i + 1] # "hole"
      BY <1>1, <2>1 DEF ArrayIs
    <3>. QED
      BY <1>5, <2>3, <3>1, <3>2 DEF ArrayIs
  <2>. QED
    BY <2>2, <2>3
<1>7. DOMAIN w \subseteq 0 .. Len(p) - 1
  BY <1>1, <1>2, <1>4, <1>5 DEF ArrayIs
<1>8. Len(p) <= MaxIndex + 1 /\ Len(p) \in Nat \ {0}
  BY <1>1, <1>2, <1>4
<1>9. p[Len(p)] # "hole"
  <2>1. CASE Len(p) = index + 1
    BY <1>1, <1>3, <1>4, <2>1
  <2>2. CASE Len(p) # index + 1
    <3>1. Len(p) = Len(l) /\ Len(l) > index + 1 /\ p[Len(p)] = l[Len(l)]
      BY <1>1, <1>2, <1>4, <2>2
    <3>. QED
      BY <1>1, <3>1 DEF Whole
  <2>. QED
    BY <2>1, <2>2
<1>10. ArrayIs(w, p)
  BY <1>4, <1>6, <1>7, <1>8 DEF ArrayIs
<1>. QED
  BY <1>8, <1>9, <1>10 DEF p, q, w, Whole

(* An element is appended. *)
LEMMA ElementIsAppended ==
  ASSUME NEW m, NEW l, ArrayIs(m, l), Len(l) <= MaxIndex, NEW e \in Elements
  PROVE  ArrayIs(With(m, Len(l), e), Append(l, e)) /\ Whole(Append(l, e))
<1> DEFINE E == Elements \cup {"hole"}
           p == Append(l, e)
           n == Len(l)
           w == With(m, n, e)
<1>1. l \in Seq(E) /\ n \in Nat /\ MaxIndex \in Nat /\ e # "hole" /\ e \in E
  BY JsonValueAssumption DEF ArrayIs
<1>2. p \in Seq(E) /\ Len(p) = n + 1 /\ p[n + 1] = e /\ \A i \in 1 .. n : p[i] = l[i]
  BY <1>1
<1>3. DOMAIN w = DOMAIN m \cup {n} /\ \A i \in DOMAIN w : w[i] = IF i = n THEN e ELSE m[i]
  BY DEF With
<1> HIDE DEF p, w
<1>4. ASSUME NEW i \in 0 .. Len(p) - 1
      PROVE  (i \in DOMAIN w <=> p[i + 1] # "hole") /\ (i \in DOMAIN w => w[i] = p[i + 1])
  <2>1. i \in 0 .. n
    BY <1>1, <1>2
  <2>2. CASE i = n
    BY <1>1, <1>2, <1>3, <2>2
  <2>3. CASE i # n
    <3>1. i \in 0 .. n - 1 /\ p[i + 1] = l[i + 1]
      BY <1>1, <1>2, <2>1, <2>3
    <3>. QED
      BY <1>3, <2>3, <3>1 DEF ArrayIs
  <2>. QED
    BY <2>2, <2>3
<1>5. DOMAIN w \subseteq 0 .. Len(p) - 1
  BY <1>1, <1>2, <1>3 DEF ArrayIs
<1>6. p \in Seq(E) /\ Len(p) <= MaxIndex + 1
  BY <1>1, <1>2
<1>7. ArrayIs(w, p)
  BY <1>4, <1>5, <1>6 DEF ArrayIs
<1>8. p # <<>> /\ p[Len(p)] # "hole"
  BY <1>1, <1>2
<1>. QED
  BY <1>7, <1>8 DEF p, w, Whole

(* An array is cut behind its first newSize places. *)
LEMMA ArrayIsCut ==
  ASSUME NEW m, NEW l, ArrayIs(m, l), NEW newSize \in 0 .. Len(l)
  PROVE  LET p == SubSeq(l, 1, newSize)
         IN  ArrayIs(Without(m, newSize .. MaxIndex), p) /\ Len(p) = newSize
<1> DEFINE E == Elements \cup {"hole"}
           p == SubSeq(l, 1, newSize)
           w == Without(m, newSize .. MaxIndex)
<1>1. l \in Seq(E) /\ Len(l) \in Nat /\ MaxIndex \in Nat /\ newSize \in Nat /\ newSize <= Len(l) /\ Len(l) <= MaxIndex + 1
  BY JsonValueAssumption DEF ArrayIs
<1>2. p \in Seq(E) /\ Len(p) = newSize /\ \A i \in 1 .. newSize : p[i] = l[i]
  BY <1>1
<1>3. DOMAIN w = DOMAIN m \ (newSize .. MaxIndex) /\ \A i \in DOMAIN w : w[i] = m[i]
  BY DEF Without
<1> HIDE DEF p, w
<1>4. \A i \in 0 .. newSize - 1 : p[i + 1] = l[i + 1]
  BY <1>1, <1>2
<1>5. \A i : i \in DOMAIN w <=> i \in 0 .. newSize - 1 /\ l[i + 1] # "hole"
  BY <1>1, <1>3 DEF ArrayIs
<1>6. ArrayIs(w, p)
  BY <1>1, <1>2, <1>3, <1>4, <1>5 DEF ArrayIs
<1>. QED
  BY <1>2, <1>6 DEF p, w

(* The holes at the end of a list are left out. *)
LEMMA HolesAreTrimmed ==
  ASSUME NEW l \in Seq(Elements \cup {"hole"})
  PROVE  \E n \in 0 .. Len(l) :
           /\ Trimmed(l) = SubSeq(l, 1, n) /\ (n > 0 => l[n] # "hole")
           /\ \A i \in n + 1 .. Len(l) : l[i] = "hole"
<1> DEFINE T == {n \in 0 .. Len(l) : \A i \in n + 1 .. Len(l) : l[i] = "hole"}
           S == {0} \cup {i \in DOMAIN l : l[i] # "hole"}
<1>1. Len(l) \in T /\ T \subseteq Nat
  OBVIOUS
<1> HIDE DEF T
<1>2. PICK n \in T : \A k \in T : ~ (<<k, n>> \in OpToRel(<, Nat))
  BY <1>1, WFMin, NatLessThanWellFounded
<1>3. n \in 0 .. Len(l) /\ \A i \in n + 1 .. Len(l) : l[i] = "hole"
  BY <1>2 DEF T
<1>4. ASSUME n > 0 PROVE l[n] # "hole"
  <2> SUFFICES ASSUME l[n] = "hole" PROVE FALSE
    OBVIOUS
  <2>1. n - 1 \in 0 .. Len(l) /\ n - 1 \in Nat /\ n \in Nat
    BY <1>3, <1>4
  <2>2. ASSUME NEW i \in n - 1 + 1 .. Len(l) PROVE l[i] = "hole"
    <3>1. i = n \/ i \in n + 1 .. Len(l)
      BY <1>3, <2>1
    <3>. QED
      BY <1>3, <3>1
  <2>3. n - 1 \in T
    BY <2>1, <2>2 DEF T
  <2>4. <<n - 1, n>> \in OpToRel(<, Nat)
    BY <2>1 DEF OpToRel
  <2>. QED
    BY <1>2, <2>3, <2>4
<1>5. n \in S
  BY <1>3, <1>4
<1>6. ASSUME NEW i \in S PROVE n >= i /\ i \in Int
  <2>1. i = 0 \/ (i \in 1 .. Len(l) /\ l[i] # "hole")
    OBVIOUS
  <2>. QED
    BY <1>3, <2>1
<1>7. Max(S) = n
  BY <1>3, <1>5, <1>6 DEF Max
<1>. QED
  BY <1>3, <1>4, <1>7 DEF Trimmed

(* A place is removed: those behind it move, and their holes become nulls. *)
LEMMA PlaceIsRemoved ==
  ASSUME NEW m, NEW l, ArrayIs(m, l), Whole(l), NEW index \in DOMAIN m, NEW w,
         DOMAIN w = (DOMAIN m \cap 0 .. index - 1) \cup index .. Len(l) - 2,
         \A i \in DOMAIN w : w[i] = IF i < index THEN m[i] ELSE IF i + 1 \in DOMAIN m THEN m[i + 1] ELSE "null"
  PROVE  ArrayIs(w, Removed(l, index + 1)) /\ Whole(Removed(l, index + 1))
<1> DEFINE E == Elements \cup {"hole"}
           q == [k \in 1 .. Len(l) - 1 |-> IF k < index + 1 THEN l[k] ELSE IF l[k + 1] = "hole" THEN "null" ELSE l[k + 1]]
           p == Trimmed(q)
<1>1. /\ l \in Seq(E) /\ Len(l) \in Nat /\ MaxIndex \in Nat /\ Len(l) <= MaxIndex + 1
      /\ index \in Nat /\ index <= Len(l) - 1 /\ "null" \in E /\ "null" # "hole"
  BY JsonValueAssumption DEF ArrayIs
<1>2. /\ q \in Seq(E) /\ Len(q) = Len(l) - 1
      /\ \A k \in 1 .. Len(l) - 1 : q[k] = IF k < index + 1 THEN l[k] ELSE IF l[k + 1] = "hole" THEN "null" ELSE l[k + 1]
  <2>1. \A k \in 1 .. Len(l) - 1 : k \in 1 .. Len(l) /\ k + 1 \in 1 .. Len(l)
    BY <1>1
  <2>2. q \in [1 .. Len(l) - 1 -> E] /\ Len(l) - 1 \in Nat
    BY <1>1, <2>1
  <2>. QED
    BY <2>2
<1> HIDE DEF q
<1>3. ASSUME NEW i \in 0 .. Len(q) - 1
      PROVE  (i \in DOMAIN w <=> q[i + 1] # "hole") /\ (i \in DOMAIN w => w[i] = q[i + 1])
  <2>1. /\ i + 1 \in 1 .. Len(l) - 1 /\ i + 1 + 1 = i + 2 /\ (i + 1 < index + 1 <=> i < index) /\ i \in 0 .. Len(l) - 1
        /\ i + 1 \in 0 .. Len(l) - 1
    BY <1>1, <1>2
  <2>2. CASE i < index
    <3>1. q[i + 1] = l[i + 1] /\ i \in 0 .. index - 1 /\ i \notin index .. Len(l) - 2
      BY <1>1, <1>2, <2>1, <2>2
    <3>2. i \in DOMAIN m <=> l[i + 1] # "hole"
      BY <2>1 DEF ArrayIs
    <3>3. i \in DOMAIN w <=> i \in DOMAIN m
      BY <3>1
    <3>. QED
      BY <2>2, <3>1, <3>2, <3>3 DEF ArrayIs
  <2>3. CASE ~ (i < index)
    <3>1. q[i + 1] = (IF l[i + 2] = "hole" THEN "null" ELSE l[i + 2]) /\ i \in index .. Len(l) - 2
      BY <1>1, <1>2, <2>1, <2>3
    <3>2. (i + 1 \in DOMAIN m <=> l[i + 2] # "hole") /\ (i + 1 \in DOMAIN m => m[i + 1] = l[i + 2])
      BY <2>1 DEF ArrayIs
    <3>. QED
      BY <1>1, <2>3, <3>1, <3>2
  <2>. QED
    BY <2>2, <2>3
<1>4. DOMAIN w \subseteq 0 .. Len(q) - 1
  <2> SUFFICES ASSUME NEW i \in DOMAIN w PROVE i \in 0 .. Len(q) - 1
    OBVIOUS
  <2>1. i \in 0 .. index - 1 \/ i \in index .. Len(l) - 2
    OBVIOUS
  <2>. QED
    BY <1>1, <1>2, <2>1
<1>5. PICK n \in 0 .. Len(q) : p = SubSeq(q, 1, n) /\ (n > 0 => q[n] # "hole") /\ \A i \in n + 1 .. Len(q) : q[i] = "hole"
  BY <1>2, HolesAreTrimmed
<1>6. p \in Seq(E) /\ Len(p) = n /\ n \in Nat /\ \A i \in 1 .. n : p[i] = q[i]
  BY <1>2, <1>5
<1> HIDE DEF p
<1>7. ASSUME NEW i PROVE i \in DOMAIN w <=> i \in 0 .. n - 1 /\ p[i + 1] # "hole"
  <2>1. CASE i \in 0 .. n - 1
    <3>1. i \in 0 .. Len(q) - 1 /\ i + 1 \in 1 .. n
      BY <1>1, <1>2, <1>5, <2>1
    <3>. QED
      BY <1>3, <1>6, <2>1, <3>1
  <2>2. CASE i \in 0 .. Len(q) - 1 /\ i \notin 0 .. n - 1
    <3>1. i + 1 \in n + 1 .. Len(q)
      BY <1>1, <1>2, <1>5, <2>2
    <3>. QED
      BY <1>3, <1>5, <2>2, <3>1
  <2>3. CASE i \notin 0 .. Len(q) - 1
    <3>1. i \notin 0 .. n - 1
      BY <1>1, <1>2, <1>5, <2>3
    <3>. QED
      BY <1>4, <2>3, <3>1
  <2>. QED
    BY <2>1, <2>2, <2>3
<1>8. ASSUME NEW i \in DOMAIN w PROVE w[i] = p[i + 1]
  <2>1. i \in 0 .. n - 1
    BY <1>7
  <2>2. i + 1 \in 1 .. n
    BY <1>6, <2>1
  <2>. QED
    BY <1>3, <1>4, <1>6, <2>2
<1>9. Len(p) <= MaxIndex + 1
  BY <1>1, <1>2, <1>5, <1>6
<1>10. DOMAIN w = {i \in 0 .. Len(p) - 1 : p[i + 1] # "hole"}
  BY <1>6, <1>7
<1>11. ArrayIs(w, p)
  BY <1>6, <1>8, <1>9, <1>10 DEF ArrayIs
<1>12. Whole(p)
  BY <1>5, <1>6 DEF Whole
<1>13. p = Removed(l, index + 1)
  BY DEF p, q, Removed
<1>. QED
  BY <1>11, <1>12, <1>13

LEMMA NothingIsArray == ArrayIs(<<>>, <<>>) /\ Whole(<<>>)
<1>1. DOMAIN <<>> = {} /\ Len(<<>>) = 0 /\ <<>> \in Seq(Elements \cup {"hole"})
  OBVIOUS
<1>2. 0 .. Len(<<>>) - 1 = {} /\ Len(<<>>) <= MaxIndex + 1
  BY <1>1, JsonValueAssumption
<1>. QED
  BY <1>1, <1>2 DEF ArrayIs, Whole

(* What the container is after a call. *)
LEMMA BecomesArray ==
  ASSUME NEW m, NEW l, ArrayIs(m, l), Whole(l), container' = [type |-> "array", map |-> m], mirror' = l, threw' = "none"
  PROVE  ValueInv'
  BY DEF ValueInv, ValueIs

LEMMA BecomesObject ==
  ASSUME NEW m, DOMAIN m = DOMAIN mirror', \A name \in DOMAIN m : m[name] = mirror'[name],
         container' = [type |-> "object", map |-> m], threw' = "none"
  PROVE  ValueInv'
  BY DEF ValueInv, ValueIs

LEMMA CallFails ==
  ASSUME ValueInv, threw = "none", NEW call \in {"[]", "append", "removeMember", "resize"}, Fails(call),
         call = "append" => container.type = "object", call = "removeMember" => container.type = "array",
         call = "resize" => container.type = "object"
  PROVE  ValueInv'
<1>1. PICK t, m : container = [type |-> t, map |-> m] /\ ValueIs(t, m)
  BY DEF ValueInv
<1>2. container.type = t /\ container' = container /\ mirror' = mirror /\ threw' = call
  BY <1>1 DEF Fails
<1>3. ValueIs(t, m)'
  BY <1>1, <1>2 DEF ValueIs
<1>. QED
  BY <1>1, <1>2, <1>3 DEF ValueInv

(* A call for an array finds one, or makes one of a null value. *)
LEMMA IsArray ==
  ASSUME ValueInv, threw = "none", IsOrNull(container, "array")
  PROVE  \E m : /\ Container(container, "array") = [type |-> "array", map |-> m]
                /\ ArrayIs(m, List) /\ Whole(List) /\ Size(container) = Len(List)
<1>1. PICK t, m : container = [type |-> t, map |-> m] /\ ValueIs(t, m)
  BY DEF ValueInv
<1>2. container.type = t /\ container.map = m
  BY <1>1
<1>3. CASE t = "null"
  <2>1. Container(container, "array") = [type |-> "array", map |-> <<>>] /\ List = <<>>
    BY <1>2, <1>3 DEF Container, List
  <2>2. ArrayIs(<<>>, <<>>) /\ Whole(<<>>)
    BY NothingIsArray
  <2>3. DOMAIN m = {}
    BY <1>1, <1>3 DEF ValueIs
  <2>4. Size(container) = 0
    BY <1>2, <1>3, <2>3, FS_EmptySet DEF Size
  <2>. QED
    BY <2>1, <2>2, <2>4
<1>4. CASE t = "array"
  <2>1. Container(container, "array") = container /\ List = mirror
    BY <1>2, <1>4 DEF Container, List
  <2>2. ArrayIs(m, mirror) /\ Whole(mirror)
    BY <1>1, <1>4 DEF ValueIs
  <2>3. Size(container) = Len(mirror)
    BY <1>1, <1>4, <2>2, SizeIsLength
  <2>. QED
    BY <1>1, <1>4, <2>1, <2>2, <2>3
<1>. QED
  BY <1>2, <1>3, <1>4 DEF IsOrNull

(* A call for an object finds one, or makes one of a null value. *)
LEMMA IsObject ==
  ASSUME ValueInv, threw = "none", IsOrNull(container, "object")
  PROVE  \E m : /\ Container(container, "object") = [type |-> "object", map |-> m]
                /\ DOMAIN m = DOMAIN mirror /\ \A name \in DOMAIN m : m[name] = mirror[name]
<1>1. PICK t, m : container = [type |-> t, map |-> m] /\ ValueIs(t, m)
  BY DEF ValueInv
<1>2. container.type = t /\ container.map = m
  BY <1>1
<1>3. CASE t = "null"
  <2>1. Container(container, "object") = [type |-> "object", map |-> <<>>] /\ mirror = <<>>
    BY <1>1, <1>2, <1>3 DEF Container, ValueIs
  <2>. QED
    BY <2>1
<1>4. CASE t = "object"
  BY <1>1, <1>2, <1>4 DEF Container, ValueIs
<1>. QED
  BY <1>2, <1>3, <1>4 DEF IsOrNull

LEMMA NotAnArray ==
  ASSUME ValueInv, ~ IsOrNull(container, "array")
  PROVE  container.type = "object"
<1>1. PICK t, m : container = [type |-> t, map |-> m] /\ ValueIs(t, m)
  BY DEF ValueInv
<1>2. container.type = t
  BY <1>1
<1>. QED
  BY <1>1, <1>2 DEF IsOrNull, ValueIs

LEMMA StoreIs ==
  ASSUME NEW v, NEW t, NEW m, v = [type |-> t, map |-> m], NEW k, NEW e
  PROVE  /\ Store(v, k, e) = [type |-> t, map |-> With(m, k, e)]
         /\ Place(v, k) = [type |-> t, map |-> With(m, k, IF k \in DOMAIN m THEN m[k] ELSE "null")]
  BY DEF Store, Place, Get

(* operator[] of an index, with an element and without. *)
LEMMA SetIndexStep ==
  ASSUME ValueInv, NEW index \in 0 .. MaxIndex, NEW e \in Elements, SetIndex(index, e)
  PROVE  ValueInv'
<1>1. threw = "none"
  BY DEF SetIndex, ValueCall
<1>2. CASE ~ IsOrNull(container, "array")
  BY <1>1, <1>2, CallFails DEF SetIndex
<1>3. CASE IsOrNull(container, "array")
  <2>1. PICK m : /\ Container(container, "array") = [type |-> "array", map |-> m]
                 /\ ArrayIs(m, List) /\ Whole(List)
    BY <1>1, <1>3, IsArray
  <2>2. PICK p : p = [Padded(List, index + 1) EXCEPT ![index + 1] = e]
    OBVIOUS
  <2>3. ArrayIs(With(m, index, e), p) /\ Whole(p)
    BY <2>1, <2>2, PlaceIsSet
  <2>4. container' = Store(Container(container, "array"), index, e) /\ mirror' = p /\ threw' = "none"
    BY <1>3, <2>2 DEF SetIndex, Becomes
  <2>5. container' = [type |-> "array", map |-> With(m, index, e)]
    BY <2>1, <2>4, StoreIs
  <2>. QED
    BY <2>3, <2>4, <2>5, BecomesArray
<1>. QED
  BY <1>2, <1>3

LEMMA TouchedIsSet ==
  ASSUME NEW m, NEW l, ArrayIs(m, l), NEW index \in 0 .. MaxIndex
  PROVE  \E e \in Elements :
           /\ Place([type |-> "array", map |-> m], index) = [type |-> "array", map |-> With(m, index, e)]
           /\ Touched(Padded(l, index + 1), index + 1) = [Padded(l, index + 1) EXCEPT ![index + 1] = e]
<1> DEFINE v == [type |-> "array", map |-> m]
           e == Get(v, index)
           q == Padded(l, index + 1)
           E == Elements \cup {"hole"}
<1>1. /\ l \in Seq(E) /\ Len(l) \in Nat /\ index \in Nat /\ "null" \in Elements
  BY JsonValueAssumption DEF ArrayIs
<1>2. q[index + 1] = IF index + 1 <= Len(l) THEN l[index + 1] ELSE "hole"
  <2>1. CASE Len(l) >= index + 1
    BY <1>1, <2>1 DEF Padded
  <2>2. CASE ~ (Len(l) >= index + 1)
    <3>1. [i \in 1 .. index + 1 - Len(l) |-> "hole"] \in Seq(E) /\ Len([i \in 1 .. index + 1 - Len(l) |-> "hole"]) = index + 1 - Len(l)
      BY <1>1, <2>2
    <3>. QED
      BY <1>1, <2>2, <3>1 DEF Padded
  <2>. QED
    BY <2>1, <2>2
<1>3. index \in DOMAIN m <=> index + 1 <= Len(l) /\ l[index + 1] # "hole"
  BY <1>1 DEF ArrayIs
<1>4. e \in Elements /\ e = IF q[index + 1] = "hole" THEN "null" ELSE q[index + 1]
  <2>1. CASE index \in DOMAIN m
    <3>1. index + 1 \in 1 .. Len(l) /\ e = m[index] /\ m[index] = l[index + 1]
      BY <1>1, <1>3, <2>1 DEF ArrayIs, Get
    <3>. QED
      BY <1>1, <1>2, <1>3, <2>1, <3>1
  <2>2. CASE index \notin DOMAIN m
    BY <1>1, <1>2, <1>3, <2>2 DEF Get
  <2>. QED
    BY <2>1, <2>2
<1>5. Place(v, index) = [type |-> "array", map |-> With(m, index, e)]
  BY DEF Place
<1>6. Touched(q, index + 1) = [q EXCEPT ![index + 1] = e]
  BY <1>4 DEF Touched
<1>. QED
  BY <1>4, <1>5, <1>6

LEMMA AtIndexStep ==
  ASSUME ValueInv, NEW index \in 0 .. MaxIndex, AtIndex(index)
  PROVE  ValueInv'
<1>1. threw = "none"
  BY DEF AtIndex, ValueCall
<1>2. CASE ~ IsOrNull(container, "array")
  BY <1>1, <1>2, CallFails DEF AtIndex
<1>3. CASE IsOrNull(container, "array")
  <2>1. PICK m : /\ Container(container, "array") = [type |-> "array", map |-> m]
                 /\ ArrayIs(m, List) /\ Whole(List)
    BY <1>1, <1>3, IsArray
  <2>2. PICK l : l = List
    OBVIOUS
  <2>3. PICK e \in Elements :
           /\ Place([type |-> "array", map |-> m], index) = [type |-> "array", map |-> With(m, index, e)]
           /\ Touched(Padded(l, index + 1), index + 1) = [Padded(l, index + 1) EXCEPT ![index + 1] = e]
    BY <2>1, <2>2, TouchedIsSet
  <2>4. PICK p : p = [Padded(l, index + 1) EXCEPT ![index + 1] = e]
    OBVIOUS
  <2>5. ArrayIs(With(m, index, e), p) /\ Whole(p)
    BY <2>1, <2>2, <2>3, <2>4, PlaceIsSet
  <2>6. container' = Place(Container(container, "array"), index) /\ mirror' = p /\ threw' = "none"
    BY <1>3, <2>2, <2>3, <2>4 DEF AtIndex, Becomes
  <2>. QED
    BY <2>1, <2>3, <2>5, <2>6, BecomesArray
<1>. QED
  BY <1>2, <1>3

LEMMA AppendToStep ==
  ASSUME ValueInv, NEW e \in Elements, AppendTo(e)
  PROVE  ValueInv'
<1>1. threw = "none" /\ Size(container) <= MaxIndex
  BY DEF AppendTo, ValueCall
<1>2. CASE ~ IsOrNull(container, "array")
  BY <1>1, <1>2, CallFails, NotAnArray DEF AppendTo
<1>3. CASE IsOrNull(container, "array")
  <2>1. PICK m : /\ Container(container, "array") = [type |-> "array", map |-> m]
                 /\ ArrayIs(m, List) /\ Size(container) = Len(List)
    BY <1>1, <1>3, IsArray
  <2>2. ArrayIs(With(m, Len(List), e), Append(List, e)) /\ Whole(Append(List, e))
    BY <1>1, <2>1, ElementIsAppended
  <2>3. container' = Store(Container(container, "array"), Len(List), e) /\ mirror' = Append(List, e) /\ threw' = "none"
    BY <1>3, <2>1 DEF AppendTo, Becomes
  <2>4. container' = [type |-> "array", map |-> With(m, Len(List), e)]
    BY <2>1, <2>3, StoreIs
  <2>. QED
    BY <2>2, <2>3, <2>4, BecomesArray
<1>. QED
  BY <1>2, <1>3

(* resize(): an array is cut, and may then end with a hole; or it grows. *)
LEMMA ResizeStep ==
  ASSUME ValueInv, NEW newSize \in 0 .. MaxIndex, Resize(newSize)
  PROVE  ValueInv'
<1>1. threw = "none" /\ newSize \in Nat /\ MaxIndex \in Nat /\ newSize <= MaxIndex
  <2>1. threw = "none"
    BY DEF Resize, ValueCall
  <2>. QED
    BY <2>1, JsonValueAssumption
<1>2. CASE ~ IsOrNull(container, "array")
  <2>1. Fails("resize")
    BY <1>2 DEF Resize
  <2>. QED
    BY <1>1, <1>2, <2>1, CallFails, NotAnArray
<1>3. CASE IsOrNull(container, "array")
  <2>1. PICK m : /\ Container(container, "array") = [type |-> "array", map |-> m]
                 /\ ArrayIs(m, List) /\ Whole(List)
    BY <1>1, <1>3, IsArray
  <2>2. PICK v, l : v = [type |-> "array", map |-> m] /\ l = List
    OBVIOUS
  <2>3. Size(v) = Len(l) /\ ArrayIs(m, l) /\ Whole(l) /\ Len(l) \in Nat
    BY <2>1, <2>2, SizeIsLength DEF ArrayIs
  <2>4. CASE newSize > Len(l)
    <3>1. PICK k : k \in 0 .. MaxIndex /\ k = newSize - 1 /\ k + 1 = newSize
      BY <1>1, <2>3, <2>4
    <3>2. PICK e \in Elements :
             /\ Place([type |-> "array", map |-> m], k) = [type |-> "array", map |-> With(m, k, e)]
             /\ Touched(Padded(l, k + 1), k + 1) = [Padded(l, k + 1) EXCEPT ![k + 1] = e]
      <4>1. ArrayIs(m, l) /\ k \in 0 .. MaxIndex
        BY <2>3, <3>1
      <4>. QED
        BY <4>1, TouchedIsSet
    <3>3. PICK p : p = [Padded(l, k + 1) EXCEPT ![k + 1] = e]
      OBVIOUS
    <3>4. ArrayIs(With(m, k, e), p) /\ Whole(p)
      BY <2>3, <3>1, <3>2, <3>3, PlaceIsSet
    <3>5. Becomes(Place(v, k), Touched(Padded(l, newSize), newSize))
      <4>1. newSize > Size(v) /\ ~ (newSize <= Size(v)) /\ v = Container(container, "array")
        BY <1>1, <2>1, <2>2, <2>3, <2>4
      <4>2. newSize > Size(Container(container, "array")) /\ ~ (newSize <= Size(Container(container, "array")))
        BY <4>1
      <4>3. Becomes(Place(Container(container, "array"), newSize - 1), Touched(Padded(List, newSize), newSize))
        BY <1>3, <4>2 DEF Resize, LastPlace
      <4>. QED
        BY <2>2, <3>1, <4>1, <4>3
    <3>6. container' = Place(v, k) /\ mirror' = p /\ threw' = "none"
      BY <3>1, <3>2, <3>3, <3>5 DEF Becomes
    <3>. QED
      BY <2>2, <3>2, <3>4, <3>6, BecomesArray
  <2>5. CASE ~ (newSize > Len(l))
    <3> DEFINE w == Without(m, newSize .. MaxIndex)
               p == SubSeq(l, 1, newSize)
               s == [type |-> "array", map |-> w]
    <3>1. ArrayIs(w, p) /\ Len(p) = newSize
      BY <1>1, <2>3, <2>5, ArrayIsCut
    <3>2. [v EXCEPT !.map = Without(@, newSize .. MaxIndex)] = s
      BY <2>2
    <3>3. container' = s /\ mirror' = p /\ threw' = IF Size(s) = newSize THEN "none" ELSE "resize"
      <4>1. ~ (newSize > Size(v)) /\ newSize <= Size(v)
        BY <1>1, <2>3, <2>5
      <4>. QED
        BY <1>3, <2>1, <2>2, <3>2, <4>1 DEF Resize
    <3> HIDE DEF w, p
    <3>4. CASE Whole(p)
      <4>1. Size(s) = newSize
        BY <3>1, <3>4, SizeIsLength
      <4>. QED
        BY <3>1, <3>3, <3>4, <4>1, BecomesArray
    <3>5. CASE ~ Whole(p)
      <4>1. p # <<>> /\ p[Len(p)] = "hole" /\ newSize > 0
        BY <1>1, <3>1, <3>5 DEF Whole, ArrayIs
      <4>2. Size(s) # newSize
        <5>1. s.type = "array" /\ s.map = w
          OBVIOUS
        <5>2. newSize - 1 \notin DOMAIN w
          <6>1. newSize - 1 \in 0 .. Len(p) - 1 /\ newSize - 1 + 1 = Len(p)
            BY <1>1, <3>1, <4>1
          <6>. QED
            BY <3>1, <4>1, <6>1 DEF ArrayIs
        <5>3. CASE DOMAIN w = {}
          BY <4>1, <5>1, <5>3 DEF Size
        <5>4. CASE DOMAIN w # {}
          <6>1. Size(s) = Max(DOMAIN w) + 1
            BY <5>1, <5>4 DEF Size
          <6>2. Max(DOMAIN w) \in DOMAIN w
            <7>1. DOMAIN w \subseteq 0 .. Len(p) - 1 /\ Len(p) \in Nat
              BY <1>1, <3>1 DEF ArrayIs
            <7>2. \E k \in DOMAIN w : \A i \in DOMAIN w : k >= i
              BY <1>1, <3>1, <5>4, <7>1, LargestExists
            <7>. QED
              BY <7>2 DEF Max
          <6>3. Max(DOMAIN w) \in Int
            BY <3>1, <6>2 DEF ArrayIs
          <6>. QED
            BY <1>1, <5>2, <6>1, <6>2, <6>3
        <5>. QED
          BY <5>3, <5>4
      <4>3. threw' = "resize"
        BY <3>3, <4>2
      <4>. QED
        BY <3>1, <3>3, <3>5, <4>1, <4>3 DEF ValueInv, ValueIs
    <3>. QED
      BY <3>4, <3>5
  <2>. QED
    BY <2>4, <2>5
<1>. QED
  BY <1>2, <1>3

LEMMA RemoveIndexStep ==
  ASSUME ValueInv, NEW index \in 0 .. MaxIndex, RemoveIndex(index)
  PROVE  ValueInv'
<1>1. threw = "none"
  BY DEF RemoveIndex, ValueCall
<1>2. PICK t, m : container = [type |-> t, map |-> m] /\ ValueIs(t, m)
  BY DEF ValueInv
<1>3. container.type = t /\ container.map = m
  BY <1>2
<1>4. CASE t # "array" \/ index \notin DOMAIN m
  <2>1. UNCHANGED <<container, mirror, threw>>
    BY <1>3, <1>4 DEF RemoveIndex
  <2>. QED
    BY <2>1 DEF ValueInv, ValueIs
<1>5. CASE t = "array" /\ index \in DOMAIN m
  <2>1. ArrayIs(m, mirror) /\ Whole(mirror)
    BY <1>1, <1>2, <1>5 DEF ValueIs
  <2>2. Size(container) = Len(mirror)
    BY <1>2, <1>5, <2>1, SizeIsLength
  <2>3. PICK w : w = [i \in (DOMAIN m \cap 0 .. index - 1) \cup index .. Len(mirror) - 2 |->
                       IF i < index THEN m[i] ELSE Get(container, i + 1)]
    OBVIOUS
  <2>4. /\ DOMAIN w = (DOMAIN m \cap 0 .. index - 1) \cup index .. Len(mirror) - 2
        /\ \A i \in DOMAIN w : w[i] = IF i < index THEN m[i] ELSE IF i + 1 \in DOMAIN m THEN m[i + 1] ELSE "null"
    BY <1>3, <2>3 DEF Get
  <2>5. ArrayIs(w, Removed(mirror, index + 1)) /\ Whole(Removed(mirror, index + 1))
    BY <1>5, <2>1, <2>4, PlaceIsRemoved
  <2>6. Becomes([container EXCEPT !.map = w], Removed(mirror, index + 1))
    BY <1>3, <1>5, <2>2, <2>3 DEF RemoveIndex
  <2>7. container' = [type |-> "array", map |-> w] /\ mirror' = Removed(mirror, index + 1) /\ threw' = "none"
    BY <1>2, <1>5, <2>6 DEF Becomes
  <2>. QED
    BY <2>5, <2>7, BecomesArray
<1>. QED
  BY <1>4, <1>5

(* The calls for a name. *)
LEMMA SetMemberStep ==
  ASSUME ValueInv, NEW name \in Names, NEW e \in Elements, SetMember(name, e)
  PROVE  ValueInv'
<1>1. threw = "none"
  BY DEF SetMember, ValueCall
<1>2. CASE ~ IsOrNull(container, "object")
  BY <1>1, <1>2, CallFails DEF SetMember
<1>3. CASE IsOrNull(container, "object")
  <2>1. PICK m : /\ Container(container, "object") = [type |-> "object", map |-> m]
                 /\ DOMAIN m = DOMAIN mirror /\ \A n \in DOMAIN m : m[n] = mirror[n]
    BY <1>1, <1>3, IsObject
  <2>2. container' = Store(Container(container, "object"), name, e) /\ mirror' = With(mirror, name, e) /\ threw' = "none"
    BY <1>3 DEF SetMember, Becomes
  <2>3. container' = [type |-> "object", map |-> With(m, name, e)]
    BY <2>1, <2>2, StoreIs
  <2>4. DOMAIN With(m, name, e) = DOMAIN mirror' /\ \A n \in DOMAIN With(m, name, e) : With(m, name, e)[n] = mirror'[n]
    BY <2>1, <2>2 DEF With
  <2>. QED
    BY <2>2, <2>3, <2>4, BecomesObject
<1>. QED
  BY <1>2, <1>3

LEMMA AtMemberStep ==
  ASSUME ValueInv, NEW name \in Names, AtMember(name)
  PROVE  ValueInv'
<1>1. threw = "none"
  BY DEF AtMember, ValueCall
<1>2. CASE ~ IsOrNull(container, "object")
  BY <1>1, <1>2, CallFails DEF AtMember
<1>3. CASE IsOrNull(container, "object")
  <2>1. PICK m : /\ Container(container, "object") = [type |-> "object", map |-> m]
                 /\ DOMAIN m = DOMAIN mirror /\ \A n \in DOMAIN m : m[n] = mirror[n]
    BY <1>1, <1>3, IsObject
  <2>2. PICK e : e = IF name \in DOMAIN m THEN m[name] ELSE "null"
    OBVIOUS
  <2>3. /\ container' = Place(Container(container, "object"), name) /\ threw' = "none"
        /\ mirror' = IF name \in DOMAIN mirror THEN mirror ELSE With(mirror, name, "null")
    BY <1>3 DEF AtMember, Becomes
  <2>4. container' = [type |-> "object", map |-> With(m, name, e)]
    BY <2>1, <2>2, <2>3, StoreIs
  <2>5. DOMAIN With(m, name, e) = DOMAIN mirror' /\ \A n \in DOMAIN With(m, name, e) : With(m, name, e)[n] = mirror'[n]
    BY <2>1, <2>2, <2>3 DEF With
  <2>. QED
    BY <2>3, <2>4, <2>5, BecomesObject
<1>. QED
  BY <1>2, <1>3

LEMMA RemoveMemberStep ==
  ASSUME ValueInv, NEW name \in Names, NEW checked \in BOOLEAN, RemoveMember(name, checked)
  PROVE  ValueInv'
<1>1. threw = "none"
  BY DEF RemoveMember, ValueCall
<1>2. PICK t, m : container = [type |-> t, map |-> m] /\ ValueIs(t, m)
  BY DEF ValueInv
<1>3. container.type = t /\ container.map = m
  BY <1>2
<1>4. CASE t = "object"
  <2>1. /\ container' = [container EXCEPT !.map = Without(@, {name})] /\ mirror' = Without(mirror, {name}) /\ threw' = "none"
    BY <1>3, <1>4 DEF RemoveMember, Becomes
  <2>2. container' = [type |-> "object", map |-> Without(m, {name})]
    BY <1>2, <1>4, <2>1
  <2>3. DOMAIN m = DOMAIN mirror /\ \A n \in DOMAIN m : m[n] = mirror[n]
    BY <1>2, <1>4 DEF ValueIs
  <2>4. /\ DOMAIN Without(m, {name}) = DOMAIN mirror'
        /\ \A n \in DOMAIN Without(m, {name}) : Without(m, {name})[n] = mirror'[n]
    BY <2>1, <2>3 DEF Without
  <2>. QED
    BY <2>1, <2>2, <2>4, BecomesObject
<1>5. CASE t = "array" /\ ~ checked
  <2>1. Fails("removeMember")
    BY <1>3, <1>5 DEF RemoveMember
  <2>. QED
    BY <1>1, <1>3, <1>5, <2>1, CallFails
<1>6. CASE t # "object" /\ ~ (t = "array" /\ ~ checked)
  <2>1. UNCHANGED <<container, mirror, threw>>
    BY <1>3, <1>6 DEF RemoveMember
  <2>. QED
    BY <2>1 DEF ValueInv, ValueIs
<1>. QED
  BY <1>4, <1>5, <1>6

LEMMA ClearStep ==
  ASSUME ValueInv, Clear
  PROVE  ValueInv'
<1>1. PICK t, m : container = [type |-> t, map |-> m] /\ ValueIs(t, m)
  BY DEF ValueInv
<1>2. container' = [type |-> t, map |-> <<>>] /\ mirror' = <<>> /\ threw' = "none"
  BY <1>1 DEF Clear, Becomes
<1>3. ArrayIs(<<>>, <<>>) /\ Whole(<<>>) /\ DOMAIN <<>> = {}
  BY NothingIsArray
<1>4. ValueIs(t, <<>>)'
  BY <1>1, <1>2, <1>3 DEF ValueIs
<1>. QED
  BY <1>2, <1>4 DEF ValueInv

(* The theorem: a value of Json is what the calls of the program describe,   *)
(* for any elements, names and indices (Value::operator[], append, resize,   *)
(* removeIndex, removeMember, clear).                                        *)
THEOREM ValuesAreAsAsked == ValueSpec => []ValueIsWhatWasAsked
<1>1. ValueInit => ValueInv
  <2> SUFFICES ASSUME ValueInit PROVE ValueInv
    OBVIOUS
  <2>1. container = [type |-> "null", map |-> <<>>] /\ ValueIs("null", <<>>) /\ threw = "none"
    BY DEF ValueInit, ValueIs
  <2>. QED
    BY <2>1 DEF ValueInv
<1>2. ValueInv /\ [ValueNext]_valuevars => ValueInv'
  <2> SUFFICES ASSUME ValueInv, [ValueNext]_valuevars PROVE ValueInv'
    OBVIOUS
  <2>1. CASE UNCHANGED valuevars
    BY <2>1 DEF valuevars, ValueInv, ValueIs
  <2>2. CASE ValueNext
    BY <2>2, AtIndexStep, RemoveIndexStep, SetIndexStep, ResizeStep, AppendToStep, AtMemberStep, SetMemberStep,
       RemoveMemberStep, ClearStep DEF ValueNext
  <2>. QED
    BY <2>1, <2>2
<1>3. ValueInv => ValueIsWhatWasAsked
  <2> SUFFICES ASSUME ValueInv PROVE ValueIsWhatWasAsked
    OBVIOUS
  <2>1. PICK t, m : /\ container = [type |-> t, map |-> m] /\ ValueIs(t, m)
                    /\ threw = "append" => t = "object"
                    /\ threw = "removeMember" => t = "array"
    BY DEF ValueInv
  <2>2. container.type = t /\ container.map = m
    BY <2>1
  <2>3. ASSUME threw = "none", t = "array"
        PROVE  Size(container) = Len(mirror) /\ \A i \in DOMAIN mirror : Get(container, i - 1) = IF mirror[i] = "hole" THEN "null" ELSE mirror[i]
    <3>1. ArrayIs(m, mirror) /\ Whole(mirror)
      BY <2>1, <2>3 DEF ValueIs
    <3>2. Size(container) = Len(mirror)
      BY <2>1, <2>3, <3>1, SizeIsLength
    <3>3. ASSUME NEW i \in DOMAIN mirror PROVE Get(container, i - 1) = IF mirror[i] = "hole" THEN "null" ELSE mirror[i]
      <4>1. i - 1 \in 0 .. Len(mirror) - 1 /\ i - 1 + 1 = i
        BY <3>1 DEF ArrayIs
      <4>2. (i - 1 \in DOMAIN m <=> mirror[i] # "hole") /\ (i - 1 \in DOMAIN m => m[i - 1] = mirror[i])
        BY <3>1, <4>1 DEF ArrayIs
      <4>. QED
        BY <2>2, <4>2 DEF Get
    <3>. QED
      BY <3>2, <3>3
  <2>4. ASSUME threw = "none", t = "object"
        PROVE  DOMAIN container.map = DOMAIN mirror /\ \A name \in DOMAIN mirror : Get(container, name) = mirror[name]
    BY <2>1, <2>2, <2>4 DEF ValueIs, Get
  <2>5. threw = "resize" /\ t = "array" => Last(mirror) = "hole"
    BY <2>1 DEF ValueIs, Whole, Last
  <2>. QED
    BY <2>1, <2>2, <2>3, <2>4, <2>5 DEF ValueIsWhatWasAsked
<1>. QED
  BY <1>1, <1>2, <1>3, PTL DEF ValueSpec

-----------------------------------------------------------------------------
(***************************************************************************)
(* LogFormat: a line of the log is the pattern with its conversions        *)
(* replaced, for any pattern and any record (log_formatter.cc).  The       *)
(* invariant of the loop over the pattern: what the items found so far     *)
(* write, and the characters behind the last of them, are the pieces of    *)
(* the pattern up to here.                                                 *)
(***************************************************************************)
WordsOf(info) == Characters \cup {"CR", "LF", info.written, LevelName(info.log_level), info.thread_id,
                                info.log_module, info.log_tag, info.log_content}
Items == [type : Characters \cup {"s"}, str : Seq(Characters)]
KnownItems(infos) == \A j \in DOMAIN infos : infos[j].type \in KnownTypes
WrittenBy(infos, info) == FlattenSeq([j \in DOMAIN infos |-> FormatItem(infos[j], info)])
Pieces(m, info) == FlattenSeq([k \in 1 .. m |-> Replaced(k, info)])
ScanOf(f, n) == f = [i \in 0 .. n |-> IF i = 0 THEN [start |-> 1, infos |-> <<>>] ELSE ParseAt(f[i - 1], i)]
\* The scan s after the first i characters.
PiecesWritten(s, i, info) ==
  /\ \A k \in 1 .. i : Replaced(k, info) \in Seq(WordsOf(info))
  /\ Pieces(i, info) = WrittenBy(s.infos, info) \o SubSeq(log_pattern, s.start, i)
Scanned(s, i, info) ==
  /\ s.start \in Nat /\ s.start >= 1 /\ s.infos \in Seq(Items)
  /\ s.start > 1 => s.start - 2 \in Conversions
  /\ s.start <= i + 2
  /\ \A k \in s.start .. i : k \notin Conversions
  /\ KnownItems(s.infos) => PiecesWritten(s, i, info)

(* The loop of parseLogpattern ends. *)
LEMMA ScanExists ==
  ASSUME NEW n \in Nat
  PROVE  \E f : ScanOf(f, n)
<1> DEFINE T == {k \in Nat : \E f : ScanOf(f, k)}
<1>1. 0 \in T
  <2>1. PICK f : f = [i \in 0 .. 0 |-> [start |-> 1, infos |-> <<>>]]
    OBVIOUS
  <2>2. \A i \in 0 .. 0 : i = 0
    OBVIOUS
  <2>3. ScanOf(f, 0)
    BY <2>1, <2>2 DEF ScanOf
  <2>. QED
    BY <2>3
<1>2. ASSUME NEW k \in Nat, k \in T PROVE k + 1 \in T
  <2>1. PICK f : ScanOf(f, k)
    BY <1>2
  <2>2. PICK h : h = [i \in 0 .. k + 1 |-> IF i = k + 1 THEN ParseAt(f[k], k + 1) ELSE f[i]]
    OBVIOUS
  <2>3. ASSUME NEW i \in 0 .. k + 1
        PROVE  h[i] = IF i = 0 THEN [start |-> 1, infos |-> <<>>] ELSE ParseAt(h[i - 1], i)
    <3>1. CASE i = 0
      BY <2>1, <2>2, <3>1 DEF ScanOf
    <3>2. CASE i # 0 /\ i # k + 1
      <4>1. i \in 0 .. k /\ i - 1 \in 0 .. k /\ i - 1 \in 0 .. k + 1 /\ i - 1 # k + 1
        BY <3>2
      <4>2. h[i] = f[i] /\ h[i - 1] = f[i - 1]
        BY <4>1, <3>2, <2>2
      <4>3. f[i] = ParseAt(f[i - 1], i)
        BY <4>1, <3>2, <2>1 DEF ScanOf
      <4>. QED
        BY <4>2, <4>3, <3>2
    <3>3. CASE i = k + 1
      <4>1. i - 1 = k /\ i - 1 \in 0 .. k + 1 /\ i - 1 # k + 1 /\ i # 0
        BY <3>3
      <4>2. h[i - 1] = f[k] /\ h[i] = ParseAt(f[k], i)
        BY <4>1, <3>3, <2>2
      <4>. QED
        BY <4>1, <4>2
    <3>. QED
      BY <3>1, <3>2, <3>3
  <2>4. ScanOf(h, k + 1)
    BY <2>2, <2>3, Zenon DEF ScanOf
  <2>. QED
    BY <2>4
<1>3. n \in T
  <2> HIDE DEF T
  <2>1. Nat \subseteq T
    BY <1>1, <1>2, Counted
  <2>. QED
    BY <2>1
<1>. QED
  BY <1>3

LEMMA ItemsAreScanned ==
  ASSUME log_pattern \in Seq(Characters)
  PROVE  \E f : ScanOf(f, Len(log_pattern)) /\ ItemInfos = f[Len(log_pattern)].infos
<1> DEFINE Is(f) == f = [i \in 0 .. Len(log_pattern) |->
                          IF i = 0 THEN [start |-> 1, infos |-> <<>>] ELSE ParseAt(f[i - 1], i)]
<1>1. \E f : Is(f)
  BY ScanExists DEF ScanOf
<1>2. ItemInfos = (CHOOSE f : Is(f))[Len(log_pattern)].infos
  BY DEF ItemInfos
<1>3. Is(CHOOSE f : Is(f))
  <2> HIDE DEF Is
  <2>. QED
    BY <1>1
<1>. QED
  BY <1>2, <1>3 DEF ScanOf

LEMMA OneWord ==
  ASSUME NEW S, NEW x \in S
  PROVE  <<x>> \in Seq(S)
OBVIOUS

(* What an item writes. *)
LEMMA FormatTyped ==
  ASSUME NEW info, NEW y, y.type \in KnownTypes, y.str \in Seq(Characters)
  PROVE  FormatItem(y, info) \in Seq(WordsOf(info))
<1> DEFINE S == WordsOf(info)
<1>1. Characters \subseteq S /\ "CR" \in S /\ "LF" \in S /\ info.written \in S /\ LevelName(info.log_level) \in S
      /\ info.thread_id \in S /\ info.log_module \in S /\ info.log_tag \in S /\ info.log_content \in S
  BY DEF WordsOf
<1> HIDE DEF S
<1>2. y.str \in Seq(S)
  BY <1>1
<1>3. <<>> \in Seq(S) /\ <<"CR", "LF">> \in Seq(S)
  BY <1>1
<1>4. <<info.written>> \in Seq(S) /\ <<LevelName(info.log_level)>> \in Seq(S) /\ <<info.thread_id>> \in Seq(S)
      /\ <<info.log_module>> \in Seq(S) /\ <<info.log_tag>> \in Seq(S) /\ <<info.log_content>> \in Seq(S)
  BY <1>1, OneWord
<1>5. FormatItem(y, info) \in Seq(S)
  <2>1. CASE y.type = "s"
    BY <2>1, <1>2 DEF FormatItem
  <2>2. CASE y.type = "d"
    BY <2>2, <1>4 DEF FormatItem
  <2>3. CASE y.type = "n"
    BY <2>3, <1>3 DEF FormatItem
  <2>4. CASE y.type = "l"
    BY <2>4, <1>4 DEF FormatItem
  <2>5. CASE y.type = "T"
    BY <2>5, <1>4 DEF FormatItem
  <2>6. CASE y.type = "C"
    BY <2>6, <1>3 DEF FormatItem
  <2>7. CASE y.type = "m"
    BY <2>7, <1>4 DEF FormatItem
  <2>8. CASE y.type = "t"
    BY <2>8, <1>4 DEF FormatItem
  <2>9. CASE y.type = "c"
    BY <2>9, <1>4 DEF FormatItem
  <2>. QED
    BY <2>1, <2>2, <2>3, <2>4, <2>5, <2>6, <2>7, <2>8, <2>9 DEF KnownTypes
<1>. QED
  BY <1>5 DEF S

LEMMA WrittenTyped ==
  ASSUME NEW info, NEW infos \in Seq(Items), KnownItems(infos)
  PROVE  WrittenBy(infos, info) \in Seq(WordsOf(info))
<1> DEFINE n == Len(infos)
           S == WordsOf(info)
<1>1. n \in Nat /\ DOMAIN infos = 1 .. n
  OBVIOUS
<1>2. ASSUME NEW j \in 1 .. n PROVE FormatItem(infos[j], info) \in Seq(S)
  <2>1. infos[j].type \in KnownTypes /\ infos[j] \in Items
    BY DEF KnownItems
  <2>2. infos[j].str \in Seq(Characters)
    BY <2>1 DEF Items
  <2>. QED
    BY <2>1, <2>2, FormatTyped
<1> HIDE DEF n, S
<1>3. PICK tt : tt = [j \in 1 .. n |-> FormatItem(infos[j], info)]
  OBVIOUS
<1>4. tt \in [1 .. n -> Seq(S)]
  BY <1>2, <1>3
<1>5. PICK g \in [0 .. n -> Seq(S)] : Joins(tt, n, g)
  BY <1>1, <1>4, FlattenJoins
<1>6. FlattenSeq(tt) \in Seq(S)
  BY <1>1, <1>4, <1>5, FlattenBy
<1>. QED
  BY <1>1, <1>3, <1>6 DEF WrittenBy, S

(* One item, and one character, more. *)
LEMMA WrittenGrows ==
  ASSUME NEW info, NEW infos \in Seq(Items), NEW y \in Items, KnownItems(Append(infos, y))
  PROVE  /\ KnownItems(infos)
         /\ WrittenBy(infos, info) \in Seq(WordsOf(info))
         /\ WrittenBy(Append(infos, y), info) = WrittenBy(infos, info) \o FormatItem(y, info)
<1> DEFINE S == WordsOf(info)
           n == Len(infos)
           more == Append(infos, y)
<1>1. n \in Nat /\ n + 1 \in Nat /\ DOMAIN infos = 1 .. n /\ more \in Seq(Items) /\ DOMAIN more = 1 .. n + 1 /\ more[n + 1] = y
      /\ \A j \in 1 .. n : more[j] = infos[j] /\ j \in 1 .. n + 1
  OBVIOUS
<1>2. KnownItems(infos)
  BY <1>1 DEF KnownItems
<1>3. ASSUME NEW j \in 1 .. n + 1 PROVE FormatItem(more[j], info) \in Seq(S)
  <2>1. more[j].type \in KnownTypes /\ more[j] \in Items
    BY <1>1 DEF KnownItems
  <2>2. more[j].str \in Seq(Characters)
    BY <2>1 DEF Items
  <2>. QED
    BY <2>1, <2>2, FormatTyped
<1> HIDE DEF S, n, more
<1>4. PICK tt : tt = [j \in 1 .. n + 1 |-> FormatItem(more[j], info)]
  OBVIOUS
<1>5. tt \in [1 .. n + 1 -> Seq(S)]
  BY <1>3, <1>4
<1>6. PICK front : front = [k \in 1 .. n |-> tt[k]]
  OBVIOUS
<1>7. FlattenSeq(tt) = FlattenSeq(front) \o tt[n + 1]
  BY <1>1, <1>5, <1>6, FlattenLast
<1>8. front = [j \in 1 .. n |-> FormatItem(infos[j], info)]
  <2>1. \A k \in 1 .. n : tt[k] = FormatItem(infos[k], info)
    BY <1>1, <1>4
  <2>. QED
    BY <2>1, <1>6
<1>9. WrittenBy(infos, info) = FlattenSeq(front)
  BY <1>1, <1>8, Zenon DEF WrittenBy
<1>10. WrittenBy(more, info) = FlattenSeq(tt)
  BY <1>1, <1>4, Zenon DEF WrittenBy
<1>11. n + 1 \in 1 .. n + 1
  BY <1>1
<1>12. tt[n + 1] = FormatItem(y, info)
  BY <1>1, <1>4, <1>11
<1>13. WrittenBy(infos, info) \in Seq(WordsOf(info))
  BY <1>2, WrittenTyped
<1>. QED
  BY <1>2, <1>7, <1>9, <1>10, <1>12, <1>13 DEF more

LEMMA PiecesGrow ==
  ASSUME NEW info, NEW i \in Nat, i >= 1, \A k \in 1 .. i : Replaced(k, info) \in Seq(WordsOf(info))
  PROVE  Pieces(i, info) = Pieces(i - 1, info) \o Replaced(i, info)
<1> DEFINE S == WordsOf(info)
<1>1. PICK n \in Nat : i = n + 1
  <2>1. i - 1 \in Nat /\ i = (i - 1) + 1
    OBVIOUS
  <2>. QED
    BY <2>1
<1>2. i - 1 = n /\ i \in 1 .. i /\ \A k \in 1 .. n : k \in 1 .. i
  BY <1>1
<1>3. PICK tt : tt = [k \in 1 .. i |-> Replaced(k, info)]
  OBVIOUS
<1> HIDE DEF S
<1>4. tt \in [1 .. n + 1 -> Seq(S)]
  BY <1>1, <1>3 DEF S
<1>5. PICK front : front = [k \in 1 .. n |-> tt[k]]
  OBVIOUS
<1>6. FlattenSeq(tt) = FlattenSeq(front) \o tt[n + 1]
  BY <1>4, <1>5, FlattenLast
<1>7. front = [k \in 1 .. n |-> Replaced(k, info)]
  <2>1. \A k \in 1 .. n : tt[k] = Replaced(k, info)
    BY <1>2, <1>3
  <2>. QED
    BY <2>1, <1>5
<1>8. tt[n + 1] = Replaced(i, info)
  BY <1>1, <1>2, <1>3
<1>9. Pieces(i, info) = FlattenSeq(tt)
  BY <1>3 DEF Pieces
<1>10. Pieces(i - 1, info) = FlattenSeq(front)
  BY <1>2, <1>7 DEF Pieces
<1>. QED
  BY <1>6, <1>8, <1>9, <1>10

(* One character of the pattern.  Here the pattern ends with a conversion.   *)
LEMMA TwoMore ==
  ASSUME NEW s \in Seq(Items), NEW x \in Items, NEW y \in Items
  PROVE  s \o <<x>> \o <<y>> = Append(Append(s, x), y) /\ Append(s, x) \in Seq(Items) /\ Append(Append(s, x), y) \in Seq(Items)
OBVIOUS

LEMMA SliceGrows ==
  ASSUME NEW S, NEW p \in Seq(S), NEW m \in Nat, m >= 1, NEW i \in 1 .. Len(p)
  PROVE  /\ SubSeq(p, m, i - 1) \in Seq(S)
         /\ m <= i => SubSeq(p, m, i) = SubSeq(p, m, i - 1) \o <<p[i]>>
         /\ m > i => SubSeq(p, m, i) = <<>> /\ SubSeq(p, m, i - 1) = <<>>
<1>1. SubSeq(p, m, i - 1) \in Seq(S)
  OBVIOUS
<1>2. ASSUME m <= i PROVE SubSeq(p, m, i) = SubSeq(p, m, i - 1) \o <<p[i]>>
  <2>1. PICK a : a = SubSeq(p, m, i)
    OBVIOUS
  <2>2. PICK b : b = SubSeq(p, m, i - 1)
    OBVIOUS
  <2>3. a \in Seq(S) /\ Len(a) = i - m + 1 /\ \A k \in 1 .. i - m + 1 : a[k] = p[m + k - 1]
    BY <1>2, <2>1
  <2>4. b \in Seq(S) /\ Len(b) = i - m /\ \A k \in 1 .. i - m : b[k] = p[m + k - 1]
    BY <1>2, <2>2
  <2>5. p[i] \in S
    OBVIOUS
  <2>6. PICK c : c = b \o <<p[i]>>
    OBVIOUS
  <2>7. c \in Seq(S) /\ Len(c) = i - m + 1 /\ (\A k \in 1 .. i - m : c[k] = b[k]) /\ c[i - m + 1] = p[i]
    <3>1. PICK l : l = i - m
      OBVIOUS
    <3>2. l \in Nat /\ i - m + 1 = l + 1
      BY <1>2, <3>1
    <3>3. PICK y : y = p[i]
      OBVIOUS
    <3>4. b \in Seq(S) /\ Len(b) = l /\ y \in S /\ c = b \o <<y>>
      BY <2>4, <2>5, <2>6, <3>1, <3>3
    <3>5. c \in Seq(S) /\ Len(c) = l + 1 /\ (\A k \in 1 .. l : c[k] = b[k]) /\ c[l + 1] = y
      BY <3>2, <3>4
    <3>. QED
      BY <3>1, <3>2, <3>3, <3>5, Zenon
  <2>8. ASSUME NEW k \in 1 .. i - m + 1 PROVE a[k] = c[k]
    <3>1. CASE k = i - m + 1
      <4>1. m + k - 1 = i
        BY <3>1
      <4>. QED
        BY <4>1, <3>1, <2>3, <2>7
    <3>2. CASE k # i - m + 1
      <4>1. k \in 1 .. i - m
        BY <3>2
      <4>. QED
        BY <4>1, <2>3, <2>4, <2>7
    <3>. QED
      BY <3>1, <3>2
  <2>9. a = c
    BY <2>3, <2>7, <2>8, SeqEqual
  <2>. QED
    BY <2>1, <2>2, <2>6, <2>9
<1>3. ASSUME m > i PROVE SubSeq(p, m, i) = <<>> /\ SubSeq(p, m, i - 1) = <<>>
  BY <1>3
<1>. QED
  BY <1>1, <1>2, <1>3

LEMMA ScanStep ==
  ASSUME NEW info, log_pattern \in Seq(Characters), Len(log_pattern) - 1 \in Conversions,
         NEW i \in 1 .. Len(log_pattern), NEW s, Scanned(s, i - 1, info)
  PROVE  Scanned(ParseAt(s, i), i, info)
<1> DEFINE p == log_pattern
           n == Len(log_pattern)
           t == ParseAt(s, i)
<1>1. n \in Nat /\ i \in Nat /\ i >= 1 /\ i <= n /\ p[i] \in Characters /\ i - 1 \in Nat
  OBVIOUS
<1>2. s.start \in Nat /\ s.start >= 1 /\ s.infos \in Seq(Items) /\ s.start <= i + 1
      /\ (s.start > 1 => s.start - 2 \in Conversions) /\ \A k \in s.start .. i - 1 : k \notin Conversions
  BY DEF Scanned
<1>3. p[n] # "%" /\ n >= 2
  <2>1. n - 1 \in 1 .. n - 1 /\ (n - 1) + 1 = n
    BY <1>1 DEF Conversions
  <2>. QED
    BY <2>1 DEF Conversions
<1>4. \A k \in Nat : k \in Conversions <=> k >= 1 /\ k < n /\ p[k] = "%" /\ p[k + 1] # "%"
  BY <1>1 DEF Conversions
<1>5. CASE i \in Conversions /\ i >= s.start
  <2>1. i < n /\ p[i] = "%" /\ p[i + 1] # "%" /\ i + 1 \in 1 .. n /\ p[i + 1] \in Characters
    BY <1>1, <1>4, <1>5
  <2>2. PICK x : x = Item("s", Text(s, i))
    OBVIOUS
  <2>3. PICK y : y = Item(p[i + 1], <<>>)
    OBVIOUS
  <2>4. SubSeq(p, s.start, i - 1) \in Seq(Characters)
    BY <1>1, <1>2, SliceGrows
  <2>5. x \in Items /\ x.type = "s" /\ x.str = SubSeq(p, s.start, i - 1)
    BY <2>2, <2>4 DEF Item, Text, Items
  <2>6. y \in Items /\ y.type = p[i + 1]
    BY <2>1, <2>3 DEF Item, Items
  <2>7. t = [start |-> i + 2, infos |-> s.infos \o <<x>> \o <<y>>]
    <3>1. i >= s.start /\ ~ (i < s.start)
      BY <1>1, <1>2, <1>5
    <3>2. i < Len(log_pattern) /\ log_pattern[i] = "%" /\ log_pattern[i + 1] # "%"
      BY <2>1
    <3>. QED
      BY <3>1, <3>2, <2>2, <2>3, Zenon DEF ParseAt
  <2>8. PICK one : one = Append(s.infos, x)
    OBVIOUS
  <2>9. PICK two : two = Append(one, y)
    OBVIOUS
  <2>10. s.infos \o <<x>> \o <<y>> = two /\ one \in Seq(Items) /\ two \in Seq(Items)
    BY <1>2, <2>5, <2>6, <2>8, <2>9, TwoMore
  <2>11. t.start = i + 2 /\ t.infos = two
    <3>1. t = [start |-> i + 2, infos |-> two]
      BY <2>7, <2>10, Zenon
    <3>2. PICK u : u = t
      OBVIOUS
    <3>3. u.start = i + 2 /\ u.infos = two
      BY <3>1, <3>2
    <3>. QED
      BY <3>2, <3>3
  <2>12. \A k \in i + 2 .. i : k \notin Conversions
    BY <1>1
  <2>13. ASSUME KnownItems(two) PROVE PiecesWritten(t, i, info)
    <3>1. KnownItems(one) /\ WrittenBy(two, info) = WrittenBy(one, info) \o FormatItem(y, info)
          /\ WrittenBy(one, info) \in Seq(WordsOf(info))
      BY <2>6, <2>9, <2>10, <2>13, WrittenGrows
    <3>2. KnownItems(s.infos) /\ WrittenBy(one, info) = WrittenBy(s.infos, info) \o FormatItem(x, info)
          /\ WrittenBy(s.infos, info) \in Seq(WordsOf(info))
      BY <1>2, <2>5, <2>8, <3>1, WrittenGrows
    <3>3. PiecesWritten(s, i - 1, info)
      BY <3>2 DEF Scanned
    <3>4. FormatItem(x, info) = SubSeq(p, s.start, i - 1)
      BY <2>5 DEF FormatItem
    <3>5. Replaced(i, info) = FormatItem(y, info)
      BY <1>5, <2>3 DEF Replaced
    <3>6. y.type \in KnownTypes /\ y.str \in Seq(Characters)
      <4>1. two[Len(one) + 1] = y /\ Len(one) + 1 \in DOMAIN two
        BY <2>6, <2>9, <2>10
      <4>2. y.type \in KnownTypes
        BY <4>1, <2>13 DEF KnownItems
      <4>. QED
        BY <4>2, <2>6 DEF Items
    <3>7. FormatItem(y, info) \in Seq(WordsOf(info))
      BY <3>6, FormatTyped
    <3>8. ASSUME NEW k \in 1 .. i PROVE Replaced(k, info) \in Seq(WordsOf(info))
      <4>1. CASE k = i
        BY <4>1, <3>5, <3>7
      <4>2. CASE k # i
        <5>1. k \in 1 .. i - 1
          BY <1>1, <4>2
        <5>. QED
          BY <5>1, <3>3 DEF PiecesWritten
      <4>. QED
        BY <4>1, <4>2
    <3>9. Pieces(i, info) = Pieces(i - 1, info) \o Replaced(i, info)
      BY <1>1, <3>8, PiecesGrow
    <3>10. Pieces(i, info) = WrittenBy(two, info)
      BY <3>1, <3>2, <3>3, <3>4, <3>5, <3>9 DEF PiecesWritten
    <3>11. WrittenBy(two, info) \in Seq(WordsOf(info))
      BY <2>10, <2>13, WrittenTyped
    <3>12. SubSeq(p, i + 2, i) = <<>>
      BY <1>1
    <3>13. WrittenBy(two, info) = WrittenBy(two, info) \o SubSeq(p, i + 2, i)
      BY <3>11, <3>12
    <3>. QED
      BY <3>8, <3>10, <3>13, <2>11, Zenon DEF PiecesWritten
  <2>. QED
    BY <1>1, <1>5, <2>10, <2>11, <2>12, <2>13 DEF Scanned
<1>6. CASE ~ (i \in Conversions /\ i >= s.start)
  <2>1. t = s
    <3>1. CASE i < s.start
      BY <3>1 DEF ParseAt
    <3>2. CASE p[i] # "%"
      BY <3>2 DEF ParseAt
    <3>3. CASE ~ (i < s.start) /\ p[i] = "%"
      <4>1. i # n /\ i < n /\ i >= s.start
        BY <1>1, <1>2, <1>3, <3>3
      <4>2. log_pattern[i + 1] = "%"
        BY <1>1, <1>4, <1>6, <3>3, <4>1
      <4>. QED
        BY <4>1, <4>2, Zenon DEF ParseAt
    <3>. QED
      BY <3>1, <3>2, <3>3
  <2>2. \A k \in s.start .. i : k \notin Conversions
    <3>1. ASSUME NEW k \in s.start .. i PROVE k \notin Conversions
      <4>1. CASE k = i
        BY <1>2, <1>6, <4>1
      <4>2. CASE k # i
        <5>1. k \in s.start .. i - 1
          BY <1>1, <1>2, <4>2
        <5>. QED
          BY <5>1, <1>2
      <4>. QED
        BY <4>1, <4>2
    <3>. QED
      BY <3>1
  <2>3. ASSUME KnownItems(s.infos) PROVE PiecesWritten(s, i, info)
    <3>1. PiecesWritten(s, i - 1, info)
      BY <2>3 DEF Scanned
    <3>2. WrittenBy(s.infos, info) \in Seq(WordsOf(info))
      BY <1>2, <2>3, WrittenTyped
    <3>3. CASE i < s.start
      <4>1. i - 1 \in Conversions
        <5>1. s.start > 1 /\ s.start - 2 = i - 1
          BY <1>1, <1>2, <3>3
        <5>. QED
          BY <5>1, <1>2
      <4>2. p[i] # "%"
        <5>1. (i - 1) + 1 = i
          BY <1>1
        <5>. QED
          BY <4>1, <5>1, <1>1, <1>4
      <4>3. i \notin Conversions
        BY <4>2, <1>1, <1>4
      <4>4. Replaced(i, info) = <<>>
        BY <4>1, <4>3 DEF Replaced
      <4>5. ASSUME NEW k \in 1 .. i PROVE Replaced(k, info) \in Seq(WordsOf(info))
        <5>1. CASE k = i
          BY <5>1, <4>4
        <5>2. CASE k # i
          <6>1. k \in 1 .. i - 1
            BY <1>1, <5>2
          <6>. QED
            BY <6>1, <3>1 DEF PiecesWritten
        <5>. QED
          BY <5>1, <5>2
      <4>6. Pieces(i, info) = Pieces(i - 1, info) \o <<>>
        BY <1>1, <4>4, <4>5, PiecesGrow
      <4>7. SubSeq(p, s.start, i) = <<>> /\ SubSeq(p, s.start, i - 1) = <<>>
        BY <1>1, <1>2, <3>3, SliceGrows
      <4>8. Pieces(i - 1, info) = WrittenBy(s.infos, info) \o <<>>
        BY <3>1, <4>7 DEF PiecesWritten
      <4>9. Pieces(i, info) = WrittenBy(s.infos, info) \o <<>>
        BY <3>2, <4>6, <4>8
      <4>. QED
        BY <4>5, <4>7, <4>9, Zenon DEF PiecesWritten
    <3>4. CASE ~ (i < s.start)
      <4>1. i >= s.start /\ i \in s.start .. i /\ i \notin Conversions
        BY <1>1, <1>2, <2>2, <3>4
      <4>2. i - 1 \notin Conversions
        <5>1. CASE i - 1 >= s.start
          BY <5>1, <1>1, <1>2
        <5>2. CASE i - 1 < s.start
          <6>1. s.start = i
            BY <5>2, <4>1, <1>1, <1>2
          <6>2. CASE i = 1
            BY <6>2, <1>1, <1>4
          <6>3. CASE i # 1
            <7>1. i - 2 \in Nat /\ i - 2 \in Conversions /\ (i - 2) + 1 = i - 1
              BY <6>1, <6>3, <1>1, <1>2
            <7>2. p[i - 1] # "%"
              BY <7>1, <1>4
            <7>. QED
              BY <7>2, <1>1, <1>4
          <6>. QED
            BY <6>2, <6>3
        <5>. QED
          BY <5>1, <5>2, <1>1, <1>2
      <4>3. Replaced(i, info) = <<p[i]>>
        BY <4>1, <4>2 DEF Replaced
      <4>4. <<p[i]>> \in Seq(WordsOf(info))
        BY <1>1, OneWord DEF WordsOf
      <4>5. ASSUME NEW k \in 1 .. i PROVE Replaced(k, info) \in Seq(WordsOf(info))
        <5>1. CASE k = i
          BY <5>1, <4>3, <4>4
        <5>2. CASE k # i
          <6>1. k \in 1 .. i - 1
            BY <1>1, <5>2
          <6>. QED
            BY <6>1, <3>1 DEF PiecesWritten
        <5>. QED
          BY <5>1, <5>2
      <4>6. Pieces(i, info) = Pieces(i - 1, info) \o <<p[i]>>
        BY <1>1, <4>3, <4>5, PiecesGrow
      <4>7. PICK a : a = SubSeq(p, s.start, i - 1)
        OBVIOUS
      <4>8. SubSeq(p, s.start, i) = a \o <<p[i]>> /\ a \in Seq(WordsOf(info))
        <5>1. SubSeq(p, s.start, i) = a \o <<p[i]>> /\ a \in Seq(Characters)
          BY <1>1, <1>2, <4>1, <4>7, SliceGrows
        <5>2. Characters \subseteq WordsOf(info)
          BY DEF WordsOf
        <5>. QED
          BY <5>1, <5>2
      <4>9. Pieces(i - 1, info) = WrittenBy(s.infos, info) \o a
        BY <3>1, <4>7 DEF PiecesWritten
      <4>10. Associate(WrittenBy(s.infos, info), a, <<p[i]>>)
        BY <3>2, <4>4, <4>8, Associates
      <4>11. Pieces(i, info) = WrittenBy(s.infos, info) \o SubSeq(p, s.start, i)
        BY <4>6, <4>8, <4>9, <4>10 DEF Associate
      <4>. QED
        BY <4>5, <4>11, Zenon DEF PiecesWritten
    <3>. QED
      BY <3>3, <3>4
  <2>. QED
    BY <1>1, <1>2, <2>1, <2>2, <2>3 DEF Scanned
<1>. QED
  BY <1>5, <1>6

(* All of the pattern. *)
LEMMA ItemsWrite ==
  ASSUME NEW info, log_pattern \in Seq(Characters), Len(log_pattern) - 1 \in Conversions, KnownItems(ItemInfos)
  PROVE  WrittenBy(ItemInfos, info) = Pieces(Len(log_pattern), info)
<1> DEFINE n == Len(log_pattern)
<1>1. n \in Nat
  OBVIOUS
<1>2. PICK f : ScanOf(f, n) /\ ItemInfos = f[n].infos
  BY ItemsAreScanned
<1> DEFINE T == {i \in 0 .. n : Scanned(f[i], i, info)}
<1>3. 0 \in T
  <2>1. f[0] = [start |-> 1, infos |-> <<>>] /\ 0 \in 0 .. n
    BY <1>1, <1>2 DEF ScanOf
  <2>2. <<>> \in Seq(Items)
    OBVIOUS
  <2>3. Pieces(0, info) = <<>> /\ WrittenBy(<<>>, info) = <<>>
    <3>1. FlattenSeq([k \in 1 .. 0 |-> Replaced(k, info)]) = <<>>
      <4>1. [k \in 1 .. 0 |-> Replaced(k, info)] = <<>>
        OBVIOUS
      <4>. QED
        BY <4>1 DEF FlattenSeq
    <3>2. [j \in DOMAIN <<>> |-> FormatItem(<<>>[j], info)] = <<>>
      OBVIOUS
    <3>3. FlattenSeq(<<>>) = <<>>
      BY DEF FlattenSeq
    <3>. QED
      BY <3>1, <3>2, <3>3 DEF Pieces, WrittenBy
  <2>4. SubSeq(log_pattern, 1, 0) = <<>> /\ <<>> \o <<>> = <<>>
    OBVIOUS
  <2>5. PICK s : s = f[0]
    OBVIOUS
  <2>6. s.start = 1 /\ s.infos = <<>>
    BY <2>1, <2>5
  <2>7. \A k \in 1 .. 0 : FALSE
    OBVIOUS
  <2>8. PiecesWritten(s, 0, info)
    BY <2>3, <2>4, <2>6, <2>7, Zenon DEF PiecesWritten
  <2>9. Scanned(s, 0, info)
    <3>1. 1 \in Nat /\ 1 >= 1 /\ ~ (1 > 1) /\ 1 <= 0 + 2
      OBVIOUS
    <3>. QED
      BY <2>2, <2>6, <2>7, <2>8, <3>1, Zenon DEF Scanned
  <2>. QED
    BY <2>1, <2>5, <2>9
<1>4. ASSUME NEW k \in Nat, k < n, k \in T PROVE k + 1 \in T
  <2>1. PICK i \in 1 .. n : i = k + 1
    BY <1>1, <1>4
  <2>2. i - 1 = k /\ i \in 0 .. n /\ i # 0
    BY <2>1
  <2>3. f[i] = ParseAt(f[i - 1], i)
    BY <1>2, <2>2 DEF ScanOf
  <2>4. Scanned(f[i - 1], i - 1, info)
    BY <2>2, <1>4
  <2>5. Scanned(f[i], i, info)
    BY <2>3, <2>4, ScanStep
  <2>. QED
    BY <2>1, <2>2, <2>5
<1>5. n \in T
  <2> DEFINE U == {k \in Nat : k <= n => k \in T}
  <2> HIDE DEF T
  <2>1. 0 \in U
    BY <1>3
  <2>2. \A k \in Nat : k \in U => k + 1 \in U
    BY <1>1, <1>4
  <2> HIDE DEF U
  <2>3. Nat \subseteq U
    BY <2>1, <2>2, Counted
  <2> USE DEF U
  <2>. QED
    BY <1>1, <2>3
<1>6. PICK s : s = f[n]
  OBVIOUS
<1>7. Scanned(s, n, info)
  BY <1>5, <1>6
<1>8. s.infos = ItemInfos /\ s.infos \in Seq(Items)
  BY <1>2, <1>6, <1>7 DEF Scanned
<1>9. PiecesWritten(s, n, info)
  BY <1>7, <1>8 DEF Scanned
<1>10. s.start = n + 1
  <2>1. s.start \in Nat /\ s.start >= 1 /\ s.start <= n + 2 /\ (s.start > 1 => s.start - 2 \in Conversions)
        /\ \A k \in s.start .. n : k \notin Conversions
    BY <1>7 DEF Scanned
  <2>2. n - 1 \in 1 .. n - 1
    BY <1>1 DEF Conversions
  <2>3. s.start > n - 1
    BY <1>1, <2>1, <2>2
  <2>4. s.start # n + 2
    BY <1>1, <2>1, <2>2 DEF Conversions
  <2>5. s.start # n
    <3>1. SUFFICES ASSUME s.start = n PROVE FALSE
      OBVIOUS
    <3>2. n - 2 \in Conversions
      BY <2>1, <2>2, <3>1
    <3>3. (n - 2) + 1 = n - 1
      BY <1>1
    <3>4. log_pattern[n - 1] # "%"
      BY <3>2, <3>3 DEF Conversions
    <3>. QED
      BY <3>4 DEF Conversions
  <2>. QED
    BY <1>1, <2>1, <2>3, <2>4, <2>5
<1>11. SubSeq(log_pattern, s.start, n) = <<>>
  BY <1>1, <1>10
<1>12. WrittenBy(s.infos, info) \in Seq(WordsOf(info))
  BY <1>8, WrittenTyped
<1>. QED
  BY <1>8, <1>9, <1>11, <1>12 DEF PiecesWritten

(* A LogFormatter parses its pattern once. *)
FormatInv == log_pattern \in Seq(Characters) /\ formatter \in {"new", "ready", "aborted"} /\ LineAsPattern

LEMMA FormatInitial == FormatInit => FormatInv
<1>1. SUFFICES ASSUME FormatInit PROVE FormatInv
  OBVIOUS
<1>2. PICK n \in 0 .. PatternSize : log_pattern \in [1 .. n -> Characters]
  BY <1>1 DEF FormatInit
<1>3. log_pattern \in Seq(Characters)
  BY <1>2, FormatAssumption
<1>. QED
  BY <1>1, <1>3 DEF FormatInit, FormatInv, LineAsPattern

LEMMA ParseKeeps ==
  ASSUME FormatInv, ParseLogpattern
  PROVE  FormatInv'
<1>1. log_pattern' = log_pattern /\ log_pattern \in Seq(Characters) /\ formatter' \in {"ready", "aborted"}
  BY DEF FormatInv, ParseLogpattern
<1>2. LineAsPattern'
  <2>1. SUFFICES ASSUME formatter' = "ready", Len(log_pattern) - 1 \in Conversions, NEW info \in Infos
                 PROVE  (Format(info) = FlattenSeq([k \in DOMAIN log_pattern |-> Replaced(k, info)]))'
    BY <1>1 DEF LineAsPattern, Conversions
  <2>2. format_items' = ItemInfos /\ KnownItems(ItemInfos)
    BY <2>1 DEF ParseLogpattern, KnownItems
  <2>3. WrittenBy(ItemInfos, info) = Pieces(Len(log_pattern), info)
    BY <1>1, <2>1, <2>2, ItemsWrite
  <2>4. Format(info)' = WrittenBy(ItemInfos, info)
    BY <2>2 DEF Format, WrittenBy, FormatItem
  <2>5. \A k : Replaced(k, info)' = Replaced(k, info)
    BY <1>1, Zenon DEF Replaced, Conversions
  <2>6. DOMAIN log_pattern = 1 .. Len(log_pattern)
    BY <1>1
  <2>7. (FlattenSeq([k \in DOMAIN log_pattern |-> Replaced(k, info)]))' = Pieces(Len(log_pattern), info)
    BY <1>1, <2>5, <2>6 DEF Pieces
  <2>. QED
    BY <2>3, <2>4, <2>7
<1>. QED
  BY <1>1, <1>2 DEF FormatInv

(* Each line of the log is what the pattern of the configuration says: every *)
(* conversion is replaced by its part of the record, every other character is *)
(* kept, for patterns that end with a conversion (ParseLogpattern, Format).  *)
THEOREM LinesStayAsPattern == FormatSpec => []LineAsPattern
<1>1. ASSUME FormatInv, [FormatNext]_formatvars PROVE FormatInv'
  <2>1. CASE ParseLogpattern
    BY <1>1, <2>1, ParseKeeps
  <2>2. CASE UNCHANGED formatvars
    <3>1. log_pattern' = log_pattern /\ format_items' = format_items /\ formatter' = formatter
      BY <2>2 DEF formatvars
    <3>2. LineAsPattern' <=> LineAsPattern
      BY <3>1 DEF LineAsPattern, Format, FormatItem, Replaced, Conversions
    <3>. QED
      BY <1>1, <3>1, <3>2 DEF FormatInv
  <2>. QED
    BY <1>1, <2>1, <2>2 DEF FormatNext
<1>2. FormatInv => LineAsPattern
  BY DEF FormatInv
<1>. QED
  BY <1>1, <1>2, FormatInitial, PTL DEF FormatSpec
=============================================================================
