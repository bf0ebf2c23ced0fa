----------------------------- MODULE SendBuffer -----------------------------
(***************************************************************************)
(* What a connection still has to send: the packets of a ByteData over     *)
(* writes that take a part (bytedata.cc), the queue send_datas_ of the     *)
(* connection (tcpconnection.cc), and the input buffer into which reads    *)
(* are appended and out of which messages are taken (bytebuffer.cc).       *)
(* Bytes are numbered in the order in which they are handed over.          *)
(***************************************************************************)
EXTENDS Integers, Sequences, SequencesExt

CONSTANTS
  Shapes,         \* what Send is called with: sequences of [kind, size], which no caller leaves empty
  MaxBytes,       \* bound of the bytes sent, and of those received
  kCheapPrepend,  \* the room before the data of a ByteBuffer
  kInitialSize,   \* its room at the beginning
  ExtraSize       \* the buffer on the stack of Readv

ASSUME BufferAssumption ==
  /\ \A shape \in Shapes : shape \in Seq([kind : {"borrowed", "copy", "file"}, size : Nat]) /\ shape # <<>>
  /\ MaxBytes \in Nat /\ kCheapPrepend \in Nat /\ kInitialSize \in Nat /\ ExtraSize \in Nat

VARIABLES
  send_datas,  \* send_datas_: the ByteData that were not sent at once
  writable,    \* the event of the connection waits for room in the socket
  given,       \* how many bytes were handed to Send so far
  wrote,       \* history: the bytes that the socket took
  buf,         \* the input ByteBuffer
  received     \* how many bytes came in so far

outvars == <<send_datas, writable, given, wrote>>
bytevars == <<outvars, buf, received>>

Numbers(first, n) == [k \in 1 .. n |-> first + k - 1]

-----------------------------------------------------------------------------
(* ByteData: packets, the current one and how much of it was taken.  A       *)
(* borrowed packet points into memory of the caller of Send; a file is       *)
(* mapped and stays.                                                         *)
NewData(shape) ==
  LET before[i \in DOMAIN shape] == IF i = 1 THEN given ELSE before[i - 1] + shape[i - 1].size
  IN  [packets |-> [i \in DOMAIN shape |-> [kind |-> shape[i].kind, data |-> Numbers(before[i] + 1, shape[i].size)]],
       index |-> 1, offset |-> 0]
PacketSize(d, i) == Len(d.packets[i].data)
Remain(d) == ~ (d.index = Len(d.packets) /\ d.offset = PacketSize(d, d.index))
\* What Writev hands to the system.
Iovs(d) ==
  FlattenSeq([i \in DOMAIN d.packets |->
    IF i < d.index THEN <<>>
    ELSE IF i = d.index THEN SubSeq(d.packets[i].data, d.offset + 1, PacketSize(d, i)) ELSE d.packets[i].data])

\* Where a packet begins in the whole ByteData.
Before(d, i) == Len(FlattenSeq([k \in 1 .. i - 1 |-> d.packets[k].data]))
\* Fault: the offset of the packet that was current is kept.
ModifyIndexOnly(d, n) ==
  LET at == Before(d, d.index) + d.offset + n
      inside == {i \in d.index .. Len(d.packets) : at < Before(d, i + 1)}
  IN  IF inside = {} THEN [d EXCEPT !.index = Len(d.packets), !.offset = PacketSize(d, Len(d.packets))]
      ELSE [d EXCEPT !.index = CHOOSE i \in inside : \A j \in inside : i <= j]
\* modifyIndexAndOffset after n more bytes were taken: the first packet that
\* is not taken whole, or the end of the last one.
ModifyIndexAndOffset(d, n) ==
  LET at == Before(d, d.index) + d.offset + n
      inside == {i \in d.index .. Len(d.packets) : at < Before(d, i + 1)}
      i == CHOOSE x \in inside : \A y \in inside : x <= y
  IN  IF inside = {} THEN [d EXCEPT !.index = Len(d.packets), !.offset = PacketSize(d, Len(d.packets))]
      ELSE [d EXCEPT !.index = i, !.offset = at - Before(d, i)]

\* What is left of a borrowed packet becomes a packet of its own.
CopyDataIfNeed(d) ==
  LET p == d.packets[d.index]
      copied == [i \in DOMAIN d.packets |->
        IF i < d.index \/ d.packets[i].kind # "borrowed" THEN d.packets[i]
        ELSE [kind |-> "copy", data |-> IF i = d.index THEN SubSeq(p.data, d.offset + 1, Len(p.data)) ELSE d.packets[i].data]]
  IN  [d EXCEPT !.packets = copied, !.offset = IF p.kind = "borrowed" THEN 0 ELSE @]

-----------------------------------------------------------------------------
(* TcpConnection: Send in the thread of the loop, and handleWrite.           *)
NothingWaits == send_datas = <<>> /\ ~ writable
Took(d, n) == wrote' = wrote \o SubSeq(Iovs(d), 1, n)
Send(shape) ==
  LET d == NewData(shape)
  IN  /\ given + Len(Iovs(d)) <= MaxBytes
      /\ given' = given + Len(Iovs(d))
      /\ \E n \in IF NothingWaits /\ Remain(d) THEN 0 .. Len(Iovs(d)) ELSE {0} :
           LET rest == IF n = 0 THEN d ELSE ModifyIndexAndOffset(d, n)
           IN  /\ Took(d, n)
               /\ IF Remain(rest)
                  THEN send_datas' = Append(send_datas, CopyDataIfNeed(rest)) /\ writable' = TRUE
                  ELSE UNCHANGED <<send_datas, writable>>
      /\ UNCHANGED <<buf, received>>
HandleWrite ==
  /\ writable /\ send_datas # <<>>
  /\ LET d == Head(send_datas)
     IN  \E n \in 0 .. Len(Iovs(d)) :
           LET rest == IF n = 0 THEN d ELSE ModifyIndexAndOffset(d, n)
               queue == IF Remain(rest) THEN <<rest>> \o Tail(send_datas) ELSE Tail(send_datas)
           IN  Took(d, n) /\ send_datas' = queue /\ writable' = (queue # <<>>)
  /\ UNCHANGED <<given, buf, received>>

-----------------------------------------------------------------------------
(* ByteBuffer: the bytes from read to write are to be read; size is what the *)
(* buffer holds, at offsets from 0.                                          *)
NewBuffer == [read |-> kCheapPrepend, write |-> kCheapPrepend, size |-> kCheapPrepend + kInitialSize,
              mem |-> [i \in 0 .. kCheapPrepend + kInitialSize - 1 |-> 0]]
ReadableBytes(b) == b.write - b.read
WritableBytes(b) == b.size - b.write
Readable(b) == [k \in 1 .. ReadableBytes(b) |-> b.mem[b.read + k - 1]]
Moved(b, size) ==
  [read |-> kCheapPrepend, write |-> kCheapPrepend + ReadableBytes(b), size |-> size,
   mem |-> [i \in 0 .. size - 1 |->
     IF i \in kCheapPrepend .. kCheapPrepend + ReadableBytes(b) - 1 THEN b.mem[b.read + i - kCheapPrepend] ELSE 0]]
\* Fault: the room is reckoned without what was read already.
ExtendSpaceInPlace(b, len) == Moved(b, IF WritableBytes(b) + b.read < len THEN b.size + len ELSE b.size)
ExtendSpace(b, len) == Moved(b, IF WritableBytes(b) + b.read < len + kCheapPrepend THEN b.size + len ELSE b.size)
Put(b, bytes) ==
  [b EXCEPT !.write = @ + Len(bytes),
            !.mem = [i \in DOMAIN b.mem |-> IF i \in b.write .. b.write + Len(bytes) - 1 THEN bytes[i - b.write + 1] ELSE b.mem[i]]]
AppendBytes(b, bytes) == Put(IF WritableBytes(b) < Len(bytes) THEN ExtendSpace(b, Len(bytes)) ELSE b, bytes)

\* Readv: into the room that is left, and what does not fit is appended.
Readv(n) ==
  /\ received + n <= MaxBytes /\ n <= WritableBytes(buf) + ExtraSize
  /\ LET bytes == Numbers(received + 1, n)
         fits == IF n <= WritableBytes(buf) THEN n ELSE WritableBytes(buf)
     IN  buf' = AppendBytes(Put(buf, SubSeq(bytes, 1, fits)), SubSeq(bytes, fits + 1, n))
  /\ received' = received + n
  /\ UNCHANGED outvars
\* ReadBytes, and with it ReadSome, ReadToBuffer, ReadUtil and ReadAll.
ReadBytes(len) ==
  /\ ReadableBytes(buf) > 0
  /\ buf' = IF len < ReadableBytes(buf) THEN [buf EXCEPT !.read = @ + len]
                                        ELSE [buf EXCEPT !.read = kCheapPrepend, !.write = kCheapPrepend]
  /\ UNCHANGED <<outvars, received>>

BytesInit ==
  /\ send_datas = <<>> /\ writable = FALSE /\ given = 0 /\ wrote = <<>>
  /\ buf = NewBuffer /\ received = 0
BytesNext ==
  \/ HandleWrite \/ (\E shape \in Shapes : Send(shape))
  \/ \E n \in 1 .. MaxBytes : Readv(n) \/ ReadBytes(n)
BytesSpec == BytesInit /\ [][BytesNext]_bytevars

-----------------------------------------------------------------------------
(* The socket gets all bytes in the order in which they were handed over:    *)
(* what it took and what waits are what was given, over any partial writes;  *)
(* nothing that waits is still in memory of the caller; and the connection   *)
(* waits for room in the socket exactly while there is something to send.    *)
StreamIsKept ==
  /\ wrote \o FlattenSeq([k \in DOMAIN send_datas |-> Iovs(send_datas[k])]) = Numbers(1, given)
  /\ \A k \in DOMAIN send_datas : \A i \in send_datas[k].index .. Len(send_datas[k].packets) :
       send_datas[k].packets[i].kind # "borrowed"
  /\ writable <=> send_datas # <<>>

(* The input buffer holds the newest bytes that were received, in order and  *)
(* in its bounds, however it was moved or grew.                              *)
BufferIsFifo ==
  /\ kCheapPrepend <= buf.read /\ buf.read <= buf.write /\ buf.write <= buf.size
  /\ Readable(buf) = Numbers(received - ReadableBytes(buf) + 1, ReadableBytes(buf))
=============================================================================
