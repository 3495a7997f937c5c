-------------------------------- MODULE Codec --------------------------------
(***************************************************************************)
(* A byte stream between two TcpConnections: TinyPBCoder::encode into the  *)
(* sender's TcpBuffer, partial writes, arbitrary fragmentation, the        *)
(* receiver's handleRead with its TcpBuffer, and TinyPBCoder::decode.      *)
(*                                                                         *)
(* The bytes are scaled to 0..15 and an int32 to two of them, most         *)
(* significant first; the format and all checks are the code's.  A buffer  *)
(* is its readable bytes, its read index and its capacity: what lies       *)
(* outside of [m_read_index, m_write_index) is never read.                 *)
(***************************************************************************)
EXTENDS Integers, Sequences, SequencesExt, FiniteSetsExt, Crc

CONSTANTS Scripts,         \* the message sequences the sender may have to send
          Spoilt,          \* those during which one byte may be damaged on its way
          Flips,           \* bound: the bits that may change in it
          Garbage,         \* what may be on the wire before the first frame
          DefaultMsgId,    \* "default_msg_id"
          PrependSize,     \* kPrependSize
          InitialSize,     \* kDefaultBufferSize
          MaxBufferSize,   \* kMaxBufferSize
          MaxPacketSize,   \* kMaxPacketSize
          ExtraSize,       \* kBufferSize, the stack buffer of readFromFd
          MaxReadPerRound, \* kMaxReadPerRound
          WriteChunks,     \* bound: the sizes in which the kernel takes bytes,
          ReadChunks       \* and hands them over, if there are that many

Byte == 0..15
IntSize == 2
PB_START == 2
PB_END == 3
HEADER_SIZE == 1 + 6 * IntSize + 1

Message == [id: Seq(Byte), method: Seq(Byte), code: Byte, info: Seq(Byte), data: Seq(Byte)]

ASSUME CodecAssumption ==
    /\ Scripts \subseteq Seq(Message) /\ Garbage \subseteq Seq(Byte)
    /\ DefaultMsgId \in Seq(Byte)
    /\ PrependSize \in Nat /\ InitialSize \in Nat \ {0}
    /\ PrependSize + InitialSize <= MaxBufferSize
    /\ MaxPacketSize \in HEADER_SIZE..127
    /\ ExtraSize \in Nat /\ MaxReadPerRound \in Nat \ {0}
    /\ WriteChunks \subseteq Nat \ {0} /\ ReadChunks \subseteq Nat \ {0}

VARIABLES
    script,       \* all messages of this run, never changes
    prefix,       \* the garbage of this run, never changes
    sent,         \* how many messages were handed to the sender
    out,          \* m_out_buffer of the sender
    sender,       \* its state: open, failed (an encode was refused), closed
    wire,         \* bytes written and not yet read
    damage,       \* a byte on the wire: safe, at risk, or one was damaged
    in,           \* m_in_buffer of the receiver
    readPc,       \* the receiver: idle, reading (in the loop), decode
    closed,       \* why the receiver closed the connection: no, eof, limit, bad
    received,     \* messages handed to the message callback
    stream        \* history: all bytes the receiver has read

vars == <<script, prefix, sent, out, sender, wire, damage, in, readPc, closed,
          received, stream>>

-----------------------------------------------------------------------------
(* TcpBuffer.                                                              *)

NewBuffer == [bytes |-> <<>>, r |-> PrependSize, size |-> PrependSize + InitialSize]

ReadAble(b) == Len(b.bytes)
WriteAble(b) == b.size - (b.r + Len(b.bytes))

\* Move the bytes to the front, or grow if the whole append then fits.
MakeSpace(b, len) ==
    IF WriteAble(b) + b.r >= len + PrependSize
      THEN [ok |-> TRUE, buf |-> [b EXCEPT !.r = PrependSize]]
      ELSE LET required == PrependSize + ReadAble(b) + len
               doubled == Min({b.size * 2, MaxBufferSize})
           IN IF required > MaxBufferSize
                THEN [ok |-> FALSE, buf |-> b]
                ELSE [ok |-> TRUE,
                      buf |-> [b EXCEPT !.r = PrependSize, !.size = Max({required, doubled})]]

EnsureWritable(b, len) ==
    IF ReadAble(b) + len > MaxBufferSize THEN [ok |-> FALSE, buf |-> b]
    ELSE IF WriteAble(b) < len THEN MakeSpace(b, len)
    ELSE [ok |-> TRUE, buf |-> b]

Append_(b, bytes) == [b EXCEPT !.bytes = @ \o bytes]

\* A buffer that becomes empty starts again at the front.
Consume(b, len) ==
    IF len < ReadAble(b)
      THEN [b EXCEPT !.bytes = SubSeq(@, len + 1, Len(@)), !.r = @ + len]
      ELSE [b EXCEPT !.bytes = <<>>, !.r = PrependSize]

ResizeBuffer(b, size) == [b EXCEPT !.r = PrependSize, !.size = size]

-----------------------------------------------------------------------------
(* TinyPBCoder.                                                            *)

Int32(v) == << (v \div 16) % 16, v % 16 >>

ReadInt32(bytes, i) ==
    LET v == 16 * bytes[i] + bytes[i + 1]
    IN IF v >= 128 THEN v - 256 ELSE v

Checksum(bytes) == Calculate(bytes)

WithId(m) == [m EXCEPT !.id = IF @ = <<>> THEN DefaultMsgId ELSE @]

PacketSize(m) == HEADER_SIZE + Len(m.id) + Len(m.method) + Len(m.info) + Len(m.data)

\* Regression: the start marker is left out of the checksum.
FrameSumsBody(m) ==
    LET body == Int32(PacketSize(m)) \o Int32(Len(m.id)) \o m.id
                \o Int32(Len(m.method)) \o m.method \o Int32(m.code)
                \o Int32(Len(m.info)) \o m.info \o m.data
    IN <<PB_START>> \o body \o Int32(Checksum(body)) \o <<PB_END>>

Frame(m) ==
    LET body == <<PB_START>> \o Int32(PacketSize(m))
                \o Int32(Len(m.id)) \o m.id
                \o Int32(Len(m.method)) \o m.method
                \o Int32(m.code)
                \o Int32(Len(m.info)) \o m.info
                \o m.data
    IN body \o Int32(Checksum(body)) \o <<PB_END>>

\* One message of encode; a failure leaves the earlier frames in the buffer.
EncodeOne(acc, msg) ==
    LET m == WithId(msg)
        space == EnsureWritable(acc.buf, PacketSize(m))
    IN IF ~acc.ok THEN acc
       ELSE IF PacketSize(m) > MaxPacketSize \/ ~space.ok THEN [acc EXCEPT !.ok = FALSE]
       ELSE [ok |-> TRUE, buf |-> Append_(space.buf, Frame(m))]

Encode(messages, b) == FoldLeft(EncodeOne, [ok |-> TRUE, buf |-> b], messages)

(* The fields of the complete frame f.  A length that is negative or does  *)
(* not fit before the end marker, or a wrong checksum, rejects the frame.  *)
Rejected == [ok |-> FALSE]

\* Regression: the checksum is not looked at.
SumIgnored(f, sum) == TRUE

SumMatches(f, sum) == Int32(Checksum(SubSeq(f, 1, sum - 1))) = SubSeq(f, sum, Len(f) - 1)

ParseFields(f) ==
    LET end == Len(f)             \* index of PB_END
        Fits(i, need) == need >= 0 /\ i + need <= end
        LengthAt(i) == IF Fits(i, IntSize) THEN ReadInt32(f, i) ELSE -1
        HasField(i) == Fits(i, IntSize) /\ Fits(i + IntSize, LengthAt(i))
        After(i) == i + IntSize + LengthAt(i)
        Field(i) == SubSeq(f, i + IntSize, After(i) - 1)
        id == 2 + IntSize
    IN IF ~HasField(id) \/ ~HasField(After(id)) THEN Rejected
       ELSE LET method == After(id)
                code == After(method)
                info == code + IntSize
            IN IF ~Fits(code, IntSize) \/ ~HasField(info) THEN Rejected
               ELSE LET data == After(info)
                        sum == end - IntSize
                    IN IF data > sum \/ ~SumMatches(f, sum)
                         THEN Rejected
                         ELSE [ok |-> TRUE,
                               msg |-> [id |-> Field(id), method |-> Field(method),
                                        code |-> ReadInt32(f, code), info |-> Field(info),
                                        data |-> SubSeq(f, data, sum - 1)]]

(* decode: the messages, what stays in the buffer, and whether the stream  *)
(* is given up.                                                            *)
RECURSIVE DecodeFrom(_, _)
DecodeFrom(bytes, messages) ==
    LET start == SelectInSeq(bytes, LAMBDA b : b = PB_START)
        rest == SubSeq(bytes, start, Len(bytes))
        pkLen == ReadInt32(rest, 2)
        Resync == DecodeFrom(Tail(rest), messages)
        Wait == [messages |-> messages, rest |-> rest, fatal |-> FALSE]
    IN IF start = 0 THEN [messages |-> messages, rest |-> <<>>, fatal |-> FALSE]
       ELSE IF Len(rest) < 1 + IntSize THEN Wait
       ELSE IF pkLen < HEADER_SIZE \/ pkLen > MaxPacketSize THEN Resync
       ELSE IF Len(rest) < pkLen THEN Wait
       ELSE IF rest[pkLen] # PB_END THEN Resync
       ELSE LET parsed == ParseFields(SubSeq(rest, 1, pkLen))
                after == SubSeq(rest, pkLen + 1, Len(rest))
            IN IF parsed.ok
                 THEN DecodeFrom(after, Append(messages, parsed.msg))
                 ELSE [messages |-> messages, rest |-> after, fatal |-> TRUE]

\* Regression: an incomplete frame is taken for garbage.
DecodeImpatient(bytes) ==
    LET d == DecodeFrom(bytes, <<>>) IN [d EXCEPT !.rest = <<>>]

Decode(bytes) == DecodeFrom(bytes, <<>>)

-----------------------------------------------------------------------------
(* The sender.                                                             *)

Init ==
    /\ script \in Scripts /\ prefix \in Garbage
    /\ sent = 0 /\ out = NewBuffer /\ sender = "open"
    /\ damage = IF script \in Spoilt /\ prefix = <<>> THEN "at risk" ELSE "safe"
    /\ wire = prefix /\ in = NewBuffer /\ readPc = "idle" /\ closed = "no"
    /\ received = <<>> /\ stream = <<>>

\* sendInLoopBatch of the next n messages.  A failing encode closes the
\* connection with the output that was not written yet.
SendBatch(n) ==
    /\ sender = "open"
    /\ n \in 1..(Len(script) - sent)
    /\ LET e == Encode(SubSeq(script, sent + 1, sent + n), out)
       IN out' = e.buf /\ sender' = IF e.ok THEN "open" ELSE "failed"
    /\ sent' = sent + n
    /\ UNCHANGED <<script, prefix, damage, wire, in, readPc, closed, received, stream>>

\* writeToFd: the kernel takes some of the bytes.
WriteToFd(chunk) ==
    LET n == Min({chunk, ReadAble(out)})
    IN /\ sender = "open" /\ n > 0
       /\ wire' = wire \o SubSeq(out.bytes, 1, n)
       /\ out' = Consume(out, n)
       /\ UNCHANGED <<script, prefix, damage, sent, sender, in, readPc, closed, received, stream>>

CloseSender ==
    /\ sender = "open" /\ sent = Len(script) /\ ReadAble(out) = 0
    /\ sender' = "closed"
    /\ UNCHANGED <<script, prefix, damage, sent, out, wire, in, readPc, closed, received, stream>>

\* External: some bits of one byte under way change.
Damage(i, bits) ==
    /\ damage = "at risk" /\ i \in DOMAIN wire
    /\ wire' = [wire EXCEPT ![i] = @ ^^ bits]
    /\ damage' = "done"
    /\ UNCHANGED <<script, prefix, sent, out, sender, in, readPc, closed, received, stream>>

-----------------------------------------------------------------------------
(* The receiver's handleRead.                                              *)

Reading == closed = "no" /\ readPc \in {"idle", "reading"}

\* The head of the read loop: a full buffer is doubled first.
WithRoom(b) ==
    IF WriteAble(b) = 0 THEN ResizeBuffer(b, Min({b.size * 2, MaxBufferSize})) ELSE b

\* readFromFd gets up to chunk bytes; those beyond the buffer go through the stack
\* buffer and append, which fails at the limit.  A short read ends the loop.
ReadFromFd(chunk) ==
    LET b == WithRoom(in)
        room == WriteAble(b)
        n == Min({chunk, Len(wire), IF room < ExtraSize THEN room + ExtraSize ELSE room})
        space == EnsureWritable([b EXCEPT !.bytes = @ \o SubSeq(wire, 1, Min({n, room}))],
                                Max({n - room, 0}))
    IN /\ Reading /\ n > 0
       /\ wire' = SubSeq(wire, n + 1, Len(wire))
       /\ stream' = stream \o SubSeq(wire, 1, n)
       /\ in' = IF space.ok THEN Append_(space.buf, SubSeq(wire, room + 1, n)) ELSE space.buf
       /\ closed' = IF space.ok THEN "no" ELSE "limit"
       /\ readPc' = IF n < MaxReadPerRound THEN "decode" ELSE "reading"
       /\ UNCHANGED <<script, prefix, damage, sent, out, sender, received>>

\* EAGAIN.
ReadNothing ==
    /\ Reading /\ readPc = "reading"
    /\ in' = WithRoom(in)
    /\ readPc' = "decode"
    /\ UNCHANGED <<script, prefix, damage, sent, out, sender, wire, closed, received, stream>>

\* End of file: the connection is closed without another decode.
ReadEof ==
    /\ Reading /\ wire = <<>> /\ sender # "open"
    /\ closed' = "eof"
    /\ UNCHANGED <<script, prefix, damage, sent, out, sender, wire, in, readPc, received, stream>>

\* After the loop: decode, then the message callback, or close on a bad frame.
DecodeInput ==
    /\ closed = "no" /\ readPc = "decode"
    /\ LET d == Decode(in.bytes)
       IN /\ in' = Consume(in, ReadAble(in) - Len(d.rest))
          /\ closed' = IF d.fatal THEN "bad" ELSE "no"
          /\ received' = IF d.fatal THEN received ELSE received \o d.messages
    /\ readPc' = "idle"
    /\ UNCHANGED <<script, prefix, damage, sent, out, sender, wire, stream>>

Receive == (\E n \in ReadChunks : ReadFromFd(n)) \/ ReadNothing \/ ReadEof \/ DecodeInput

Next ==
    \/ \E n \in 1..Len(script) : SendBatch(n)
    \/ \E n \in WriteChunks : WriteToFd(n)
    \/ CloseSender
    \/ \E i \in DOMAIN wire, bits \in Flips : Damage(i, bits)
    \/ Receive

Spec == Init /\ [][Next]_vars

-----------------------------------------------------------------------------
(* Properties.                                                             *)

InBounds(b) ==
    /\ b.bytes \in Seq(Byte) /\ b.r >= PrependSize /\ WriteAble(b) >= 0
    /\ b.size <= MaxBufferSize

(* Types of the variables.                                                 *)
TypeOK ==
    /\ script \in Scripts /\ prefix \in Garbage /\ sent \in 0..Len(script)
    /\ sender \in {"open", "failed", "closed"}
    /\ wire \in Seq(Byte) /\ stream \in Seq(Byte)
    /\ readPc \in {"idle", "reading", "decode"}
    /\ closed \in {"no", "eof", "limit", "bad"}
    /\ received \in Seq([id: Seq(Byte), method: Seq(Byte), code: Int,
                         info: Seq(Byte), data: Seq(Byte)])

(* Whatever the sizes of the reads and writes, neither buffer is written   *)
(* beyond its storage or grown beyond its limit.  While the connection is  *)
(* open the messages delivered and the bytes kept are those of one decode  *)
(* of all that has arrived, garbage and resynchronisation included; and it *)
(* is closed over a frame only if that decode rejects one, the messages    *)
(* delivered being the first of those in front of it.  How many of them    *)
(* does depend on the reads: a read that holds the bad frame delivers      *)
(* nothing.  The code closes at the first frame with a bad length or       *)
(* checksum; tinypb_coder.h:81 says it is skipped, and test_tinypb_coder.cc *)
(* (97-138) that only the third in a row is fatal.                         *)
ChunkFree ==
    LET whole == Decode(stream)
    IN /\ InBounds(out) /\ InBounds(in)
       /\ closed = "no" /\ readPc = "idle" =>
            received = whole.messages /\ in.bytes = whole.rest
       /\ closed = "bad" => whole.fatal /\ IsPrefix(received, whole.messages)

(* Round trip: after a prefix without a start marker, what is delivered is *)
(* always a prefix of what was sent (an empty id replaced), although       *)
(* fields may contain start and end markers; the connection is never given *)
(* up over a frame that encode produced; and when the receiver is idle and *)
(* no byte is on its way, every message has arrived.                       *)
RoundTrip ==
    damage # "done" /\ (\A i \in DOMAIN prefix : prefix[i] # PB_START) =>
        /\ closed # "bad"
        /\ Len(received) <= sent
        /\ \A i \in DOMAIN received : received[i] = WithId(script[i])
        /\ readPc = "idle" /\ closed = "no" /\ wire = <<>>
             /\ out.bytes = <<>> /\ sender # "failed" => Len(received) = sent

(* Nothing is forged: whichever byte of the stream is damaged, a length or *)
(* a marker included, a message that is delivered is one that was sent,    *)
(* and in its place or behind it.                                          *)
NothingForged ==
    \A i \in DOMAIN received :
        \E j \in i..sent : received[i] = WithId(script[j])
=============================================================================
