------------------------- MODULE UartFramingProofs -------------------------
(***************************************************************************)
(* What read_packet returns is what write_packet sent, whenever the two    *)
(* calls are a pair: for bodies of any length, any number of calls before  *)
(* them, and any losses and resets.                                        *)
(*                                                                         *)
(* The writer is followed by Sent, the number of bytes of the stream       *)
(* (header, then body) that have left it; the reader by the position p of  *)
(* the last of them that it has read.  Positions only grow, and a body is  *)
(* complete only when none was skipped.  In the other direction the writer *)
(* is followed by the last byte q of the reader's ACK that it has read:    *)
(* the third and fourth bytes cannot be had without the reader having      *)
(* written them for the chunk that the writer has sent.  Of calls that are *)
(* not a pair only the shape of their states is known.                     *)
(***************************************************************************)
EXTENDS UartFraming, Integers, TLAPS

L == Len(packet.body)

-----------------------------------------------------------------------------
(* The inductive invariant.                                                *)

(* The bytes of a packet, as they follow each other on the wire.           *)
StreamByte(i) == IF i <= 4 THEN Header(packet)[i] ELSE packet.body[i - 4]

Sent == 4 + w.off - Len(w.out)

(* The writer's chunk is the next bytes of the stream.                     *)
WriterInv ==
    /\ 0 <= Sent
    /\ \A i \in 1 .. Len(w.out) : w.out[i] = StreamByte(Sent + i)

(* What read_packet holds before it has the header, between two blocks and *)
(* when it has ended.                                                      *)
ReaderShape ==
    /\ r.pc \in {"sync", "cmd", "lo", "hi", "skip"} =>
          r.len = 0 /\ r.body = <<>> /\ r.result = "none"
    /\ r.pc \in {"sync", "cmd"} => r.cmd # MSG_MAGIC
    /\ r.out # <<>> => Len(r.out) <= 4
                       /\ \A i \in 1 .. Len(r.out) : r.out[i] = Ack[4 - Len(r.out) + i]
    /\ r.pc = "body" => Len(r.body) < r.off
    /\ r.body # <<>> => r.len <= r.limit
    /\ r.pc = "body" => r.len <= r.limit
    /\ r.pc = "done" /\ r.len > 0 /\ Len(r.body) = r.len /\ r.out = <<>> => r.result = "ok"

(* The header that was read is the packet's.                               *)
RightHeader == r.cmd = packet.cmd /\ r.len = L

(* The bytes read so far end at position p of the stream, and a byte that  *)
(* waits in the register comes from beyond.                                *)
ReadUpTo(p) ==
    /\ \/ rx[reader] = Empty
       \/ \E q \in p + 1 .. Sent : rx[reader] = StreamByte(q)
    /\ \/ r.cmd = MSG_MAGIC
       \/ r.pc = "cmd"
       \/ r.pc = "lo" /\ p >= 2 /\ (p = 2 => r.cmd = packet.cmd)
       \/ r.pc = "hi" /\ p >= 3 /\ (p = 3 => r.cmd = packet.cmd /\ r.lo = L % 256)
       \/ /\ r.pc \in {"ack", "body"}
          /\ 4 + Len(r.body) <= p
          /\ 4 + Len(r.body) = p =>
                \A i \in 1 .. Len(r.body) : r.body[i] = packet.body[i]
          /\ RightHeader \/ (~ NeedsAck /\ r.len >= 256)

ReaderInv ==
    paired =>
        /\ r.pc \in {"cmd", "lo", "hi", "ack", "body"} => \E p \in 0 .. Sent : ReadUpTo(p)
        /\ r.pc = "done" /\ r.result = "ok" /\ r.cmd # MSG_MAGIC =>
              TookPacket /\ rx[reader] = Empty /\ Sent = 4 + L

(* The bytes of the current chunk's ACK that the reader has written.       *)
Acked == IF r.out # <<>> THEN 4 - Len(r.out)
         ELSE IF r.len > 0 /\ Len(r.body) = w.off THEN 4 ELSE 0

(* The writer has read the ACK up to its byte q.                           *)
AckReadUpTo(q) ==
    /\ w.k >= 2 => q >= w.k
    /\ w.k >= 1 => \/ rx[writer] = Empty
                   \/ \E i \in q + 1 .. Acked : rx[writer] = Ack[i]

AckInv ==
    paired /\ NeedsAck /\ r.cmd # MSG_MAGIC =>
        /\ IF r.len = 0 THEN w.off = 0 ELSE RightHeader
        /\ r.out # <<>> => Len(r.body) = w.off /\ w.pc # "write"
        /\ r.pc = "body" =>
              \/ w.off = r.off
              \/ Len(r.body) = w.off /\ r.off = BlockEnd(w.off, L) /\ w.pc # "write"
        /\ w.pc = "write" => Acked = 0
        /\ w.pc = "ack" => \E q \in 0 .. Acked : AckReadUpTo(q)
        /\ w.pc = "done" /\ w.result = "ok" =>
              r.pc = "done" /\ r.result = "ok" /\ rx[writer] = Empty

FramingInv == TypeOK /\ WriterInv /\ ReaderShape /\ ReaderInv /\ AckInv

-----------------------------------------------------------------------------
(* Facts about sequences, the two ends and the wire.                       *)

(* What Tail leaves of a sequence.                                         *)
LEMMA TailIs ==
    ASSUME NEW S, NEW s \in Seq(S), s # <<>>
    PROVE  /\ Tail(s) \in Seq(S)
           /\ Len(s) >= 1
           /\ Len(Tail(s)) = Len(s) - 1
           /\ \A i \in 1 .. Len(s) - 1 : Tail(s)[i] = s[i + 1]
           /\ Head(s) = s[1]
           /\ Head(s) \in S
OBVIOUS

(* What Append adds to a sequence.                                         *)
LEMMA AppendIs ==
    ASSUME NEW S, NEW s \in Seq(S), NEW x \in S
    PROVE  /\ Append(s, x) \in Seq(S)
           /\ Len(Append(s, x)) = Len(s) + 1
           /\ \A i \in 1 .. Len(s) : Append(s, x)[i] = s[i]
           /\ Append(s, x)[Len(s) + 1] = x
           /\ Append(s, x) # <<>>
OBVIOUS

(* What SubSeq cuts from a sequence.                                       *)
LEMMA SubSeqIs ==
    ASSUME NEW S, NEW s \in Seq(S), NEW m \in Nat, NEW n \in 1 .. Len(s), m < n
    PROVE  /\ SubSeq(s, m + 1, n) \in Seq(S)
           /\ Len(SubSeq(s, m + 1, n)) = n - m
           /\ \A i \in 1 .. n - m : SubSeq(s, m + 1, n)[i] = s[m + i]
           /\ SubSeq(s, m + 1, n) # <<>>
OBVIOUS

(* The ends are the writer and the reader.                                 *)
LEMMA TwoEnds ==
    ASSUME writer \in Ends
    PROVE  reader \in Ends /\ reader # writer /\ Ends = {writer, reader}
BY FramingAssumption DEF FramingAssumption, reader, Other

(* Bytes and lengths as numbers up to a bound.                             *)
MaxByte == 255
MaxWord == 65535

LEMMA RangeIs ==
    ASSUME NEW m \in Nat, NEW n
    PROVE  n \in 0 .. m <=> n \in Nat /\ n <= m
OBVIOUS

LEMMA Bounds ==
    /\ MaxByte \in Nat /\ MaxByte > 0
    /\ MaxWord \in Nat /\ MaxWord = MaxByte + 256 * MaxByte
BY DEF MaxByte, MaxWord

LEMMA ByteIs ==
    ASSUME NEW n
    PROVE  n \in Byte <=> n \in Nat /\ n <= MaxByte
<1>1. Byte = 0 .. MaxByte
  BY DEF Byte, MaxByte
<1> QED
  BY <1>1, Bounds, RangeIs

LEMMA WordIs ==
    ASSUME NEW n
    PROVE  n \in Word <=> n \in Nat /\ n <= MaxWord
<1>1. Word = 0 .. MaxWord
  BY DEF Word, MaxWord
<1> QED
  BY <1>1, Bounds, RangeIs

LEMMA ByteIsWord ==
    ASSUME NEW n \in Byte
    PROVE  n \in Word
BY ByteIs, WordIs, Bounds

LEMMA ZeroIs == 0 \in Byte /\ 0 \in Word
BY ByteIs, WordIs, Bounds

(* A length that is not longer than one of 16 bits has 16 bits.            *)
LEMMA ShorterIs ==
    ASSUME NEW n \in Word, NEW m \in Nat, m <= n
    PROVE  m \in Word /\ n \in Nat
BY WordIs, Bounds

(* The two bytes of a length, and the length of two bytes.                 *)
LEMMA LengthBytes ==
    ASSUME NEW n \in Word
    PROVE  /\ n % 256 \in Byte /\ n \div 256 \in Byte
           /\ n = (n % 256) + 256 * (n \div 256)
<1>1. n \in Nat /\ n <= MaxWord
  BY WordIs
<1>2. n \div 256 \in Int /\ n % 256 \in 0 .. 255
  BY <1>1, SMT
<1>3. n = (n % 256) + 256 * (n \div 256)
  BY <1>1, SMT
<1>4. n \div 256 \in Nat /\ n \div 256 <= MaxByte
  <2>1. n \div 256 >= 0
    BY <1>1, <1>2, <1>3, SMT
  <2>2. n \div 256 <= 255
    BY <1>1, <1>2, <1>3, SMT DEF MaxWord
  <2> QED
    BY <1>2, <2>1, <2>2, SMT DEF MaxByte
<1> QED
  BY <1>2, <1>3, <1>4, ByteIs DEF Byte

LEMMA BytesLength ==
    ASSUME NEW low \in Byte, NEW high \in Byte
    PROVE  /\ low + 256 * high \in Word
           /\ high # 0 => low + 256 * high >= 256
<1>1. low \in Nat /\ low <= MaxByte /\ high \in Nat /\ high <= MaxByte
  BY ByteIs
<1>2. low + 256 * high \in Nat /\ low + 256 * high <= MaxWord
  BY <1>1, Bounds
<1>3. high # 0 => low + 256 * high >= 256
  BY <1>1
<1> QED
  BY <1>2, <1>3, WordIs

(* The packets have a body, that of an ERROR packet is short and has no    *)
(* zero byte.                                                              *)
LEMMA PacketIs ==
    ASSUME packet \in Packets
    PROVE  /\ packet.cmd \in Byte
           /\ packet.body \in Seq(Byte)
           /\ L \in Word /\ L >= 1
           /\ packet.cmd # MSG_MAGIC
           /\ ~ NeedsAck => L \in Byte /\ \A i \in 1 .. L : packet.body[i] # 0
<1>1. /\ packet.body \in Seq(Byte)
      /\ \/ packet.cmd = RECEIVE_MSG /\ L \in Word \ {0}
         \/ /\ packet.cmd = ERROR_MSG /\ L \in Byte \ {0}
            /\ \A i \in 1 .. L : packet.body[i] # 0
  BY FramingAssumption DEF FramingAssumption, L
<1>2. /\ RECEIVE_MSG \in Byte /\ ERROR_MSG \in Byte
      /\ RECEIVE_MSG # MSG_MAGIC /\ ERROR_MSG # MSG_MAGIC
      /\ RECEIVE_MSG # ERROR_MSG
  BY DEF Byte, RECEIVE_MSG, ERROR_MSG, MSG_MAGIC
<1>3. ASSUME NEW n \in Byte \ {0}
      PROVE  n \in Word /\ n >= 1
  BY ByteIsWord, ByteIs
<1>4. ASSUME NEW n \in Word \ {0}
      PROVE  n >= 1
  BY WordIs
<1> QED
  BY <1>1, <1>2, <1>3, <1>4 DEF NeedsAck

(* The empty sequence.                                                     *)
LEMMA EmptyIs ==
    /\ \A S : <<>> \in Seq(S)
    /\ Len(<<>>) = 0
    /\ \A i \in 1 .. Len(<<>>) : FALSE
OBVIOUS

(* A sequence of four.                                                     *)
LEMMA FourIs ==
    ASSUME NEW S, NEW a \in S, NEW b \in S, NEW c \in S, NEW d \in S
    PROVE  /\ <<a, b, c, d>> \in Seq(S) /\ Len(<<a, b, c, d>>) = 4
           /\ <<a, b, c, d>> # <<>>
           /\ <<a, b, c, d>>[1] = a /\ <<a, b, c, d>>[2] = b
           /\ <<a, b, c, d>>[3] = c /\ <<a, b, c, d>>[4] = d
OBVIOUS

(* The header's bytes.                                                     *)
LEMMA AnyHeader ==
    ASSUME NEW p \in Packets
    PROVE  /\ Header(p) \in Seq(Byte) /\ Len(Header(p)) = 4 /\ Header(p) # <<>>
           /\ Header(p)[1] = MSG_MAGIC /\ Header(p)[2] = p.cmd
           /\ Header(p)[3] = Len(p.body) % 256 /\ Header(p)[4] = Len(p.body) \div 256
<1>1. p.cmd \in {RECEIVE_MSG, ERROR_MSG} /\ Len(p.body) \in Byte \cup Word
  BY FramingAssumption DEF FramingAssumption
<1>2. MSG_MAGIC \in Byte /\ p.cmd \in Byte
  <2>1. MSG_MAGIC \in Byte /\ RECEIVE_MSG \in Byte /\ ERROR_MSG \in Byte
    BY DEF Byte, MSG_MAGIC, RECEIVE_MSG, ERROR_MSG
  <2> QED
    BY <1>1, <2>1
<1>3. Len(p.body) \in Word
  <2>1. ASSUME NEW n \in Byte
        PROVE  n \in Word
    BY ByteIsWord
  <2> QED
    BY <1>1, <2>1
<1>4. Len(p.body) % 256 \in Byte /\ Len(p.body) \div 256 \in Byte
  BY <1>3, LengthBytes, ZenonT(60)
<1>5. Header(p) = <<MSG_MAGIC, p.cmd, Len(p.body) % 256, Len(p.body) \div 256>>
  BY DEF Header
<1> DEFINE low == Len(p.body) % 256
           high == Len(p.body) \div 256
<1>6. Header(p) = <<MSG_MAGIC, p.cmd, low, high>> /\ low \in Byte /\ high \in Byte
  BY <1>4, <1>5, ZenonT(60)
<1> HIDE DEF low, high
<1>7. /\ Header(p) \in Seq(Byte) /\ Len(Header(p)) = 4 /\ Header(p) # <<>>
      /\ Header(p)[1] = MSG_MAGIC /\ Header(p)[2] = p.cmd
      /\ Header(p)[3] = low /\ Header(p)[4] = high
  BY <1>2, <1>6, FourIs
<1> QED
  BY <1>7 DEF low, high

LEMMA HeaderIs ==
    ASSUME packet \in Packets
    PROVE  /\ Header(packet) \in Seq(Byte)
           /\ Len(Header(packet)) = 4
           /\ Header(packet) # <<>>
           /\ Header(packet)[1] = MSG_MAGIC
           /\ Header(packet)[2] = packet.cmd
           /\ Header(packet)[3] = L % 256
           /\ Header(packet)[4] = L \div 256
BY AnyHeader, ZenonT(60) DEF L

(* An ACK's bytes.                                                         *)
LEMMA AckIs ==
    /\ Ack \in Seq(Byte) /\ Len(Ack) = 4 /\ Ack # <<>>
    /\ Ack[1] = MSG_MAGIC /\ Ack[2] = ACK_MSG /\ Ack[3] = 0 /\ Ack[4] = 0
BY DEF Ack, Byte, MSG_MAGIC, ACK_MSG

(* A block ends after its start and not after the body.                    *)
LEMMA BlockEndIs ==
    ASSUME NEW len \in Nat, NEW from \in 0 .. len
    PROVE  /\ BlockEnd(from, len) \in from .. len
           /\ from < len => from < BlockEnd(from, len)
BY FramingAssumption DEF FramingAssumption, BlockEnd

(* What the wire does to a register.                                       *)
LEMMA TransmitIs ==
    ASSUME rx \in [Ends -> Byte \cup {Empty}], noise \in 0 .. MaxNoise,
           NEW e \in Ends, NEW b \in Byte, Transmit(e, b)
    PROVE  /\ rx' \in [Ends -> Byte \cup {Empty}]
           /\ noise' \in 0 .. MaxNoise
           /\ \A f \in Ends : f # e => rx'[f] = rx[f]
           /\ rx'[e] = rx[e] \/ (rx[e] = Empty /\ rx'[e] = b)
BY FramingAssumption DEF FramingAssumption, Transmit

LEMMA ArrivesIs ==
    ASSUME rx \in [Ends -> Byte \cup {Empty}], NEW e \in Ends, Arrives(e)
    PROVE  /\ rx' \in [Ends -> Byte \cup {Empty}]
           /\ \A f \in Ends : f # e => rx'[f] = rx[f]
           /\ rx[e] \in Byte /\ rx'[e] = Empty
BY DEF Arrives

(* What is left to write while a chunk is being written, and, by a call    *)
(* that a reset has cut, afterwards.                                       *)
WriterOut == (w.pc = "write" => w.out # <<>>) /\ (w.pc = "ack" => w.out = <<>>)
ReaderOut == (r.pc = "ack" => r.out # <<>>) /\ (r.pc \notin {"ack", "done"} => r.out = <<>>)

(* The fields of write_packet's state.                                     *)
WriterFields ==
    [pc : {"write", "ack", "done"}, out : Seq(Byte), off : 0 .. L,
     k : 0 .. 3, result : {"none", "ok", "no ack", "timeout", "reset"}]

LEMMA WriterTyped ==
    ASSUME TypeOK
    PROVE  /\ packet \in Packets /\ packet.body \in Seq(Byte) /\ L = Len(packet.body)
           /\ L \in Nat /\ L >= 1
           /\ w \in WriterFields /\ w.off \in 0 .. L
           /\ WriterOut
<1>1. packet \in Packets /\ w \in WriterFields /\ WriterOut
  BY DEF TypeOK, WriterFields, WriterOut, L
<1>2. packet.body \in Seq(Byte) /\ L >= 1
  BY <1>1, PacketIs
<1>3. L = Len(packet.body) /\ L \in Nat
  BY <1>2 DEF L
<1> QED
  BY <1>1, <1>2, <1>3 DEF WriterFields

(* The chunk that follows: the next block of the body, or the end.         *)
LEMMA NextChunkIs ==
    ASSUME TypeOK
    PROVE  \/ w.off = L /\ NextChunk = EndWrite("ok")
           \/ LET end == BlockEnd(w.off, L) IN
              /\ end \in w.off + 1 .. L
              /\ NextChunk = [w EXCEPT !.pc = "write", !.out = SubSeq(packet.body, w.off + 1, end),
                                       !.off = end]
<1>1. L \in Nat /\ w.off \in 0 .. L
  BY WriterTyped
<1> QED
  BY <1>1, BlockEndIs DEF NextChunk, L

(* The same, field by field.                                               *)
LEMMA ChunkFollows ==
    ASSUME TypeOK, w' = NextChunk
    PROVE  /\ w' \in WriterFields
           /\ WriterOut'
           /\ \/ w.off = L /\ w'.off = L /\ w'.pc = "done" /\ w'.result = "ok"
                 /\ w'.out = <<>>
              \/ w.off < L /\ w'.off = BlockEnd(w.off, L) /\ w'.off > w.off /\ w'.pc = "write"
           /\ Len(w'.out) = w'.off - w.off
           /\ \A i \in 1 .. Len(w'.out) : w'.out[i] = packet.body[w.off + i]
<1>1. /\ packet.body \in Seq(Byte) /\ L = Len(packet.body) /\ L \in Nat
      /\ w \in WriterFields /\ w.off \in 0 .. L
  BY WriterTyped
<1>2. CASE w.off = L /\ NextChunk = EndWrite("ok")
  <2>1. w' = [w EXCEPT !.pc = "done", !.out = <<>>, !.result = "ok"]
    BY <1>2 DEF EndWrite
  <2>2. w' \in WriterFields
    <3> DEFINE S == Seq(Byte)
    <3>1. w \in [pc : {"write", "ack", "done"}, out : S, off : 0 .. L,
                 k : 0 .. 3, result : {"none", "ok", "no ack", "timeout", "reset"}]
      BY <1>1 DEF WriterFields
    <3>2. <<>> \in S
      BY EmptyIs
    <3>3. WriterFields = [pc : {"write", "ack", "done"}, out : S, off : 0 .. L,
                         k : 0 .. 3, result : {"none", "ok", "no ack", "timeout", "reset"}]
      BY DEF WriterFields
    <3> HIDE DEF S
    <3> QED
      BY <2>1, <3>1, <3>2, <3>3
  <2>3. w'.pc = "done" /\ w'.out = <<>> /\ w'.result = "ok" /\ w'.off = w.off
    BY <1>1, <2>1 DEF WriterFields
  <2>4. Len(w'.out) = w'.off - w.off
    BY <1>1, <2>3, EmptyIs
  <2>5. \A i \in 1 .. Len(w'.out) : w'.out[i] = packet.body[w.off + i]
    BY <2>3, EmptyIs
  <2> QED
    BY <1>2, <2>2, <2>3, <2>4, <2>5 DEF WriterOut
<1>3. CASE LET end == BlockEnd(w.off, L) IN
           /\ end \in w.off + 1 .. L
           /\ NextChunk = [w EXCEPT !.pc = "write", !.out = SubSeq(packet.body, w.off + 1, end),
                                    !.off = end]
  <2> DEFINE end == BlockEnd(w.off, L)
  <2>1. end \in 1 .. L /\ w.off < end
    BY <1>1, <1>3
  <2> HIDE DEF end
  <2>2. /\ SubSeq(packet.body, w.off + 1, end) \in Seq(Byte)
        /\ Len(SubSeq(packet.body, w.off + 1, end)) = end - w.off
        /\ \A i \in 1 .. end - w.off :
              SubSeq(packet.body, w.off + 1, end)[i] = packet.body[w.off + i]
        /\ SubSeq(packet.body, w.off + 1, end) # <<>>
    <3>1. w.off \in Nat /\ end \in 1 .. Len(packet.body)
      BY <1>1, <2>1
    <3> QED
      BY <1>1, <2>1, <3>1, SubSeqIs, ZenonT(60)
  <2>3. w' = [w EXCEPT !.pc = "write", !.out = SubSeq(packet.body, w.off + 1, end), !.off = end]
    BY <1>3 DEF end
  <2>4. /\ w'.pc = "write" /\ w'.off = end /\ w'.out = SubSeq(packet.body, w.off + 1, end)
        /\ w' \in WriterFields
    <3> DEFINE out == SubSeq(packet.body, w.off + 1, end)
    <3>1. out \in Seq(Byte) /\ end \in 0 .. L
      BY <1>1, <2>1, <2>2
    <3>2. w' = [w EXCEPT !.pc = "write", !.out = out, !.off = end]
      BY <2>3
    <3> HIDE DEF out
    <3>3. w'.pc = "write" /\ w'.off = end /\ w'.out = out /\ w' \in WriterFields
      BY <1>1, <3>1, <3>2, ZenonT(60) DEF WriterFields
    <3> QED
      BY <3>3 DEF out
  <2>5. end = BlockEnd(w.off, L)
    BY DEF end
  <2> QED
    BY <1>1, <2>1, <2>2, <2>4, <2>5, SMTT(60) DEF WriterOut
<1> QED
  BY <1>2, <1>3, NextChunkIs

-----------------------------------------------------------------------------
(* The steps of the writer.                                                *)

(* The registers, as a step of one end leaves them.                        *)
RegistersTyped == rx \in [Ends -> Byte \cup {Empty}] /\ noise \in 0 .. MaxNoise

ReaderFields ==
    [pc : {"sync", "cmd", "lo", "hi", "skip", "ack", "body", "done"},
     limit : Limits \cup {0}, out : Seq(Byte), cmd : Byte, lo : Byte,
     len : Word, off : Word, body : Seq(Byte),
     result : {"none", "ok", "bad length", "timeout", "reset"}]

ReaderTyped ==
    /\ r \in ReaderFields
    /\ ReaderOut
    /\ r.off <= r.len /\ Len(r.body) <= r.len

WriterFits == w \in WriterFields /\ WriterOut

CountersTyped == paired \in BOOLEAN /\ calls \in 0 .. MaxCalls /\ resets \in 0 .. MaxResets

LEMMA TypeParts ==
    TypeOK <=> /\ RegistersTyped
               /\ writer \in Ends /\ packet \in Packets
               /\ WriterFits /\ ReaderTyped
               /\ CountersTyped
BY DEF TypeOK, RegistersTyped, CountersTyped, WriterFits, WriterOut, WriterFields, ReaderTyped,
       ReaderOut, ReaderFields, L

LEMMA TypePartsAfter ==
    ASSUME RegistersTyped', writer' \in Ends, packet' \in Packets, WriterFits', ReaderTyped',
           CountersTyped'
    PROVE  TypeOK'
BY DEF TypeOK, RegistersTyped, CountersTyped, WriterFits, WriterOut, WriterFields, ReaderTyped,
       ReaderOut, ReaderFields, L

(* A step of the writer leaves the types as they are if its own state and  *)
(* the registers have theirs, and a step of the reader likewise.           *)
LEMMA WriterStepTyped ==
    ASSUME TypeOK, RegistersTyped', UNCHANGED <<writer, packet, r, paired, calls, resets>>,
           w' \in WriterFields, WriterOut'
    PROVE  TypeOK'
<1>1. /\ writer \in Ends /\ packet \in Packets /\ ReaderTyped /\ CountersTyped
  BY TypeParts
<1>2. WriterFits'
  BY DEF WriterFits, WriterFields, L
<1>3. ReaderTyped'
  BY <1>1 DEF ReaderTyped, ReaderOut
<1> QED
  BY <1>1, <1>2, <1>3, TypePartsAfter DEF CountersTyped

LEMMA ReaderStepTyped ==
    ASSUME TypeOK, RegistersTyped', UNCHANGED <<writer, packet, w, paired, calls, resets>>,
           ReaderTyped'
    PROVE  TypeOK'
<1>1. /\ writer \in Ends /\ packet \in Packets /\ WriterFits /\ CountersTyped
  BY TypeParts
<1>2. WriterFits'
  BY <1>1 DEF WriterFits, WriterFields, L, WriterOut
<1> QED
  BY <1>1, <1>2, TypePartsAfter DEF CountersTyped

(* How far the writer is.                                                  *)
LEMMA SentIs ==
    ASSUME TypeOK, WriterInv
    PROVE  /\ Sent \in 0 .. 4 + w.off /\ Sent <= 4 + L
           /\ Len(w.out) \in Nat
           /\ w.out # <<>> => Sent < 4 + w.off
           /\ w.out = <<>> => Sent = 4 + w.off
<1>1. w.off \in 0 .. L /\ L \in Nat /\ w.out \in Seq(Byte)
  BY WriterTyped DEF WriterFields
<1>2. Len(w.out) \in Nat /\ (w.out # <<>> => Len(w.out) >= 1) /\ (w.out = <<>> => Len(w.out) = 0)
  BY <1>1
<1> QED
  BY <1>1, <1>2, SMTT(60) DEF WriterInv, Sent

(* A byte of the chunk is put on the wire: the next of the stream.         *)
LEMMA WriteByteIs ==
    ASSUME TypeOK, WriterInv, WriteByte
    PROVE  /\ TypeOK' /\ WriterInv'
           /\ UNCHANGED <<writer, packet, r, paired>>
           /\ Sent' = Sent + 1 /\ Sent < 4 + L
           /\ w.pc = "write" /\ w'.off \in w.off .. L
           /\ rx'[writer] = rx[writer]
           /\ rx'[reader] = rx[reader] \/ rx'[reader] = StreamByte(Sent + 1)
           /\ NeedsAck => \/ w'.pc = "write" /\ w'.off = w.off
                          \/ w'.pc = "ack" /\ w'.k = 0 /\ w'.off = w.off
<1>1. /\ w \in WriterFields /\ w.pc = "write" /\ w.out # <<>> /\ w.out \in Seq(Byte)
      /\ packet \in Packets /\ packet.body \in Seq(Byte) /\ L \in Nat /\ L = Len(packet.body)
      /\ w.off \in 0 .. L
      /\ UNCHANGED <<writer, packet, r, paired, calls, resets>>
  BY WriterTyped DEF WriterFields, WriterOut, WriteByte
<1>2. /\ Tail(w.out) \in Seq(Byte) /\ Len(w.out) \in Nat /\ Len(w.out) >= 1
      /\ Len(Tail(w.out)) = Len(w.out) - 1
      /\ \A i \in 1 .. Len(w.out) - 1 : Tail(w.out)[i] = w.out[i + 1]
      /\ Head(w.out) = w.out[1] /\ Head(w.out) \in Byte
  BY <1>1, TailIs
<1>3. Head(w.out) = StreamByte(Sent + 1)
  BY <1>1, <1>2 DEF WriterInv
<1>4. Sent \in 0 .. 3 + w.off /\ Sent < 4 + L /\ Sent = 4 + w.off - Len(w.out)
  BY <1>1, SentIs, SMTT(60) DEF Sent
<1>5. /\ RegistersTyped' /\ rx'[writer] = rx[writer]
      /\ rx'[reader] = rx[reader] \/ rx'[reader] = Head(w.out)
  BY <1>2, TypeParts, TransmitIs, TwoEnds DEF RegistersTyped, WriteByte
<1>6. \A i : StreamByte(i)' = StreamByte(i)
  BY <1>1 DEF StreamByte
<1>7. ASSUME NEW i \in Nat, i > 4
      PROVE  StreamByte(i) = packet.body[i - 4]
  BY <1>7 DEF StreamByte
<1>8. CASE Len(w.out) > 1
  <2>1. w' = [w EXCEPT !.out = Tail(@)]
    BY <1>8 DEF WriteByte
  <2>2. /\ w'.out = Tail(w.out) /\ w'.off = w.off /\ w'.pc = "write"
        /\ w' \in WriterFields
    BY <1>1, <1>2, <2>1 DEF WriterFields
  <2>3. Sent' = Sent + 1 /\ Len(w'.out) = Len(w.out) - 1 /\ w'.out # <<>>
    <3>1. Len(w'.out) = Len(w.out) - 1
      BY <1>2, <2>2
    <3>2. w'.out # <<>>
      BY <1>2, <1>8, <3>1, EmptyIs
    <3>3. Sent' = 4 + w.off - (Len(w.out) - 1)
      BY <2>2, <3>1 DEF Sent
    <3> QED
      BY <1>1, <1>2, <1>4, <3>1, <3>2, <3>3, SMTT(60)
  <2>4. ASSUME NEW i \in 1 .. Len(w.out) - 1
        PROVE  Tail(w.out)[i] = StreamByte(Sent + 1 + i)
    <3>1. i + 1 \in 1 .. Len(w.out) /\ Sent + (i + 1) = Sent + 1 + i
      BY <1>2, <1>4, SMTT(60)
    <3> QED
      BY <1>2, <3>1 DEF WriterInv
  <2>5. WriterInv'
    BY <1>4, <1>6, <2>2, <2>3, <2>4 DEF WriterInv
  <2>6. TypeOK'
    BY <1>1, <1>5, <2>2, <2>3, WriterStepTyped DEF WriterOut
  <2> QED
    BY <1>1, <1>3, <1>4, <1>5, <1>6, <2>2, <2>3, <2>5, <2>6, SMTT(60)
<1>9. CASE Len(w.out) = 1 /\ NeedsAck
  <2>1. w' = [w EXCEPT !.pc = "ack", !.out = <<>>, !.k = 0]
    BY <1>9 DEF ChunkWritten, WriteByte
  <2>2. /\ w'.out = <<>> /\ w'.off = w.off /\ w'.pc = "ack" /\ w'.k = 0
        /\ w' \in WriterFields
    <3>1. w'.out = <<>> /\ w'.off = w.off /\ w'.pc = "ack" /\ w'.k = 0
      BY <1>1, <2>1 DEF WriterFields
    <3>2. <<>> \in Seq(Byte) /\ 0 \in 0 .. 3
      BY EmptyIs
    <3>3. w' \in WriterFields
      BY <1>1, <2>1, <3>2 DEF WriterFields
    <3> QED
      BY <3>1, <3>3
  <2>3. Sent' = Sent + 1 /\ Len(w'.out) = 0
    BY <1>1, <1>4, <1>9, <2>2, EmptyIs DEF Sent
  <2>4. WriterInv'
    BY <1>4, <2>3 DEF WriterInv
  <2>5. TypeOK'
    BY <1>1, <1>5, <2>2, WriterStepTyped DEF WriterOut
  <2> QED
    BY <1>1, <1>3, <1>4, <1>5, <1>6, <2>2, <2>3, <2>4, <2>5
<1>10. CASE Len(w.out) = 1 /\ ~ NeedsAck
  <2>1. w' = NextChunk
    BY <1>10 DEF ChunkWritten, WriteByte
  <2>2. /\ w' \in WriterFields /\ WriterOut'
        /\ w'.off = w.off \/ w'.off > w.off
        /\ Len(w'.out) = w'.off - w.off
        /\ \A i \in 1 .. Len(w'.out) : w'.out[i] = packet.body[w.off + i]
    BY <1>1, <2>1, ChunkFollows
  <2>7. w'.off \in w.off .. L
    <3>1. w'.off \in 0 .. L
      BY <2>2 DEF WriterFields
    <3> QED
      BY <1>1, <2>2, <3>1
  <2>3. Sent' = 4 + w.off /\ Sent + 1 = 4 + w.off
    BY <1>1, <1>4, <1>10, <2>2, <2>7, SMTT(30) DEF Sent
  <2>4. ASSUME NEW i \in 1 .. Len(w'.out)
        PROVE  w'.out[i] = StreamByte(4 + w.off + i)
    <3>1. /\ 4 + w.off + i \in Nat /\ 4 + w.off + i > 4
          /\ (4 + w.off + i) - 4 = w.off + i
      BY <1>1, <2>2, SMTT(60)
    <3> QED
      BY <1>7, <2>2, <3>1
  <2>5. WriterInv'
    BY <1>1, <1>6, <2>3, <2>4 DEF WriterInv
  <2>6. TypeOK'
    BY <1>1, <1>5, <2>2, WriterStepTyped
  <2> QED
    BY <1>1, <1>3, <1>4, <1>5, <1>10, <2>2, <2>3, <2>5, <2>6, <2>7
<1>11. Len(w.out) = 1 \/ Len(w.out) > 1
  <2>1. Len(w.out) \in Nat /\ Len(w.out) >= 1
    BY <1>2
  <2>2. \A n \in Nat : n >= 1 => n = 1 \/ n > 1
    OBVIOUS
  <2> QED
    BY <2>1, <2>2
<1> QED
  BY <1>8, <1>9, <1>10, <1>11

(* The writer's own state after it has given up.                           *)
LEMMA EndWriteIs ==
    ASSUME TypeOK, NEW rc \in {"no ack", "timeout"}, w' = EndWrite(rc)
    PROVE  /\ w' \in WriterFields /\ WriterOut'
           /\ w'.pc = "done" /\ w'.out = <<>> /\ w'.off = w.off /\ w'.result = rc
<1>1. w \in WriterFields /\ <<>> \in Seq(Byte)
  BY WriterTyped, EmptyIs
<1>2. w' = [w EXCEPT !.pc = "done", !.out = <<>>, !.result = rc]
  BY DEF EndWrite
<1>3. w'.pc = "done" /\ w'.out = <<>> /\ w'.off = w.off /\ w'.result = rc
  BY <1>1, <1>2 DEF WriterFields
<1>4. w' \in WriterFields
  BY <1>1, <1>2 DEF WriterFields
<1> QED
  BY <1>3, <1>4 DEF WriterOut

(* With the chunk written, Sent and the stream stay as they are.           *)
LEMMA WriterWaiting ==
    ASSUME TypeOK, WriterInv, w.pc = "ack", packet' = packet,
           w'.out = <<>>, w'.off = w.off
    PROVE  WriterInv' /\ Sent' = Sent
<1>1. w.out = <<>> /\ w.off \in Nat
  BY WriterTyped DEF WriterOut
<1>2. Sent' = Sent /\ Len(w'.out) = 0
  BY <1>1, EmptyIs DEF Sent
<1> QED
  BY <1>1, <1>2 DEF WriterInv

(* A byte of an ACK is read, or what the writer takes for one.             *)
LEMMA AwaitAckIs ==
    ASSUME TypeOK, WriterInv, await_ack
    PROVE  /\ TypeOK' /\ WriterInv'
           /\ UNCHANGED <<writer, packet, r, paired>>
           /\ Sent' = Sent
           /\ w.pc = "ack" /\ rx'[reader] = rx[reader]
           /\ rx[writer] # Empty /\ rx'[writer] = Empty
           /\ \/ w'.pc = "done" /\ w'.result = "no ack" /\ w'.off = w.off
              \/ /\ w'.pc = "ack" /\ w'.off = w.off
                 /\ w.k < 3 /\ w'.k = w.k + 1
                 /\ w.k = 1 => rx[writer] = ACK_MSG
              \/ /\ w.k = 3
                 /\ \/ w'.pc = "done" /\ w.off = L /\ w'.off = L
                    \/ w'.pc = "write" /\ w'.off = BlockEnd(w.off, L) /\ w'.off > w.off
<1>1. /\ w \in WriterFields /\ w.pc = "ack" /\ w.out = <<>> /\ w.k \in 0 .. 3
      /\ w.off \in 0 .. L /\ L \in Nat
      /\ UNCHANGED <<writer, packet, r, paired, calls, resets>>
  BY WriterTyped DEF WriterFields, await_ack, WriterWaits, WriterOut
<1>2. /\ RegistersTyped' /\ rx'[reader] = rx[reader]
      /\ rx[writer] # Empty /\ rx'[writer] = Empty
  BY TypeParts, ArrivesIs, TwoEnds DEF RegistersTyped, await_ack, Arrives
<1>3. CASE w' = EndWrite("no ack")
  <2>1. /\ w' \in WriterFields /\ WriterOut'
        /\ w'.pc = "done" /\ w'.out = <<>> /\ w'.off = w.off /\ w'.result = "no ack"
    BY <1>3, EndWriteIs
  <2> QED
    BY <1>1, <1>2, <2>1, WriterWaiting, WriterStepTyped
<1>4. CASE /\ w' = [w EXCEPT !.k = @ + 1] /\ w.k < 3
           /\ w.k = 1 => rx[writer] = ACK_MSG
  <2>1. /\ w' \in WriterFields
        /\ w'.pc = "ack" /\ w'.out = <<>> /\ w'.off = w.off /\ w'.k = w.k + 1
    <3>1. w.k + 1 \in 0 .. 3
      BY <1>1, <1>4
    <3> QED
      BY <1>1, <1>4, <3>1 DEF WriterFields
  <2> QED
    BY <1>1, <1>2, <1>4, <2>1, WriterWaiting, WriterStepTyped DEF WriterOut
<1>5. CASE w' = NextChunk /\ w.k = 3
  <2>1. /\ w' \in WriterFields /\ WriterOut'
        /\ \/ w.off = L /\ w'.off = L /\ w'.pc = "done" /\ w'.result = "ok"
              /\ w'.out = <<>>
           \/ w.off < L /\ w'.off = BlockEnd(w.off, L) /\ w'.off > w.off /\ w'.pc = "write"
        /\ Len(w'.out) = w'.off - w.off
        /\ \A i \in 1 .. Len(w'.out) : w'.out[i] = packet.body[w.off + i]
    BY <1>5, ChunkFollows
  <2>2. TypeOK'
    BY <1>1, <1>2, <2>1, WriterStepTyped
  <2>3. w'.off \in 0 .. L
    BY <2>1 DEF WriterFields
  <2>4. Sent' = 4 + w.off /\ Sent = 4 + w.off
    BY <1>1, <2>1, <2>3, EmptyIs DEF Sent
  <2>5. ASSUME NEW i \in 1 .. Len(w'.out)
        PROVE  w'.out[i] = StreamByte(4 + w.off + i)
    <3>1. /\ 4 + w.off + i \in Nat /\ 4 + w.off + i > 4
          /\ (4 + w.off + i) - 4 = w.off + i
      BY <1>1, <2>1, <2>3, SMTT(60)
    <3>2. StreamByte(4 + w.off + i) = packet.body[w.off + i]
      BY <3>1 DEF StreamByte
    <3> QED
      BY <2>1, <3>2
  <2>6. WriterInv'
    <3>1. \A i : StreamByte(i)' = StreamByte(i)
      BY <1>1 DEF StreamByte
    <3> QED
      BY <1>1, <2>4, <2>5, <3>1 DEF WriterInv
  <2> QED
    BY <1>1, <1>2, <1>5, <2>1, <2>2, <2>4, <2>6
<1>6. w.k < 3 \/ w.k = 3
  BY <1>1
<1> QED
  BY <1>3, <1>4, <1>5, <1>6 DEF await_ack

(* The wait for an ACK ends without one.                                   *)
LEMMA AckTimesOutIs ==
    ASSUME TypeOK, WriterInv, AckTimesOut
    PROVE  /\ TypeOK' /\ WriterInv'
           /\ UNCHANGED <<rx, writer, packet, r, paired>>
           /\ Sent' = Sent
           /\ w'.pc = "done" /\ w'.result = "timeout" /\ w'.off = w.off
<1>1. w.pc = "ack" /\ UNCHANGED <<rx, writer, packet, r, paired, calls, noise, resets>>
  BY DEF AckTimesOut, WriterWaits
<1>2. /\ w' \in WriterFields /\ WriterOut'
      /\ w'.pc = "done" /\ w'.out = <<>> /\ w'.off = w.off /\ w'.result = "timeout"
  BY EndWriteIs DEF AckTimesOut
<1>3. RegistersTyped'
  BY <1>1, TypeParts DEF RegistersTyped
<1> QED
  BY <1>1, <1>2, <1>3, WriterWaiting, WriterStepTyped

(* What the packet and the ends determine stays with them.                 *)
LEMMA StreamFixed ==
    ASSUME UNCHANGED <<writer, packet>>
    PROVE  /\ \A i : StreamByte(i)' = StreamByte(i)
           /\ L' = L /\ reader' = reader
           /\ NeedsAck' <=> NeedsAck
BY DEF StreamByte, L, reader, Other, NeedsAck

(* A step of the writer leaves the reader's bytes where they are, and so   *)
(* does the loss of the one that waits.                                    *)
LEMMA WriterKeepsReader ==
    ASSUME TypeOK, WriterInv, ReaderShape, ReaderInv, UNCHANGED <<writer, packet, r, paired>>,
           \/ Sent' = Sent /\ rx'[reader] \in {rx[reader], Empty}
           \/ /\ Sent' = Sent + 1 /\ Sent < 4 + L
              /\ rx'[reader] = rx[reader] \/ rx'[reader] = StreamByte(Sent + 1)
    PROVE  ReaderShape' /\ ReaderInv'
<1>1. ReaderShape'
  BY DEF ReaderShape
<1>2. /\ \A i : StreamByte(i)' = StreamByte(i)
      /\ L' = L /\ reader' = reader
      /\ NeedsAck' <=> NeedsAck
  BY StreamFixed
<1>3. Sent \in Nat /\ Sent' \in Nat /\ Sent' >= Sent
  <2>1. w.off \in Nat /\ Sent \in 0 .. 4 + w.off
    BY SentIs, WriterTyped
  <2> QED
    BY <2>1
<1>4. ASSUME paired, r'.pc \in {"cmd", "lo", "hi", "ack", "body"}
      PROVE  \E p \in 0 .. Sent' : ReadUpTo(p)'
  <2>1. PICK p \in 0 .. Sent : ReadUpTo(p)
    BY <1>4 DEF ReaderInv
  <2>2. p \in 0 .. Sent'
    BY <1>3, <2>1
  <2>3. rx'[reader] = Empty \/ \E q \in p + 1 .. Sent' : rx'[reader] = StreamByte(q)
    <3>1. CASE rx'[reader] = rx[reader]
      BY <1>3, <2>1, <3>1 DEF ReadUpTo
    <3>2. CASE Sent' = Sent + 1 /\ rx'[reader] = StreamByte(Sent + 1)
      <4>1. Sent + 1 \in p + 1 .. Sent'
        BY <1>3, <2>1, <3>2
      <4> QED
        BY <3>2, <4>1
    <3>3. CASE rx'[reader] = Empty
      BY <3>3
    <3> QED
      BY <3>1, <3>2, <3>3
  <2>4. ReadUpTo(p)'
    BY <1>2, <2>1, <2>3 DEF ReadUpTo, RightHeader
  <2> QED
    BY <2>2, <2>4
<1>5. ASSUME paired, r'.pc = "done", r'.result = "ok", r'.cmd # MSG_MAGIC
      PROVE  (TookPacket /\ rx[reader] = Empty /\ Sent = 4 + L)'
  <2>1. TookPacket /\ rx[reader] = Empty /\ Sent = 4 + L
    BY <1>5 DEF ReaderInv
  <2>2. Sent' = Sent /\ rx'[reader] = rx[reader]
    <3>1. ~ (Sent < 4 + L)
      BY <1>3, <2>1, WriterTyped
    <3> QED
      BY <2>1, <3>1
  <2> QED
    BY <1>2, <2>1, <2>2 DEF TookPacket
<1> QED
  BY <1>1, <1>4, <1>5 DEF ReaderInv

(* How much of an ACK the reader can have written.                         *)
LEMMA AckedIs ==
    ASSUME TypeOK, ReaderShape
    PROVE  /\ Acked \in 0 .. 4
           /\ Acked = 4 => r.out = <<>> /\ r.pc # "ack" /\ r.len > 0 /\ Len(r.body) = w.off
           /\ r.pc = "ack" => Len(r.out) \in 1 .. 4
<1>1. CASE r.out # <<>>
  <2>1. r.out \in Seq(Byte) /\ r.out # <<>> /\ Len(r.out) <= 4
    BY <1>1, TypeParts DEF ReaderTyped, ReaderFields, ReaderShape
  <2>2. Len(r.out) \in Nat /\ Len(r.out) >= 1
    BY <2>1
  <2>3. \A n \in Nat : n >= 1 /\ n <= 4 => n \in 1 .. 4 /\ 4 - n \in 0 .. 3
    OBVIOUS
  <2>4. Acked = 4 - Len(r.out)
    BY <1>1 DEF Acked
  <2>5. Acked \in 0 .. 3 /\ Len(r.out) \in 1 .. 4
    BY <2>1, <2>2, <2>3, <2>4
  <2>6. Acked \in 0 .. 4 /\ Acked # 4
    BY <2>5
  <2> QED
    BY <1>1, <2>5, <2>6
<1>2. CASE r.out = <<>>
  BY <1>2, TypeParts DEF Acked, ReaderTyped, ReaderOut
<1> QED
  BY <1>1, <1>2

(* A byte of the chunk does not concern the ACKs.                          *)
LEMMA WriteByteKeepsAcks ==
    ASSUME TypeOK, WriterInv, ReaderShape, AckInv, WriteByte
    PROVE  AckInv'
<1>1. /\ UNCHANGED <<writer, packet, r, paired>> /\ w.pc = "write" /\ rx'[writer] = rx[writer]
      /\ NeedsAck => \/ w'.pc = "write" /\ w'.off = w.off
                     \/ w'.pc = "ack" /\ w'.k = 0 /\ w'.off = w.off
  BY WriteByteIs
<1>2. L' = L /\ (NeedsAck' <=> NeedsAck)
  BY <1>1, StreamFixed
<1>3. SUFFICES ASSUME paired, NeedsAck, r.cmd # MSG_MAGIC
               PROVE  AckInv'
  BY <1>1, <1>2 DEF AckInv
<1>4. /\ IF r.len = 0 THEN w.off = 0 ELSE RightHeader
      /\ r.out = <<>> /\ (r.pc = "body" => w.off = r.off)
      /\ Acked = 0
  BY <1>1, <1>3 DEF AckInv
<1>5. w'.off = w.off /\ Acked' = 0 /\ (RightHeader' <=> RightHeader)
  BY <1>1, <1>2, <1>3, <1>4 DEF Acked, RightHeader
<1>6. w'.pc = "ack" => AckReadUpTo(0)'
  BY <1>1, <1>3 DEF AckReadUpTo
<1> QED
  BY <1>1, <1>2, <1>3, <1>4, <1>5, <1>6 DEF AckInv

(* The third byte of an ACK cannot be had before the reader has written    *)
(* it, and the fourth one ends the ACK.                                    *)
LEMMA AwaitAckKeepsAcks ==
    ASSUME TypeOK, WriterInv, ReaderShape, AckInv, await_ack
    PROVE  AckInv'
<1>1. /\ UNCHANGED <<writer, packet, r, paired>> /\ w.pc = "ack"
      /\ rx[writer] # Empty /\ rx'[writer] = Empty
      /\ \/ w'.pc = "done" /\ w'.result = "no ack" /\ w'.off = w.off
         \/ /\ w'.pc = "ack" /\ w'.off = w.off
            /\ w.k < 3 /\ w'.k = w.k + 1
            /\ w.k = 1 => rx[writer] = ACK_MSG
         \/ /\ w.k = 3
            /\ \/ w'.pc = "done" /\ w.off = L /\ w'.off = L
               \/ w'.pc = "write" /\ w'.off = BlockEnd(w.off, L) /\ w'.off > w.off
  BY AwaitAckIs
<1>2. L' = L /\ (NeedsAck' <=> NeedsAck)
  BY <1>1, StreamFixed
<1>3. SUFFICES ASSUME paired, NeedsAck, r.cmd # MSG_MAGIC
               PROVE  AckInv'
  BY <1>1, <1>2 DEF AckInv
<1>4. /\ IF r.len = 0 THEN w.off = 0 ELSE RightHeader
      /\ r.out # <<>> => Len(r.body) = w.off
      /\ r.pc = "body" =>
            \/ w.off = r.off
            \/ Len(r.body) = w.off /\ r.off = BlockEnd(w.off, L)
  BY <1>3 DEF AckInv
<1>5. PICK q \in 0 .. Acked : AckReadUpTo(q)
  BY <1>1, <1>3 DEF AckInv
<1>6. RightHeader' <=> RightHeader
  BY <1>1, <1>2 DEF RightHeader
<1>7. writer' = writer /\ Acked \in 0 .. 4 /\ w.k \in 0 .. 3
  BY <1>1, AckedIs, WriterTyped DEF WriterFields
<1>8. w.k >= 1 => \E i \in q + 1 .. Acked : rx[writer] = Ack[i]
  BY <1>1, <1>5 DEF AckReadUpTo
<1>9. CASE w'.pc = "done" /\ w'.result = "no ack" /\ w'.off = w.off
  BY <1>1, <1>2, <1>4, <1>6, <1>9 DEF AckInv
<1>10. CASE /\ w'.pc = "ack" /\ w'.off = w.off
            /\ w.k < 3 /\ w'.k = w.k + 1
            /\ w.k = 1 => rx[writer] = ACK_MSG
  <2>1. Acked' = Acked
    BY <1>1, <1>10 DEF Acked
  <2>2. \E i \in 0 .. Acked : w'.k >= 2 => i >= w'.k
    <3>1. CASE w.k = 0
      BY <1>7, <1>10, <3>1
    <3>2. CASE w.k >= 1
      <4>1. PICK i \in q + 1 .. Acked : rx[writer] = Ack[i]
        BY <1>8, <3>2
      <4>2. i >= w.k + 1
        <5>1. CASE w.k = 1
          <6>1. i # 1
            BY <1>10, <4>1, <5>1, AckIs DEF MSG_MAGIC, ACK_MSG
          <6> QED
            BY <1>5, <1>7, <4>1, <5>1, <6>1
        <5>2. CASE w.k >= 2
          BY <1>5, <1>7, <4>1, <5>2 DEF AckReadUpTo
        <5> QED
          BY <1>7, <3>2, <5>1, <5>2
      <4> QED
        BY <1>5, <1>7, <1>10, <4>1, <4>2
    <3> QED
      BY <1>7, <3>1, <3>2
  <2>3. PICK i \in 0 .. Acked : w'.k >= 2 => i >= w'.k
    BY <2>2
  <2>4. AckReadUpTo(i)'
    BY <1>1, <2>3 DEF AckReadUpTo
  <2>5. \E j \in 0 .. Acked' : AckReadUpTo(j)'
    BY <2>1, <2>3, <2>4
  <2> QED
    BY <1>1, <1>2, <1>4, <1>6, <1>10, <2>5 DEF AckInv
<1>11. CASE /\ w.k = 3
            /\ \/ w'.pc = "done" /\ w.off = L /\ w'.off = L
               \/ w'.pc = "write" /\ w'.off = BlockEnd(w.off, L) /\ w'.off > w.off
  <2>1. Acked = 4
    <3>1. q >= 3
      BY <1>5, <1>11 DEF AckReadUpTo
    <3>2. PICK i \in q + 1 .. Acked : TRUE
      BY <1>8, <1>11
    <3> QED
      BY <1>5, <1>7, <3>1, <3>2
  <2>2. r.out = <<>> /\ r.pc # "ack" /\ r.len > 0 /\ Len(r.body) = w.off
    BY <2>1, AckedIs
  <2>3. RightHeader
    BY <1>4, <2>2
  <2>4. r.pc = "body" => Len(r.body) < r.off
    BY DEF ReaderShape
  <2>5. r.pc = "body" => r.off = BlockEnd(w.off, L) /\ w.off < r.off
    <3>1. w.off \in Nat
      BY WriterTyped
    <3> QED
      BY <1>4, <2>2, <2>4, <3>1
  <2>6. CASE w'.pc = "done" /\ w.off = L /\ w'.off = L
    <3>1. r.pc # "body"
      <4>1. L \in Nat
        BY WriterTyped
      <4>2. BlockEnd(L, L) \in L .. L
        BY <4>1, BlockEndIs
      <4>3. ~ (L < BlockEnd(L, L))
        BY <4>1, <4>2
      <4> QED
        BY <2>5, <2>6, <4>3
    <3>2. r.pc = "done"
      <4>1. r.pc \in {"sync", "cmd", "lo", "hi", "skip", "ack", "body", "done"}
        BY TypeParts DEF ReaderTyped, ReaderFields
      <4>2. r.pc \notin {"sync", "cmd", "lo", "hi", "skip"}
        BY <2>2 DEF ReaderShape
      <4> QED
        BY <2>2, <3>1, <4>1, <4>2
    <3>3. r.result = "ok"
      BY <2>2, <2>3, <2>6, <3>2 DEF ReaderShape, RightHeader
    <3> QED
      BY <1>1, <1>2, <1>6, <2>2, <2>3, <2>6, <3>2, <3>3 DEF AckInv
  <2>7. CASE w'.pc = "write" /\ w'.off = BlockEnd(w.off, L) /\ w'.off > w.off
    <3>1. Len(r.body) # w'.off
      BY <2>2, <2>7, WriterTyped, BlockEndIs, SMTT(60)
    <3>2. Acked' = 0
      BY <1>1, <2>2, <3>1 DEF Acked
    <3> QED
      BY <1>1, <1>2, <1>6, <2>2, <2>3, <2>5, <2>7, <3>2 DEF AckInv
  <2> QED
    BY <1>11, <2>6, <2>7
<1> QED
  BY <1>1, <1>9, <1>10, <1>11

(* The ACKs stay as they are while nothing of the packet is written, read  *)
(* or acknowledged: an end may stop, and a byte of an ACK may be lost.     *)
LEMMA AcksKept ==
    ASSUME AckInv, UNCHANGED <<writer, packet, paired>>,
           r'.out = r.out, r'.cmd = r.cmd, r'.len = r.len, r'.off = r.off, r'.body = r.body,
           w'.off = w.off, w'.k = w.k,
           \/ r'.pc = r.pc /\ r'.result = r.result
           \/ r.pc # "done" /\ r'.pc # "body",
           \/ w'.pc = w.pc /\ w'.result = w.result
           \/ w'.pc = "done" /\ w'.result # "ok",
           rx'[writer] \in {rx[writer], Empty}
    PROVE  AckInv'
<1>1. /\ L' = L /\ (NeedsAck' <=> NeedsAck) /\ (RightHeader' <=> RightHeader)
      /\ Acked' = Acked
  BY StreamFixed DEF RightHeader, Acked
<1>2. SUFFICES ASSUME paired, NeedsAck, r.cmd # MSG_MAGIC
               PROVE  AckInv'
  BY <1>1 DEF AckInv
<1>3. ASSUME NEW q, AckReadUpTo(q)
      PROVE  AckReadUpTo(q)'
  BY <1>1, <1>3 DEF AckReadUpTo
<1>4. w'.pc = "ack" => \E q \in 0 .. Acked' : AckReadUpTo(q)'
  <2>1. SUFFICES ASSUME w'.pc = "ack"
                 PROVE  \E q \in 0 .. Acked : AckReadUpTo(q)'
    BY <1>1
  <2>2. PICK q \in 0 .. Acked : AckReadUpTo(q)
    BY <1>2, <2>1 DEF AckInv
  <2> QED
    BY <1>3, <2>2
<1>5. w'.pc = "done" /\ w'.result = "ok" =>
          r'.pc = "done" /\ r'.result = "ok" /\ rx'[writer] = Empty
  BY <1>2 DEF AckInv
<1>6. /\ IF r'.len = 0 THEN w'.off = 0 ELSE RightHeader'
      /\ r'.out # <<>> => Len(r'.body) = w'.off /\ w'.pc # "write"
      /\ w'.pc = "write" => Acked' = 0
  BY <1>1, <1>2 DEF AckInv
<1>7. r'.pc = "body" =>
          \/ w'.off = r'.off
          \/ Len(r'.body) = w'.off /\ r'.off = BlockEnd(w'.off, L') /\ w'.pc # "write"
  BY <1>1, <1>2 DEF AckInv
<1> QED
  BY <1>1, <1>4, <1>5, <1>6, <1>7 DEF AckInv

LEMMA AckTimesOutKeepsAcks ==
    ASSUME TypeOK, WriterInv, AckInv, AckTimesOut
    PROVE  AckInv'
<1>1. /\ UNCHANGED <<rx, writer, packet, r, paired>>
      /\ w'.pc = "done" /\ w'.result = "timeout" /\ w'.off = w.off
  BY AckTimesOutIs
<1>2. w' = [w EXCEPT !.pc = "done", !.out = <<>>, !.result = "timeout"]
  BY DEF AckTimesOut, EndWrite
<1>3. w'.k = w.k
  BY <1>2, WriterTyped DEF WriterFields
<1> QED
  BY <1>1, <1>3, AcksKept

-----------------------------------------------------------------------------
(* The steps of the reader.                                                *)

(* They leave the writer's bytes where they are.                           *)
LEMMA ReaderKeepsWriter ==
    ASSUME WriterInv, UNCHANGED <<writer, packet, w>>
    PROVE  WriterInv' /\ Sent' = Sent
<1>1. \A i : StreamByte(i)' = StreamByte(i)
  BY StreamFixed
<1>2. Sent' = Sent
  BY SMTT(30) DEF Sent
<1> QED
  BY <1>1, <1>2 DEF WriterInv

LEMMA ReaderParts ==
    ASSUME TypeOK
    PROVE  /\ r \in ReaderFields
           /\ r.len \in Nat /\ r.len \in Word /\ r.off \in Nat /\ r.off <= r.len
           /\ r.body \in Seq(Byte) /\ Len(r.body) \in Nat /\ Len(r.body) <= r.len
           /\ r.out \in Seq(Byte) /\ ReaderOut
           /\ r.cmd \in Byte /\ r.lo \in Byte
<1>1. r \in ReaderFields /\ ReaderTyped
  BY TypeParts DEF ReaderTyped
<1>2. r.len \in Word /\ r.off \in Word /\ r.body \in Seq(Byte) /\ r.out \in Seq(Byte)
      /\ r.cmd \in Byte /\ r.lo \in Byte
  BY <1>1 DEF ReaderFields
<1> QED
  BY <1>1, <1>2, WordIs DEF ReaderTyped

(* The reader's own state after it has ended.                              *)
LEMMA EndReadIs ==
    ASSUME TypeOK, NEW rc \in {"ok", "bad length", "timeout"}, r' = EndRead(rc)
    PROVE  /\ ReaderTyped'
           /\ r'.pc = "done" /\ r'.result = rc /\ r'.out = <<>>
           /\ r'.cmd = r.cmd /\ r'.len = r.len /\ r'.body = r.body
           /\ r'.off = r.off /\ r'.limit = r.limit
<1>1. r \in ReaderFields /\ <<>> \in Seq(Byte) /\ r.off <= r.len /\ Len(r.body) <= r.len
  BY ReaderParts, EmptyIs
<1>2. r' = [r EXCEPT !.pc = "done", !.out = <<>>, !.result = rc]
  BY DEF EndRead
<1>3. /\ r'.pc = "done" /\ r'.result = rc /\ r'.out = <<>>
      /\ r'.cmd = r.cmd /\ r'.len = r.len /\ r'.body = r.body
      /\ r'.off = r.off /\ r'.limit = r.limit
  BY <1>1, <1>2 DEF ReaderFields
<1>4. r' \in ReaderFields
  BY <1>1, <1>2, ZenonT(60) DEF ReaderFields
<1>5. ReaderTyped'
  BY <1>1, <1>3, <1>4 DEF ReaderTyped, ReaderFields, ReaderOut
<1> QED
  BY <1>3, <1>5

(* While the reader has not ended, write_packet has not returned MSG_OK    *)
(* for a packet that is ACKed.                                             *)
LEMMA NotYetOk ==
    ASSUME AckInv, paired, NeedsAck, r.cmd # MSG_MAGIC, r.pc # "done"
    PROVE  ~ (w.pc = "done" /\ w.result = "ok")
BY DEF AckInv

(* A call that stops without a packet.                                     *)
LEMMA ReaderStops ==
    ASSUME FramingInv, TypeOK', UNCHANGED <<writer, packet, w, paired>>, r.pc # "done",
           r'.pc = "done", r'.result \in {"timeout", "reset"}, r'.out = r.out,
           r'.cmd = r.cmd, r'.len = r.len, r'.off = r.off, r'.body = r.body,
           r'.limit = r.limit, rx'[writer] = rx[writer]
    PROVE  FramingInv'
<1>1. TypeOK /\ WriterInv /\ ReaderShape /\ AckInv
  BY DEF FramingInv
<1>2. WriterInv'
  BY <1>1, ReaderKeepsWriter
<1>3. ReaderShape'
  <2>1. r.pc = "body" => Len(r.body) # r.len
    BY <1>1, ReaderParts DEF ReaderShape
  <2>2. r.pc = "ack" => r.out # <<>>
    BY <1>1, ReaderParts DEF ReaderOut
  <2>3. r.pc \notin {"ack", "body"} => r.len = 0
    BY <1>1, ReaderParts DEF ReaderShape, ReaderFields
  <2>4. r'.len > 0 /\ Len(r'.body) = r'.len /\ r'.out = <<>> => FALSE
    BY <1>1, <2>1, <2>2, <2>3, ReaderParts
  <2> QED
    BY <1>1, <2>4 DEF ReaderShape
<1>4. ReaderInv'
  BY DEF ReaderInv
<1>5. AckInv'
  BY <1>1, AcksKept
<1> QED
  BY <1>2, <1>3, <1>4, <1>5 DEF FramingInv

(* Without the low byte of the length the high one is waited for.          *)
LEMMA SkipKeeps ==
    ASSUME FramingInv, r.pc = "lo", r' = [r EXCEPT !.pc = "skip"],
           UNCHANGED <<rx, writer, packet, w, paired, calls, noise, resets>>
    PROVE  FramingInv'
<1>1. TypeOK /\ WriterInv /\ ReaderShape /\ AckInv
  BY DEF FramingInv
<1>2. /\ r \in ReaderFields /\ r.off <= r.len /\ Len(r.body) <= r.len /\ r.out = <<>>
  BY <1>1, ReaderParts DEF ReaderOut
<1>3. /\ r'.pc = "skip" /\ r'.out = r.out /\ r'.cmd = r.cmd /\ r'.len = r.len
      /\ r'.off = r.off /\ r'.body = r.body /\ r'.result = r.result /\ r'.limit = r.limit
  BY <1>2 DEF ReaderFields
<1>4. r' \in ReaderFields
  BY <1>2 DEF ReaderFields
<1>5. ReaderTyped'
  BY <1>2, <1>3, <1>4 DEF ReaderTyped, ReaderFields, ReaderOut
<1>6. TypeOK' /\ WriterInv'
  <2>1. RegistersTyped'
    BY <1>1, TypeParts DEF RegistersTyped
  <2> QED
    BY <1>1, <1>5, <2>1, ReaderStepTyped, ReaderKeepsWriter
<1>7. ReaderShape' /\ ReaderInv'
  BY <1>1, <1>2, <1>3 DEF ReaderShape, ReaderInv
<1>8. AckInv'
  BY <1>1, <1>3, AcksKept
<1> QED
  BY <1>6, <1>7, <1>8 DEF FramingInv

(* A wait that ends without a byte.                                        *)
LEMMA ReadTimesOutKeeps ==
    ASSUME FramingInv, ReadTimesOut
    PROVE  FramingInv'
<1>1. /\ TypeOK
      /\ r.pc \in {"sync", "cmd", "lo", "hi", "skip", "body"}
      /\ UNCHANGED <<rx, writer, packet, w, paired, calls, noise, resets>>
  BY DEF FramingInv, ReadTimesOut, ReaderReads
<1>2. CASE r.pc = "lo"
  BY <1>1, <1>2, SkipKeeps DEF ReadTimesOut
<1>3. CASE r.pc # "lo"
  <2>1. /\ ReaderTyped'
        /\ r'.pc = "done" /\ r'.result = "timeout" /\ r'.out = <<>>
        /\ r'.cmd = r.cmd /\ r'.len = r.len /\ r'.body = r.body
        /\ r'.off = r.off /\ r'.limit = r.limit
    BY <1>1, <1>3, EndReadIs DEF ReadTimesOut
  <2>2. RegistersTyped' /\ r.out = <<>>
    BY <1>1, TypeParts, ReaderParts DEF RegistersTyped, ReaderOut
  <2>3. TypeOK'
    BY <1>1, <2>1, <2>2, ReaderStepTyped
  <2> QED
    BY <1>1, <2>1, <2>2, <2>3, ReaderStops
<1> QED
  BY <1>2, <1>3

(* The state of a call that has read nothing.                              *)
LEMMA ReaderIdleIs ==
    ASSUME NEW start \in {"sync", "done"}, NEW limit \in Limits \cup {0},
           r' = [pc |-> start, limit |-> limit, out |-> <<>>, cmd |-> 0, lo |-> 0,
                 len |-> 0, off |-> 0, body |-> <<>>, result |-> "none"]
    PROVE  /\ ReaderTyped' /\ ReaderShape'
           /\ r'.pc = start /\ r'.out = <<>> /\ r'.cmd = 0 /\ r'.len = 0
           /\ r'.off = 0 /\ r'.body = <<>> /\ r'.result = "none"
<1>1. /\ r'.pc = start /\ r'.out = <<>> /\ r'.cmd = 0 /\ r'.len = 0
      /\ r'.off = 0 /\ r'.body = <<>> /\ r'.result = "none"
  OBVIOUS
<1>2. 0 \in Byte /\ 0 \in Word /\ <<>> \in Seq(Byte) /\ 0 # MSG_MAGIC /\ Len(<<>>) = 0
  BY EmptyIs, ZeroIs DEF MSG_MAGIC
<1>3. r' \in ReaderFields
  BY <1>2 DEF ReaderFields
<1>4. ReaderTyped'
  <2>1. r'.off <= r'.len /\ Len(r'.body) <= r'.len
    BY <1>1, <1>2
  <2>2. ReaderOut'
    BY <1>1 DEF ReaderOut
  <2> QED
    BY <1>3, <2>1, <2>2 DEF ReaderTyped, ReaderFields
<1>5. ReaderShape'
  <2>1. ~ (r'.len > 0)
    BY <1>1
  <2> QED
    BY <1>1, <1>2, <2>1 DEF ReaderShape
<1> QED
  BY <1>1, <1>4, <1>5

(* A call begins: the packet is its own only if it is the first one.       *)
LEMMA StartReadKeeps ==
    ASSUME FramingInv, StartRead
    PROVE  FramingInv'
<1>1. /\ TypeOK /\ WriterInv /\ AckInv
      /\ calls < MaxCalls /\ calls' = calls + 1
      /\ paired' = (paired /\ r = ReaderIdle)
      /\ UNCHANGED <<rx, writer, packet, w, noise, resets>>
  BY DEF FramingInv, StartRead, BeginCall
<1>2. /\ ReaderTyped' /\ ReaderShape' /\ r'.pc = "sync" /\ r'.out = <<>> /\ r'.cmd = 0
      /\ r'.len = 0 /\ r'.off = 0 /\ r'.body = <<>> /\ r'.result = "none"
  <2>1. PICK limit \in Limits :
            r' = [pc |-> "sync", limit |-> limit, out |-> <<>>, cmd |-> 0, lo |-> 0,
                  len |-> 0, off |-> 0, body |-> <<>>, result |-> "none"]
    BY DEF StartRead, ReaderIdle
  <2> QED
    BY <2>1, ReaderIdleIs
<1>3. TypeOK'
  <2>1. /\ RegistersTyped /\ writer \in Ends /\ packet \in Packets /\ WriterFits
        /\ CountersTyped
    BY <1>1, TypeParts
  <2>2. RegistersTyped' /\ WriterFits'
    BY <1>1, <2>1 DEF RegistersTyped, WriterFits, WriterFields, WriterOut, L
  <2>3. CountersTyped'
    BY <1>1, <2>1, FramingAssumption DEF CountersTyped, FramingAssumption
  <2> QED
    BY <1>1, <1>2, <2>1, <2>2, <2>3, TypePartsAfter
<1>4. WriterInv'
  BY <1>1, ReaderKeepsWriter
<1>5. ReaderInv'
  BY <1>2 DEF ReaderInv
<1>6. AckInv'
  <2>1. SUFFICES ASSUME paired, r = ReaderIdle, NeedsAck
                 PROVE  AckInv'
    BY <1>1, StreamFixed DEF AckInv
  <2>2. /\ r.pc = "done" /\ r.out = <<>> /\ r.cmd = 0 /\ r.len = 0 /\ r.off = 0
        /\ r.body = <<>> /\ r.result = "none"
    BY <2>1 DEF ReaderIdle
  <2>3. 0 # MSG_MAGIC /\ ~ (0 > 0)
    BY DEF MSG_MAGIC
  <2>4. Acked = 0 /\ Acked' = 0
    BY <1>2, <2>2, <2>3 DEF Acked
  <2>5. ASSUME NEW q
        PROVE  AckReadUpTo(q)' <=> AckReadUpTo(q)
    BY <1>1, <2>4 DEF AckReadUpTo
  <2>6. w.pc = "ack" => \E q \in 0 .. Acked' : AckReadUpTo(q)'
    BY <1>1, <2>1, <2>2, <2>3, <2>4, <2>5 DEF AckInv
  <2>7. w.off = 0 /\ ~ (w.pc = "done" /\ w.result = "ok")
    BY <1>1, <2>1, <2>2, <2>3 DEF AckInv
  <2> QED
    BY <1>1, <1>2, <2>4, <2>6, <2>7 DEF AckInv
<1> QED
  BY <1>2, <1>3, <1>4, <1>5, <1>6 DEF FramingInv

(* A byte is read: what a step does to the registers, and where in the     *)
(* stream the byte comes from once the reader has a position there.        *)
LEMMA ReadByteIs ==
    ASSUME FramingInv, ReadByte
    PROVE  /\ TypeOK /\ WriterInv /\ ReaderShape /\ ReaderInv /\ AckInv
           /\ UNCHANGED <<writer, packet, w, paired, calls, resets>>
           /\ RegistersTyped' /\ WriterInv' /\ Sent' = Sent
           /\ rx'[writer] = rx[writer] /\ rx'[reader] = Empty
           /\ reader' = reader /\ L' = L /\ (NeedsAck' <=> NeedsAck)
           /\ rx[reader] \in Byte /\ Sent \in Nat
           /\ r.pc \in {"sync", "cmd", "lo", "hi", "skip", "body"}
           /\ paired /\ r.pc \notin {"sync", "skip"} =>
                 \E p, q \in 0 .. Sent :
                    p < q /\ ReadUpTo(p) /\ rx[reader] = StreamByte(q)
<1>1. /\ TypeOK /\ WriterInv /\ ReaderShape /\ ReaderInv /\ AckInv
      /\ UNCHANGED <<writer, packet, w, paired, calls, noise, resets>>
      /\ r.pc \in {"sync", "cmd", "lo", "hi", "skip", "body"} /\ Arrives(reader)
  BY DEF FramingInv, ReadByte, ReaderReads
<1>2. /\ RegistersTyped' /\ rx'[writer] = rx[writer]
      /\ rx[reader] \in Byte /\ rx[reader] # Empty /\ rx'[reader] = Empty
  BY <1>1, TypeParts, TwoEnds, ArrivesIs DEF RegistersTyped, Arrives
<1>3. /\ WriterInv' /\ Sent' = Sent
      /\ reader' = reader /\ L' = L /\ (NeedsAck' <=> NeedsAck)
  BY <1>1, ReaderKeepsWriter, StreamFixed
<1>4. Sent \in Nat
  <2>1. w.off \in Nat /\ Sent \in 0 .. 4 + w.off
    BY <1>1, SentIs, WriterTyped
  <2> QED
    BY <2>1
<1>5. ASSUME paired, r.pc \notin {"sync", "skip"}
      PROVE  \E p, q \in 0 .. Sent :
                p < q /\ ReadUpTo(p) /\ rx[reader] = StreamByte(q)
  <2>1. PICK p \in 0 .. Sent : ReadUpTo(p)
    BY <1>1, <1>5 DEF ReaderInv
  <2>2. PICK q \in p + 1 .. Sent : rx[reader] = StreamByte(q)
    BY <1>2, <2>1 DEF ReadUpTo
  <2>3. q \in 0 .. Sent /\ p < q
    BY <1>4, <2>1, <2>2
  <2> QED
    BY <2>1, <2>2, <2>3
<1> QED
  BY <1>1, <1>2, <1>3, <1>4, <1>5

(* Before the length is known the ACKs stay as they are.                   *)
LEMMA HeaderReadKeepsAcks ==
    ASSUME FramingInv, ReadByte, r.pc \in {"sync", "cmd", "lo"},
           r'.pc \in {"sync", "cmd", "lo", "hi"}, r'.len = r.len, r'.body = r.body,
           r'.out = <<>>
    PROVE  AckInv'
<1>1. /\ AckInv /\ UNCHANGED <<writer, packet, w>> /\ rx'[writer] = rx[writer]
      /\ L' = L /\ (NeedsAck' <=> NeedsAck)
      /\ paired' = paired
      /\ r.len = 0 /\ r.out = <<>>
      /\ r.pc \in {"sync", "cmd"} => r.cmd # MSG_MAGIC
      /\ r.pc = "lo" => r'.cmd = r.cmd
  <2>1. ReaderShape /\ r \in ReaderFields /\ r.out = <<>>
    BY ReaderParts DEF FramingInv, ReaderOut
  <2>2. r.pc = "lo" => r'.cmd = r.cmd
    BY <2>1 DEF ReadByte, ReaderFields
  <2> QED
    BY <2>1, <2>2, ReadByteIs DEF ReaderShape
<1>2. SUFFICES ASSUME paired, NeedsAck, r'.cmd # MSG_MAGIC
               PROVE  AckInv'
  BY <1>1 DEF AckInv
<1>3. r.cmd # MSG_MAGIC
  BY <1>1, <1>2
<1>4. Acked = 0 /\ Acked' = 0
  BY <1>1 DEF Acked
<1>5. ASSUME NEW q
      PROVE  AckReadUpTo(q)' <=> AckReadUpTo(q)
  BY <1>1, <1>4 DEF AckReadUpTo
<1> QED
  BY <1>1, <1>2, <1>3, <1>4, <1>5, NotYetOk DEF AckInv

(* Looking for the magic byte: what is found may be anything.              *)
LEMMA SyncByteKeeps ==
    ASSUME FramingInv, ReadByte, r.pc = "sync"
    PROVE  FramingInv'
<1>1. /\ TypeOK /\ ReaderShape /\ UNCHANGED <<writer, packet, w, paired, calls, resets>>
      /\ RegistersTyped' /\ WriterInv'
      /\ rx'[reader] = Empty /\ reader' = reader /\ Sent \in Nat /\ Sent' = Sent
  BY ReadByteIs
<1>2. r' = r \/ r' = [r EXCEPT !.pc = "cmd"]
  BY DEF ReadByte
<1>3. /\ r'.pc \in {"sync", "cmd"} /\ r'.len = r.len /\ r'.body = r.body
      /\ r'.result = r.result /\ r'.cmd = r.cmd /\ r'.out = <<>> /\ ReaderTyped'
  <2>1. r \in ReaderFields /\ r.off <= r.len /\ Len(r.body) <= r.len /\ r.out = <<>>
        /\ ReaderTyped
    BY <1>1, ReaderParts, TypeParts DEF ReaderOut
  <2>2. CASE r' = r
    BY <2>1, <2>2 DEF ReaderTyped, ReaderFields, ReaderOut
  <2>3. CASE r' = [r EXCEPT !.pc = "cmd"]
    <3>1. /\ r'.pc = "cmd" /\ r'.len = r.len /\ r'.body = r.body /\ r'.off = r.off
          /\ r'.out = r.out /\ r'.result = r.result /\ r'.cmd = r.cmd /\ r' \in ReaderFields
      BY <2>1, <2>3 DEF ReaderFields
    <3> QED
      BY <2>1, <3>1 DEF ReaderTyped, ReaderFields, ReaderOut
  <2> QED
    BY <1>2, <2>2, <2>3
<1>4. TypeOK'
  BY <1>1, <1>3, ReaderStepTyped
<1>5. r.len = 0 /\ r.body = <<>> /\ r.result = "none" /\ r.cmd # MSG_MAGIC
  BY <1>1 DEF ReaderShape
<1>6. ReaderShape'
  BY <1>3, <1>5 DEF ReaderShape
<1>7. ReaderInv'
  <2>1. 0 \in 0 .. Sent'
    BY <1>1
  <2>2. r'.pc = "cmd" => ReadUpTo(0)'
    BY <1>1 DEF ReadUpTo
  <2> QED
    BY <1>3, <1>5, <2>1, <2>2 DEF ReaderInv
<1>8. AckInv'
  BY <1>3, HeaderReadKeepsAcks
<1> QED
  BY <1>1, <1>4, <1>6, <1>7, <1>8 DEF FramingInv

(* The first bytes of the stream.                                          *)
LEMMA StreamIs ==
    ASSUME packet \in Packets
    PROVE  /\ StreamByte(1) = MSG_MAGIC /\ StreamByte(2) = packet.cmd
           /\ StreamByte(3) = L % 256 /\ StreamByte(4) = L \div 256
           /\ \A q \in Nat : q > 4 => StreamByte(q) = packet.body[q - 4]
BY HeaderIs DEF StreamByte

(* The command: the second byte of the stream, or a later one.  When it is *)
(* the first one, it reads as a command that does not exist.               *)
LEMMA CmdByteKeeps ==
    ASSUME FramingInv, ReadByte, r.pc = "cmd"
    PROVE  FramingInv'
<1>1. /\ TypeOK /\ ReaderShape /\ UNCHANGED <<writer, packet, w, paired, calls, resets>>
      /\ RegistersTyped' /\ WriterInv'
      /\ rx'[reader] = Empty /\ reader' = reader /\ Sent \in Nat /\ Sent' = Sent
      /\ rx[reader] \in Byte
  BY ReadByteIs
<1>2. r' = [r EXCEPT !.pc = "lo", !.cmd = rx[reader]]
  BY DEF ReadByte
<1>3. r \in ReaderFields /\ r.off <= r.len /\ Len(r.body) <= r.len /\ r.out = <<>>
  BY <1>1, ReaderParts DEF ReaderOut
<1>4. /\ r'.pc = "lo" /\ r'.len = r.len /\ r'.body = r.body /\ r'.off = r.off
      /\ r'.out = r.out /\ r'.result = r.result /\ r'.cmd = rx[reader]
  BY <1>2, <1>3 DEF ReaderFields
<1>5. r' \in ReaderFields
  BY <1>1, <1>2, <1>3 DEF ReaderFields
<1>6. ReaderTyped'
  BY <1>3, <1>4, <1>5 DEF ReaderTyped, ReaderFields, ReaderOut
<1>7. TypeOK'
  BY <1>1, <1>6, ReaderStepTyped
<1>8. r.len = 0 /\ r.body = <<>> /\ r.result = "none"
  BY <1>1 DEF ReaderShape
<1>9. ReaderShape'
  BY <1>3, <1>4, <1>8 DEF ReaderShape
<1>10. ReaderInv'
  <2> SUFFICES ASSUME paired
               PROVE  ReaderInv'
    BY <1>1 DEF ReaderInv
  <2>1. PICK p, q \in 0 .. Sent : p < q /\ rx[reader] = StreamByte(q)
    BY ReadByteIs
  <2>2. q \in 0 .. Sent /\ q >= 1
    BY <1>1, <2>1
  <2>3. packet \in Packets
    BY <1>1, TypeParts
  <2>4. rx[reader] # MSG_MAGIC => q >= 2 /\ (q = 2 => rx[reader] = packet.cmd)
    <3>1. q = 1 \/ q >= 2
      BY <1>1, <2>2
    <3> QED
      BY <2>1, <2>3, <3>1, StreamIs
  <2>5. ReadUpTo(q)'
    BY <1>1, <1>4, <2>4 DEF ReadUpTo
  <2> QED
    BY <1>1, <1>4, <2>2, <2>5 DEF ReaderInv
<1>11. AckInv'
  BY <1>3, <1>4, HeaderReadKeepsAcks
<1> QED
  BY <1>1, <1>7, <1>9, <1>10, <1>11 DEF FramingInv

(* The low byte of the length: the third byte, or a later one.             *)
LEMMA LoByteKeeps ==
    ASSUME FramingInv, ReadByte, r.pc = "lo"
    PROVE  FramingInv'
<1>1. /\ TypeOK /\ ReaderShape /\ UNCHANGED <<writer, packet, w, paired, calls, resets>>
      /\ RegistersTyped' /\ WriterInv'
      /\ rx'[reader] = Empty /\ reader' = reader /\ Sent \in Nat /\ Sent' = Sent
      /\ rx[reader] \in Byte /\ L' = L
  BY ReadByteIs
<1>2. r' = [r EXCEPT !.pc = "hi", !.lo = rx[reader]]
  BY DEF ReadByte
<1>3. r \in ReaderFields /\ r.off <= r.len /\ Len(r.body) <= r.len /\ r.out = <<>>
  BY <1>1, ReaderParts DEF ReaderOut
<1>4. /\ r'.pc = "hi" /\ r'.len = r.len /\ r'.body = r.body /\ r'.off = r.off
      /\ r'.out = r.out /\ r'.result = r.result /\ r'.cmd = r.cmd /\ r'.lo = rx[reader]
  BY <1>2, <1>3 DEF ReaderFields
<1>5. r' \in ReaderFields
  BY <1>1, <1>2, <1>3 DEF ReaderFields
<1>6. ReaderTyped'
  BY <1>3, <1>4, <1>5 DEF ReaderTyped, ReaderFields, ReaderOut
<1>7. TypeOK'
  BY <1>1, <1>6, ReaderStepTyped
<1>8. r.len = 0 /\ r.body = <<>> /\ r.result = "none"
  BY <1>1 DEF ReaderShape
<1>9. ReaderShape'
  BY <1>3, <1>4, <1>8 DEF ReaderShape
<1>10. ReaderInv'
  <2> SUFFICES ASSUME paired
               PROVE  ReaderInv'
    BY <1>1 DEF ReaderInv
  <2>1. PICK p, q \in 0 .. Sent : p < q /\ ReadUpTo(p) /\ rx[reader] = StreamByte(q)
    BY ReadByteIs
  <2>2. q \in 0 .. Sent /\ q > p /\ p \in Nat /\ q \in Nat
    BY <1>1, <2>1
  <2>3. packet \in Packets
    BY <1>1, TypeParts
  <2>4. r.cmd = MSG_MAGIC \/ (p >= 2 /\ (p = 2 => r.cmd = packet.cmd))
    BY <2>1 DEF ReadUpTo
  <2>5. r.cmd # MSG_MAGIC => q >= 3 /\ (q = 3 => r.cmd = packet.cmd /\ rx[reader] = L % 256)
    <3>1. p >= 2 => q >= 3 /\ (q = 3 => p = 2)
      BY <2>2
    <3> QED
      BY <2>1, <2>3, <2>4, <3>1, StreamIs
  <2>6. ReadUpTo(q)'
    BY <1>1, <1>4, <2>5 DEF ReadUpTo
  <2> QED
    BY <1>1, <1>4, <2>2, <2>6 DEF ReaderInv
<1>11. AckInv'
  BY <1>3, <1>4, HeaderReadKeepsAcks
<1> QED
  BY <1>1, <1>7, <1>9, <1>10, <1>11 DEF FramingInv

(* The high byte of the length: the fourth byte, or one of the body.  The  *)
(* latter cannot be when the packet is ACKed, as the body is not sent      *)
(* before the header's ACK; and it gives a length that no ERROR text has.  *)
LEMMA HiByteKeeps ==
    ASSUME FramingInv, ReadByte, r.pc = "hi"
    PROVE  FramingInv'
<1> DEFINE len == r.lo + 256 * rx[reader]
<1>1. /\ TypeOK /\ ReaderShape /\ AckInv /\ WriterInv
      /\ UNCHANGED <<writer, packet, w, paired, calls, resets>>
      /\ RegistersTyped' /\ WriterInv'
      /\ rx'[reader] = Empty /\ reader' = reader /\ Sent \in Nat /\ Sent' = Sent
      /\ rx[reader] \in Byte /\ L' = L /\ (NeedsAck' <=> NeedsAck)
      /\ rx'[writer] = rx[writer]
  BY ReadByteIs
<1>2. r' = [r EXCEPT !.pc = "ack", !.len = len, !.out = Ack]
  BY DEF ReadByte
<1>3. r \in ReaderFields /\ r.off <= r.len /\ r.off \in Nat /\ r.lo \in Byte
  BY <1>1, ReaderParts
<1>4. len \in Word /\ (rx[reader] # 0 => len >= 256)
  BY <1>1, <1>3, BytesLength
<1>5. len \in Nat
  BY <1>4, WordIs
<1> HIDE DEF len
<1>6. /\ r'.pc = "ack" /\ r'.len = len /\ r'.body = r.body /\ r'.off = r.off
      /\ r'.out = Ack /\ r'.result = r.result /\ r'.cmd = r.cmd
  BY <1>2, <1>3 DEF ReaderFields
<1>7. r' \in ReaderFields
  BY <1>2, <1>3, <1>4, AckIs DEF ReaderFields
<1>8. r.len = 0 /\ r.body = <<>> /\ Len(r.body) = 0 /\ r.result = "none"
  BY <1>1, EmptyIs DEF ReaderShape
<1>9. TypeOK'
  <2>1. r'.off <= r'.len /\ Len(r'.body) <= r'.len
    BY <1>3, <1>5, <1>6, <1>8
  <2>2. ReaderTyped'
    BY <1>6, <1>7, <2>1, AckIs DEF ReaderTyped, ReaderFields, ReaderOut
  <2> QED
    BY <1>1, <2>2, ReaderStepTyped
<1>10. ReaderShape'
  BY <1>6, <1>8, AckIs DEF ReaderShape
<1>11. packet \in Packets /\ L \in Word
  BY <1>1, TypeParts, PacketIs
<1> SUFFICES ASSUME paired
             PROVE  ReaderInv' /\ AckInv'
  BY <1>1, <1>9, <1>10 DEF FramingInv, ReaderInv, AckInv
<1>12. PICK p, q \in 0 .. Sent : p < q /\ ReadUpTo(p) /\ rx[reader] = StreamByte(q)
  BY ReadByteIs
<1>13. q \in 0 .. Sent /\ q > p /\ p \in Nat /\ q \in Nat
  BY <1>1, <1>12
<1>14. r.cmd # MSG_MAGIC => p >= 3 /\ (p = 3 => r.cmd = packet.cmd /\ r.lo = L % 256)
  BY <1>12 DEF ReadUpTo
<1>15. ASSUME r.cmd # MSG_MAGIC, NeedsAck
       PROVE  w.off = 0 /\ q = 4
  <2>1. w.off = 0
    BY <1>1, <1>8, <1>15 DEF AckInv
  <2>2. Sent <= 4
    BY <1>1, <2>1, SentIs
  <2> QED
    <3>1. p >= 3
      BY <1>14, <1>15
    <3> QED
      BY <1>1, <1>13, <2>1, <2>2, <3>1
<1>16. ASSUME r.cmd # MSG_MAGIC
       PROVE  q >= 4 /\ (RightHeader' \/ (~ NeedsAck /\ len >= 256))
  <2>1. q >= 4 /\ (q = 4 => p = 3)
    BY <1>13, <1>14, <1>16
  <2>2. CASE q = 4
    <3>1. rx[reader] = L \div 256 /\ r.lo = L % 256 /\ r.cmd = packet.cmd
      BY <1>11, <1>12, <1>14, <1>16, <2>1, <2>2, StreamIs
    <3>2. len = L
      BY <1>11, <3>1, LengthBytes DEF len
    <3> QED
      BY <1>1, <1>6, <2>1, <3>1, <3>2 DEF RightHeader
  <2>3. CASE q # 4
    <3>1. ~ NeedsAck /\ q > 4
      BY <1>13, <1>15, <1>16, <2>1, <2>3
    <3>2. rx[reader] = packet.body[q - 4]
      BY <1>11, <1>12, <1>13, <3>1, StreamIs
    <3>3. q <= 4 + L
      <4>1. Sent <= 4 + L /\ L \in Nat
        BY <1>1, SentIs, WriterTyped
      <4> QED
        BY <1>1, <1>13, <4>1
    <3>4. q - 4 \in 1 .. L
      BY <1>1, <1>13, <3>1, <3>3, WriterTyped
    <3>5. rx[reader] # 0
      BY <1>11, <3>1, <3>2, <3>4, PacketIs
    <3> QED
      BY <1>4, <2>1, <3>1, <3>5
  <2> QED
    BY <2>2, <2>3
<1>17. ReaderInv'
  <2>1. 4 + Len(r'.body) = 4
    BY <1>6, <1>8
  <2>2. ReadUpTo(q)'
    BY <1>1, <1>6, <1>8, <1>16, <2>1 DEF ReadUpTo
  <2> QED
    BY <1>1, <1>6, <1>13, <2>2 DEF ReaderInv
<1>18. AckInv'
  <2>1. SUFFICES ASSUME NeedsAck, r.cmd # MSG_MAGIC
                 PROVE  AckInv'
    BY <1>1, <1>6 DEF AckInv
  <2>2. w.off = 0 /\ RightHeader' /\ q = 4
    BY <1>15, <1>16, <2>1
  <2>3. r'.len # 0
    <3>1. L >= 1
      BY <1>11, PacketIs
    <3> QED
      BY <1>1, <2>2, <3>1 DEF RightHeader
  <2>4. w.pc # "write"
    <3>1. Sent >= 4 + w.off
      BY <1>13, <2>2
    <3> QED
      BY <1>1, <2>2, <3>1, SentIs, WriterTyped DEF WriterOut
  <2>5. Acked = 0 /\ Acked' = 0
    <3>1. Acked = 0
      BY <1>1, <1>8, ReaderParts DEF Acked, ReaderOut
    <3>2. Acked' = 4 - Len(r'.out)
      BY <1>6, AckIs DEF Acked
    <3> QED
      BY <1>6, <3>1, <3>2, AckIs
  <2>6. ASSUME NEW k
        PROVE  AckReadUpTo(k)' <=> AckReadUpTo(k)
    BY <1>1, <2>5 DEF AckReadUpTo
  <2>7. w.pc = "ack" => \E k \in 0 .. Acked' : AckReadUpTo(k)'
    BY <1>1, <2>1, <2>5, <2>6 DEF AckInv
  <2>8. ~ (w.pc = "done" /\ w.result = "ok")
    BY <1>1, <2>1, NotYetOk
  <2> QED
    BY <1>1, <1>6, <1>8, <2>2, <2>3, <2>4, <2>7, <2>8 DEF AckInv
<1> QED
  BY <1>17, <1>18

(* The high byte after the low one was missed.                             *)
LEMMA SkipByteKeeps ==
    ASSUME FramingInv, ReadByte, r.pc = "skip"
    PROVE  FramingInv'
<1>1. /\ TypeOK /\ UNCHANGED <<writer, packet, w, paired, calls, resets>>
      /\ RegistersTyped' /\ rx'[writer] = rx[writer]
  BY ReadByteIs
<1>2. /\ ReaderTyped'
      /\ r'.pc = "done" /\ r'.result = "timeout" /\ r'.out = <<>>
      /\ r'.cmd = r.cmd /\ r'.len = r.len /\ r'.body = r.body
      /\ r'.off = r.off /\ r'.limit = r.limit
  BY <1>1, EndReadIs DEF ReadByte
<1>3. r.out = <<>>
  BY <1>1, ReaderParts DEF ReaderOut
<1>4. TypeOK'
  BY <1>1, <1>2, ReaderStepTyped
<1> QED
  BY <1>1, <1>2, <1>3, <1>4, ReaderStops

(* A byte of the body, from beyond the last one: nothing was skipped if    *)
(* as many bytes as are read have been sent.  With a block complete, the   *)
(* writer has no more to send than its ACK allows.                         *)
LEMMA BodyByteKeeps ==
    ASSUME FramingInv, ReadByte, r.pc = "body"
    PROVE  FramingInv'
<1> DEFINE b == rx[reader]
           n == Len(r.body)
<1>1. /\ TypeOK /\ ReaderShape /\ AckInv /\ WriterInv
      /\ UNCHANGED <<writer, packet, w, paired, calls, resets>>
      /\ RegistersTyped' /\ WriterInv'
      /\ rx'[reader] = Empty /\ reader' = reader /\ Sent \in Nat /\ Sent' = Sent
      /\ b \in Byte /\ L' = L /\ (NeedsAck' <=> NeedsAck)
      /\ rx'[writer] = rx[writer]
  BY ReadByteIs
<1>2. r' = WithBody(b)
  BY DEF ReadByte
<1>3. /\ r \in ReaderFields /\ r.off <= r.len /\ r.off \in Nat /\ r.len \in Nat
      /\ r.body \in Seq(Byte) /\ n \in Nat /\ n < r.off /\ r.out = <<>>
      /\ r.len <= r.limit
  BY <1>1, ReaderParts DEF ReaderShape, ReaderOut
<1>4. /\ Append(r.body, b) \in Seq(Byte) /\ Len(Append(r.body, b)) = n + 1
      /\ \A i \in 1 .. n : Append(r.body, b)[i] = r.body[i]
      /\ Append(r.body, b)[n + 1] = b
  BY <1>1, <1>3, AppendIs
<1>5. /\ r' \in ReaderFields
      /\ r'.len = r.len /\ r'.off = r.off /\ r'.limit = r.limit
      /\ r'.result = r.result /\ r'.cmd = r.cmd /\ r'.body = Append(r.body, b)
      /\ \/ r'.pc = "body" /\ r'.out = <<>> /\ n + 1 # r.off
         \/ r'.pc = "ack" /\ r'.out = Ack /\ n + 1 = r.off
  <2>1. CASE n + 1 = r.off
    <3>1. r' = [r EXCEPT !.body = Append(r.body, b), !.pc = "ack", !.out = Ack]
      BY <1>2, <1>4, <2>1 DEF WithBody
    <3>2. r' \in ReaderFields
      BY <1>3, <1>4, <3>1, AckIs DEF ReaderFields
    <3>3. /\ r'.len = r.len /\ r'.off = r.off /\ r'.limit = r.limit
          /\ r'.result = r.result /\ r'.cmd = r.cmd /\ r'.body = Append(r.body, b)
          /\ r'.pc = "ack" /\ r'.out = Ack
      BY <1>3, <3>1 DEF ReaderFields
    <3> QED
      BY <2>1, <3>2, <3>3
  <2>2. CASE n + 1 # r.off
    <3>1. r' = [r EXCEPT !.body = Append(r.body, b)]
      BY <1>2, <1>4, <2>2 DEF WithBody
    <3>2. r' \in ReaderFields
      BY <1>3, <1>4, <3>1 DEF ReaderFields
    <3>3. /\ r'.len = r.len /\ r'.off = r.off /\ r'.limit = r.limit
          /\ r'.result = r.result /\ r'.cmd = r.cmd /\ r'.body = Append(r.body, b)
          /\ r'.pc = r.pc /\ r'.out = r.out
      BY <1>3, <3>1 DEF ReaderFields
    <3> QED
      BY <1>3, <2>2, <3>2, <3>3
  <2> QED
    BY <2>1, <2>2
<1>6. Len(r'.body) = n + 1 /\ n + 1 <= r.off /\ n + 1 <= r.len /\ n + 1 \in Nat
  BY <1>3, <1>4, <1>5
<1>7. TypeOK'
  <2>1. ReaderOut'
    <3>1. \/ r'.pc = "body" /\ r'.out = <<>>
          \/ r'.pc = "ack" /\ r'.out = Ack
      BY <1>5
    <3>2. Ack # <<>>
      BY AckIs
    <3> QED
      BY <3>1, <3>2 DEF ReaderOut
  <2>2. ReaderTyped'
    BY <1>3, <1>5, <1>6, <2>1 DEF ReaderTyped, ReaderFields
  <2> QED
    BY <1>1, <2>2, ReaderStepTyped
<1>8. ReaderShape'
  <2>1. r'.pc = "body" => Len(r'.body) < r'.off
    BY <1>3, <1>5, <1>6
  <2>2. r'.out # <<>> => /\ Len(r'.out) <= 4
                         /\ \A i \in 1 .. Len(r'.out) : r'.out[i] = Ack[4 - Len(r'.out) + i]
    <3>1. r'.out # <<>> => r'.out = Ack
      BY <1>5
    <3>2. Len(Ack) <= 4 /\ \A i \in 1 .. Len(Ack) : Ack[i] = Ack[4 - Len(Ack) + i]
      BY AckIs
    <3> QED
      BY <3>1, <3>2
  <2> QED
    BY <1>3, <1>5, <2>1, <2>2 DEF ReaderShape
<1> SUFFICES ASSUME paired
             PROVE  ReaderInv' /\ AckInv'
  BY <1>1, <1>7, <1>8 DEF FramingInv, ReaderInv, AckInv
<1>9. PICK p, q \in 0 .. Sent : p < q /\ ReadUpTo(p) /\ b = StreamByte(q)
  BY ReadByteIs
<1>10. q \in 0 .. Sent /\ q > p /\ p \in Nat /\ q \in Nat
  BY <1>1, <1>9
<1>11. ASSUME r.cmd # MSG_MAGIC
       PROVE  /\ 4 + n <= p
              /\ 4 + n = p => \A i \in 1 .. n : r.body[i] = packet.body[i]
              /\ RightHeader \/ (~ NeedsAck /\ r.len >= 256)
  BY <1>9, <1>11 DEF ReadUpTo
<1>12. ReaderInv'
  <2>1. ASSUME r.cmd # MSG_MAGIC
        PROVE  /\ 4 + (n + 1) <= q
               /\ 4 + (n + 1) = q =>
                     \A i \in 1 .. n + 1 : Append(r.body, b)[i] = packet.body[i]
    <3>1. 4 + (n + 1) <= q /\ (4 + (n + 1) = q => 4 + n = p /\ q > 4 /\ q - 4 = n + 1)
      BY <1>3, <1>10, <1>11, <2>1
    <3>2. ASSUME 4 + (n + 1) = q
          PROVE  b = packet.body[n + 1]
      BY <1>1, <1>9, <1>10, <3>1, <3>2, StreamIs, TypeParts
    <3>3. ASSUME 4 + (n + 1) = q, NEW i \in 1 .. n + 1
          PROVE  Append(r.body, b)[i] = packet.body[i]
      <4>1. i = n + 1 \/ i \in 1 .. n
        BY <1>3
      <4> QED
        BY <1>4, <1>11, <2>1, <3>1, <3>2, <3>3, <4>1
    <3> QED
      BY <3>1, <3>3
  <2>2. ReadUpTo(q)'
    BY <1>1, <1>5, <1>6, <1>11, <2>1 DEF ReadUpTo, RightHeader
  <2> QED
    BY <1>1, <1>5, <1>10, <2>2 DEF ReaderInv
<1>13. AckInv'
  <2>1. SUFFICES ASSUME NeedsAck, r.cmd # MSG_MAGIC
                 PROVE  AckInv'
    BY <1>1, <1>5 DEF AckInv
  <2>2. RightHeader /\ RightHeader' /\ r.len > 0
    <3>1. RightHeader
      BY <1>11, <2>1
    <3> QED
      BY <1>1, <1>3, <1>5, <3>1 DEF RightHeader
  <2>3. w.off \in Nat /\ Sent <= 4 + w.off /\ (w.pc = "write" => Sent < 4 + w.off)
    BY <1>1, SentIs, WriterTyped DEF WriterOut
  <2>4. n # w.off
    BY <1>3, <1>10, <1>11, <1>1, <2>1, <2>3
  <2>5. w.off = r.off
    BY <1>1, <2>1, <2>4 DEF AckInv
  <2>6. Acked = 0
    BY <1>3, <2>4 DEF Acked
  <2>7. Acked' = 0
    <3>1. CASE r'.out # <<>>
      <4>1. Acked' = 4 - Len(r'.out)
        BY <3>1 DEF Acked
      <4> QED
        BY <1>5, <3>1, <4>1, AckIs
    <3>2. CASE r'.out = <<>>
      <4>1. Len(r'.body) # w.off
        BY <1>5, <1>6, <2>5, <3>2, AckIs
      <4> QED
        BY <1>1, <3>2, <4>1 DEF Acked
    <3> QED
      BY <3>1, <3>2
  <2>8. r'.out # <<>> => Len(r'.body) = w.off /\ w.pc # "write"
    <3>1. 4 + (n + 1) <= Sent
      BY <1>1, <1>3, <1>10, <1>11, <2>1
    <3> QED
      BY <1>1, <1>3, <1>5, <1>6, <2>3, <2>5, <3>1
  <2>9. ASSUME NEW k
        PROVE  AckReadUpTo(k)' <=> AckReadUpTo(k)
    BY <1>1, <2>6, <2>7 DEF AckReadUpTo
  <2>10. w.pc = "ack" => \E k \in 0 .. Acked' : AckReadUpTo(k)'
    BY <1>1, <2>1, <2>6, <2>7, <2>9 DEF AckInv
  <2>11. ~ (w.pc = "done" /\ w.result = "ok")
    BY <1>1, <2>1, NotYetOk
  <2> QED
    BY <1>1, <1>5, <2>2, <2>5, <2>7, <2>8, <2>10, <2>11 DEF AckInv
<1> QED
  BY <1>12, <1>13

(* What follows an ACK: the end of the call, or the next block.            *)
LEMMA AckWrittenIs ==
    ASSUME TypeOK, ReaderShape, r.pc = "ack", r' = AckWritten
    PROVE  /\ ReaderTyped' /\ ReaderShape'
           /\ r'.len = r.len /\ r'.body = r.body /\ r'.cmd = r.cmd /\ r'.out = <<>>
           /\ \/ r'.pc = "done" /\ r'.result # "ok"
              \/ r'.pc = "done" /\ r'.result = "ok" /\ Len(r.body) = r.len
              \/ r'.pc = "body" /\ r'.off = BlockEnd(Len(r.body), r.len)
<1>1. /\ r \in ReaderFields /\ r.off <= r.len /\ r.off \in Nat
      /\ r.len \in Nat /\ r.len \in Word
      /\ r.body \in Seq(Byte) /\ Len(r.body) \in Nat /\ Len(r.body) <= r.len
      /\ r.body # <<>> => r.len <= r.limit
      /\ r.limit \in Nat
  <2>1. r.limit \in Limits \cup {0}
    BY ReaderParts DEF ReaderFields
  <2>2. r.limit \in Nat
    <3>1. Limits \subseteq Nat
      BY FramingAssumption DEF FramingAssumption
    <3>2. 0 \in Nat
      OBVIOUS
    <3> QED
      BY <2>1, <3>1, <3>2, Zenon
  <2> QED
    BY <2>2, ReaderParts DEF ReaderShape
<1>2. CASE r.len > r.limit
  <2>1. r' = EndRead("bad length")
    BY <1>2 DEF AckWritten
  <2>2. /\ ReaderTyped'
        /\ r'.pc = "done" /\ r'.result = "bad length" /\ r'.out = <<>>
        /\ r'.cmd = r.cmd /\ r'.len = r.len /\ r'.body = r.body
        /\ r'.off = r.off /\ r'.limit = r.limit
    BY <2>1, EndReadIs
  <2>3. r.body = <<>>
    BY <1>1, <1>2
  <2>4. Len(r.body) # r.len
    BY <1>1, <1>2, <2>3, EmptyIs
  <2>5. ReaderShape'
    BY <2>2, <2>3, <2>4 DEF ReaderShape
  <2> QED
    BY <2>2, <2>5
<1>3. CASE ~ (r.len > r.limit) /\ Len(r.body) = r.len
  <2>1. r' = EndRead("ok")
    BY <1>3 DEF AckWritten
  <2>2. /\ ReaderTyped'
        /\ r'.pc = "done" /\ r'.result = "ok" /\ r'.out = <<>>
        /\ r'.cmd = r.cmd /\ r'.len = r.len /\ r'.body = r.body
        /\ r'.off = r.off /\ r'.limit = r.limit
    BY <2>1, EndReadIs
  <2>3. ReaderShape'
    BY <1>1, <2>2 DEF ReaderShape
  <2> QED
    BY <1>3, <2>2, <2>3
<1>4. CASE ~ (r.len > r.limit) /\ Len(r.body) # r.len
  <2> DEFINE end == BlockEnd(Len(r.body), r.len)
  <2>1. end \in Len(r.body) .. r.len /\ Len(r.body) < end
    BY <1>1, <1>4, BlockEndIs
  <2>2. end \in Nat /\ end <= r.len /\ end \in Word
    BY <1>1, <2>1, ShorterIs
  <2>3. r' = [r EXCEPT !.pc = "body", !.out = <<>>, !.off = end]
    BY <1>4 DEF AckWritten
  <2> HIDE DEF end
  <2>4. /\ r'.pc = "body" /\ r'.out = <<>> /\ r'.off = end /\ r'.len = r.len
        /\ r'.body = r.body /\ r'.cmd = r.cmd /\ r'.limit = r.limit /\ r'.result = r.result
    BY <1>1, <2>3 DEF ReaderFields
  <2>5. r' \in ReaderFields
    <3>1. <<>> \in Seq(Byte)
      BY EmptyIs
    <3> QED
      BY <1>1, <2>2, <2>3, <3>1 DEF ReaderFields
  <2>6. ReaderTyped'
    BY <1>1, <2>2, <2>4, <2>5 DEF ReaderTyped, ReaderFields, ReaderOut
  <2>7. r.len <= r.limit
    BY <1>1, <1>4
  <2>8. ReaderShape'
    BY <2>1, <2>4, <2>7 DEF ReaderShape
  <2> QED
    BY <2>4, <2>6, <2>8 DEF end
<1> QED
  BY <1>2, <1>3, <1>4

(* A byte of an ACK, or its loss.  After the last one of the last block    *)
(* the packet is whole.                                                    *)
LEMMA WriteAckKeeps ==
    ASSUME FramingInv, write_ack
    PROVE  FramingInv'
<1>1. /\ TypeOK /\ WriterInv /\ ReaderShape /\ ReaderInv /\ AckInv /\ r.pc = "ack"
      /\ UNCHANGED <<writer, packet, w, paired, calls, resets>>
  BY DEF FramingInv, write_ack
<1>2. /\ r \in ReaderFields /\ ReaderTyped
      /\ r.len \in Nat /\ r.body \in Seq(Byte) /\ Len(r.body) \in Nat
      /\ r.out \in Seq(Byte) /\ r.out # <<>>
      /\ Len(r.out) \in 1 .. 4 /\ Acked = 4 - Len(r.out)
      /\ \A i \in 1 .. Len(r.out) : r.out[i] = Ack[4 - Len(r.out) + i]
  BY <1>1, ReaderParts, TypeParts, AckedIs DEF Acked, ReaderShape, ReaderOut
<1>3. /\ Tail(r.out) \in Seq(Byte) /\ Len(Tail(r.out)) = Len(r.out) - 1
      /\ \A i \in 1 .. Len(r.out) - 1 : Tail(r.out)[i] = r.out[i + 1]
      /\ Head(r.out) = r.out[1] /\ Head(r.out) \in Byte
  BY <1>2, TailIs
<1>4. Head(r.out) = Ack[Acked + 1] /\ Acked \in 0 .. 3
  <2>1. 1 \in 1 .. Len(r.out) /\ Acked \in 0 .. 3
    <3>1. \A n \in 1 .. 4 : 1 \in 1 .. n /\ 4 - n \in 0 .. 3
      OBVIOUS
    <3> QED
      BY <1>2, <3>1
  <2> QED
    BY <1>2, <1>3, <2>1
<1>5. /\ RegistersTyped' /\ rx'[reader] = rx[reader]
      /\ rx'[writer] = rx[writer] \/ rx'[writer] = Ack[Acked + 1]
  BY <1>1, <1>3, <1>4, TypeParts, TransmitIs, TwoEnds DEF RegistersTyped, write_ack
<1>6. /\ WriterInv' /\ Sent' = Sent
      /\ \A i : StreamByte(i)' = StreamByte(i)
      /\ reader' = reader /\ L' = L /\ (NeedsAck' <=> NeedsAck)
  BY <1>1, ReaderKeepsWriter, StreamFixed
<1>7. /\ ReaderTyped' /\ ReaderShape'
      /\ r'.len = r.len /\ r'.body = r.body /\ r'.cmd = r.cmd
      /\ \/ r'.pc = "ack" /\ r'.out # <<>> /\ Len(r'.out) = Len(r.out) - 1
         \/ /\ Len(r.out) = 1 /\ r'.out = <<>>
            /\ \/ r'.pc = "done" /\ r'.result # "ok"
               \/ r'.pc = "done" /\ r'.result = "ok" /\ Len(r.body) = r.len
               \/ r'.pc = "body" /\ r'.off = BlockEnd(Len(r.body), r.len)
  <2>1. CASE Len(r.out) > 1
    <3>1. r' = [r EXCEPT !.out = Tail(r.out)]
      BY <2>1 DEF write_ack
    <3>2. /\ r'.pc = "ack" /\ r'.out = Tail(r.out) /\ r'.off = r.off /\ r'.len = r.len
          /\ r'.body = r.body /\ r'.cmd = r.cmd /\ r'.limit = r.limit
      BY <1>1, <1>2, <3>1 DEF ReaderFields
    <3>3. r' \in ReaderFields
      BY <1>2, <1>3, <3>1 DEF ReaderFields
    <3>4. Tail(r.out) # <<>>
      <4>1. Len(Tail(r.out)) # 0
        <5>1. \A n \in 1 .. 4 : n > 1 => n - 1 # 0
          OBVIOUS
        <5> QED
          BY <1>2, <1>3, <2>1, <5>1
      <4> QED
        BY <4>1, EmptyIs
    <3>5. ReaderTyped'
      BY <1>2, <3>2, <3>3, <3>4 DEF ReaderTyped, ReaderFields, ReaderOut
    <3>6. ASSUME NEW i \in 1 .. Len(r'.out)
          PROVE  r'.out[i] = Ack[4 - Len(r'.out) + i]
      <4>1. /\ i \in 1 .. Len(r.out) - 1 /\ i + 1 \in 1 .. Len(r.out)
            /\ 4 - Len(r'.out) + i = 4 - Len(r.out) + (i + 1)
        <5>1. \A n \in 1 .. 4 : \A j \in 1 .. n - 1 :
                 j + 1 \in 1 .. n /\ 4 - (n - 1) + j = 4 - n + (j + 1)
          OBVIOUS
        <5> QED
          BY <1>2, <1>3, <3>2, <5>1, ZenonT(60)
      <4> QED
        BY <1>2, <1>3, <3>2, <4>1, SMTT(60)
    <3>7. Len(r'.out) <= 4
      <4>1. \A n \in 1 .. 4 : n - 1 <= 4
        OBVIOUS
      <4> QED
        BY <1>2, <1>3, <3>2, <4>1
    <3>8. ReaderShape'
      BY <1>1, <3>2, <3>6, <3>7 DEF ReaderShape
    <3> QED
      BY <1>3, <3>2, <3>4, <3>5, <3>8
  <2>2. CASE Len(r.out) = 1
    <3>1. r' = AckWritten
      BY <2>2 DEF write_ack
    <3> QED
      BY <1>1, <2>2, <3>1, AckWrittenIs
  <2>3. \A n \in 1 .. 4 : n = 1 \/ n > 1
    OBVIOUS
  <2> QED
    BY <1>2, <2>1, <2>2, <2>3
<1>8. TypeOK'
  BY <1>1, <1>5, <1>7, ReaderStepTyped
<1> SUFFICES ASSUME paired
             PROVE  ReaderInv' /\ AckInv'
  BY <1>1, <1>6, <1>7, <1>8 DEF FramingInv, ReaderInv, AckInv
<1>9. PICK p \in 0 .. Sent : ReadUpTo(p)
  BY <1>1 DEF ReaderInv
<1>10. /\ rx[reader] = Empty \/ \E q \in p + 1 .. Sent : rx[reader] = StreamByte(q)
       /\ \/ r.cmd = MSG_MAGIC
          \/ /\ 4 + Len(r.body) <= p
             /\ 4 + Len(r.body) = p =>
                   \A i \in 1 .. Len(r.body) : r.body[i] = packet.body[i]
             /\ RightHeader \/ (~ NeedsAck /\ r.len >= 256)
  BY <1>1, <1>9 DEF ReadUpTo
<1>11. /\ packet \in Packets /\ L \in Nat /\ L >= 1 /\ L = Len(packet.body)
       /\ packet.body \in Seq(Byte)
       /\ Sent \in Nat /\ Sent <= 4 + L
  <2>1. w.off \in Nat /\ Sent \in 0 .. 4 + w.off /\ Sent <= 4 + L
    BY <1>1, SentIs, WriterTyped
  <2> QED
    BY <1>1, <2>1, WriterTyped
<1>12. ReaderInv'
  <2>1. ASSUME r'.pc \in {"cmd", "lo", "hi", "ack", "body"}
        PROVE  \E k \in 0 .. Sent' : ReadUpTo(k)'
    <3>1. r'.pc \in {"ack", "body"}
      BY <1>7, <2>1
    <3>2. ReadUpTo(p)'
      BY <1>1, <1>5, <1>6, <1>7, <1>10, <3>1 DEF ReadUpTo, RightHeader
    <3> QED
      BY <1>6, <1>9, <3>2
  <2>2. ASSUME r'.pc = "done", r'.result = "ok", r'.cmd # MSG_MAGIC
        PROVE  (TookPacket /\ rx[reader] = Empty /\ Sent = 4 + L)'
    <3>1. Len(r.body) = r.len /\ 4 + r.len <= p /\ p <= Sent /\ p \in Nat
      BY <1>7, <1>9, <1>10, <1>11, <2>2
    <3>2. RightHeader
      <4>1. ASSUME ~ NeedsAck, r.len >= 256
            PROVE  FALSE
        <5>1. L <= 255
          <6>1. L \in Byte
            BY <1>11, <4>1, PacketIs
          <6> QED
            BY <6>1, SMT DEF Byte
        <5> QED
          BY <1>2, <1>11, <3>1, <4>1, <5>1
      <4> QED
        BY <1>7, <1>10, <2>2, <4>1
    <3>3. Sent = 4 + L /\ p = Sent /\ 4 + Len(r.body) = p
      BY <1>11, <3>1, <3>2 DEF RightHeader
    <3>4. rx[reader] = Empty
      <4>1. \A q \in p + 1 .. Sent : FALSE
        BY <1>11, <3>3
      <4> QED
        BY <1>10, <4>1
    <3>5. r.body = packet.body
      <4>1. \A i \in 1 .. Len(r.body) : r.body[i] = packet.body[i]
        BY <1>7, <1>10, <2>2, <3>3
      <4>2. Len(r.body) = Len(packet.body)
        BY <1>11, <3>1, <3>2 DEF RightHeader
      <4> QED
        BY <1>2, <1>11, <4>1, <4>2, SMTT(60)
    <3> QED
      BY <1>1, <1>5, <1>6, <1>7, <2>2, <3>2, <3>3, <3>4, <3>5 DEF TookPacket, RightHeader
  <2> QED
    BY <2>1, <2>2 DEF ReaderInv
<1>13. AckInv'
  <2>1. SUFFICES ASSUME NeedsAck, r.cmd # MSG_MAGIC
                 PROVE  AckInv'
    BY <1>6, <1>7 DEF AckInv
  <2>2. RightHeader /\ RightHeader' /\ r.len > 0
    <3>1. RightHeader
      BY <1>10, <2>1
    <3> QED
      BY <1>1, <1>6, <1>7, <1>11, <3>1 DEF RightHeader
  <2>3. Len(r.body) = w.off /\ w.pc # "write"
    BY <1>1, <1>2, <2>1 DEF AckInv
  <2>4. Acked' = Acked + 1
    <3>1. CASE r'.out # <<>> /\ Len(r'.out) = Len(r.out) - 1
      <4>1. Acked' = 4 - Len(r'.out)
        BY <3>1 DEF Acked
      <4> QED
        BY <1>2, <3>1, <4>1
    <3>2. CASE Len(r.out) = 1 /\ r'.out = <<>>
      <4>1. Acked' = 4
        BY <1>1, <1>7, <2>2, <2>3, <3>2 DEF Acked
      <4> QED
        BY <1>2, <3>2, <4>1
    <3> QED
      BY <1>7, <3>1, <3>2
  <2>5. ASSUME w.pc = "ack"
        PROVE  \E k \in 0 .. Acked' : AckReadUpTo(k)'
    <3>1. PICK k \in 0 .. Acked : AckReadUpTo(k)
      BY <1>1, <2>1, <2>5 DEF AckInv
    <3>2. k \in 0 .. Acked' /\ Acked + 1 \in k + 1 .. Acked'
      BY <1>4, <2>4, <3>1
    <3>3. \A i \in k + 1 .. Acked : i \in k + 1 .. Acked'
      BY <1>4, <2>4, <3>1
    <3>4. w.k >= 1 => rx'[writer] = Empty \/ \E i \in k + 1 .. Acked' : rx'[writer] = Ack[i]
      BY <1>5, <3>1, <3>2, <3>3 DEF AckReadUpTo
    <3>5. AckReadUpTo(k)'
      BY <1>1, <3>1, <3>4 DEF AckReadUpTo
    <3> QED
      BY <3>2, <3>5
  <2>6. ~ (w.pc = "done" /\ w.result = "ok")
    BY <1>1, <2>1, NotYetOk
  <2>7. r'.pc = "body" => r'.off = BlockEnd(w.off, L)
    BY <1>7, <2>2, <2>3 DEF RightHeader
  <2> QED
    BY <1>1, <1>6, <1>7, <2>2, <2>3, <2>5, <2>6, <2>7 DEF AckInv
<1> QED
  BY <1>12, <1>13

-----------------------------------------------------------------------------
(* The invariant holds in every state.                                     *)

(* A new packet, whatever the last one has left in the registers, and      *)
(* whether or not the other end is still reading it.                       *)
LEMMA StartWriteKeeps ==
    ASSUME FramingInv, StartWrite
    PROVE  FramingInv'
<1>1. /\ TypeOK /\ ReaderShape /\ calls < MaxCalls /\ calls' = calls + 1
      /\ writer' \in Ends /\ packet' \in Packets
      /\ paired' = (r.pc \in {"done", "sync"})
      /\ UNCHANGED <<rx, noise, resets>>
  BY DEF FramingInv, StartWrite, BeginCall
<1>2. /\ Header(packet') \in Seq(Byte) /\ Len(Header(packet')) = 4 /\ Header(packet') # <<>>
      /\ Len(packet'.body) \in Nat
  <2>1. packet'.body \in Seq(Byte)
    BY <1>1, FramingAssumption DEF FramingAssumption
  <2>2. Len(packet'.body) \in Nat
    BY <2>1
  <2>3. \A p \in Packets : /\ Header(p) \in Seq(Byte) /\ Len(Header(p)) = 4
                            /\ Header(p) # <<>>
    BY AnyHeader, ZenonT(60)
  <2> QED
    BY <1>1, <2>2, <2>3
<1>3. w' = [pc |-> "write", out |-> Header(packet'), off |-> 0, k |-> 0, result |-> "none"]
  BY DEF StartWrite, WriterIdle
<1>4. w'.pc = "write" /\ w'.out = Header(packet') /\ w'.off = 0
  BY <1>3
<1>5. /\ ReaderTyped' /\ ReaderShape'
      /\ paired' => r'.pc \in {"done", "sync"} /\ r'.out = <<>> /\ r'.len = 0
                    /\ r'.result = "none"
  <2>1. CASE r.pc = "done"
    <3>1. r' = [pc |-> "done", limit |-> 0, out |-> <<>>, cmd |-> 0, lo |-> 0,
                len |-> 0, off |-> 0, body |-> <<>>, result |-> "none"]
      BY <2>1 DEF StartWrite, ReaderIdle
    <3> QED
      BY <3>1, ReaderIdleIs
  <2>2. CASE r.pc # "done"
    <3>1. r' = r
      BY <2>2 DEF StartWrite
    <3>2. ReaderTyped' /\ ReaderShape'
      BY <1>1, <3>1, TypeParts DEF ReaderTyped, ReaderOut, ReaderShape
    <3>3. paired' => r.pc = "sync" /\ r.out = <<>> /\ r.len = 0 /\ r.result = "none"
      BY <1>1, <2>2, ReaderParts DEF ReaderOut, ReaderShape
    <3> QED
      BY <3>1, <3>2, <3>3
  <2> QED
    BY <2>1, <2>2
<1>6. TypeOK'
  <2>1. RegistersTyped'
    BY <1>1, TypeParts DEF RegistersTyped
  <2>2. CountersTyped'
    BY <1>1, TypeParts, FramingAssumption DEF CountersTyped, FramingAssumption
  <2>3. L' \in Nat
    BY <1>2 DEF L
  <2>4. WriterFits'
    BY <1>2, <1>3, <1>4, <2>3 DEF WriterFits, WriterFields, WriterOut
  <2> QED
    BY <1>1, <1>5, <2>1, <2>2, <2>4, TypePartsAfter
<1>7. WriterInv'
  <2>1. Sent' = 0
    <3>1. Len(w'.out) = 4
      BY <1>2, <1>4
    <3> QED
      BY <1>4, <3>1 DEF Sent
  <2>2. \A i \in 1 .. 4 : StreamByte(i)' = Header(packet')[i]
    BY DEF StreamByte
  <2> QED
    <3>1. \A i \in 1 .. 4 : 0 + i = i
      OBVIOUS
    <3>2. Len(w'.out) = 4
      BY <1>2, <1>4
    <3> QED
      BY <1>4, <2>1, <2>2, <3>1, <3>2 DEF WriterInv
<1>8. ReaderInv'
  BY <1>5 DEF ReaderInv
<1>9. AckInv'
  <2>1. paired' => Acked' = 0
    BY <1>5 DEF Acked
  <2> QED
    BY <1>4, <1>5, <2>1 DEF AckInv
<1> QED
  BY <1>5, <1>6, <1>7, <1>8, <1>9 DEF FramingInv

(* Another call takes a byte, or it writes one and the packet no longer    *)
(* has the line to itself.                                                 *)
LEMMA OtherCallKeeps ==
    ASSUME FramingInv, NEW e \in Ends, OtherCall(e)
    PROVE  FramingInv'
<1>1. /\ TypeOK /\ WriterInv /\ ReaderShape /\ ReaderInv /\ AckInv
      /\ calls < MaxCalls /\ calls' = calls + 1
      /\ UNCHANGED <<writer, packet, w, r, resets>>
  BY DEF FramingInv, OtherCall, BeginCall
<1>2. ReaderTyped' /\ ReaderShape' /\ WriterFits'
  BY <1>1, TypeParts, ZenonT(60) DEF ReaderTyped, ReaderOut, ReaderShape, WriterFits, WriterFields,
                         WriterOut, L
<1>3. WriterInv' /\ Sent' = Sent
  BY <1>1, ReaderKeepsWriter
<1>4. paired' \in BOOLEAN => CountersTyped'
  BY <1>1, TypeParts, FramingAssumption DEF CountersTyped, FramingAssumption
<1>5. paired \in BOOLEAN /\ writer \in Ends /\ packet \in Packets
  BY <1>1, TypeParts DEF CountersTyped
<1>6. CASE Arrives(e) /\ UNCHANGED <<paired, noise>>
  <2>1. /\ RegistersTyped'
        /\ rx'[reader] \in {rx[reader], Empty} /\ rx'[writer] \in {rx[writer], Empty}
    BY <1>1, <1>6, TypeParts, TwoEnds, ArrivesIs DEF RegistersTyped
  <2>2. TypeOK'
    BY <1>1, <1>2, <1>6, <1>4, <1>5, <2>1, TypePartsAfter
  <2>3. ReaderInv'
    BY <1>1, <1>3, <1>6, <2>1, WriterKeepsReader
  <2>4. AckInv'
    BY <1>1, <1>6, <2>1, AcksKept
  <2> QED
    BY <1>2, <1>3, <2>2, <2>3, <2>4 DEF FramingInv
<1>7. CASE \E b \in Strays : Transmit(Other(e), b) /\ paired' = FALSE
  <2>1. PICK b \in Strays : Transmit(Other(e), b) /\ paired' = FALSE
    BY <1>7
  <2>2. Other(e) \in Ends /\ b \in Byte
    BY FramingAssumption DEF FramingAssumption, Other
  <2>3. RegistersTyped'
    BY <1>1, <2>1, <2>2, TypeParts, TransmitIs DEF RegistersTyped
  <2>4. TypeOK'
    BY <1>1, <1>2, <1>4, <1>5, <2>1, <2>3, TypePartsAfter
  <2>5. ReaderInv' /\ AckInv'
    BY <2>1 DEF ReaderInv, AckInv
  <2> QED
    BY <1>2, <1>3, <2>4, <2>5 DEF FramingInv
<1> QED
  BY <1>6, <1>7 DEF OtherCall

(* A reset leaves what was sent where it is, and what was read.            *)
LEMMA ResetKeeps ==
    ASSUME FramingInv, NEW e \in Ends, Reset(e)
    PROVE  FramingInv'
<1>1. /\ TypeOK /\ WriterInv /\ ReaderShape /\ ReaderInv /\ AckInv
      /\ resets < MaxResets /\ resets' = resets + 1
      /\ rx' = [rx EXCEPT ![e] = Empty]
      /\ UNCHANGED <<writer, packet, paired, calls, noise>>
  BY DEF FramingInv, Reset
<1>2. RegistersTyped' /\ CountersTyped' /\ writer \in Ends /\ packet \in Packets
  BY <1>1, TypeParts, FramingAssumption DEF RegistersTyped, CountersTyped, FramingAssumption
<1>3. CASE e = writer
  <2>1. w' = [w EXCEPT !.pc = "done", !.result = "reset"] /\ r' = r
    BY <1>3 DEF Reset
  <2>2. /\ w'.pc = "done" /\ w'.result = "reset" /\ w'.out = w.out /\ w'.off = w.off
        /\ w'.k = w.k /\ w' \in WriterFields
    BY <1>1, <2>1, WriterTyped DEF WriterFields
  <2>3. ReaderTyped' /\ WriterFits'
    BY <1>1, <2>1, <2>2, TypeParts DEF ReaderTyped, ReaderOut, WriterFits, WriterFields,
                                       WriterOut, L
  <2>4. TypeOK'
    BY <1>1, <1>2, <2>3, TypePartsAfter
  <2>5. WriterInv' /\ Sent' = Sent
    <3>1. Sent' = Sent
      BY <2>2 DEF Sent
    <3>2. \A i : StreamByte(i)' = StreamByte(i)
      BY <1>1, StreamFixed
    <3> QED
      BY <1>1, <2>2, <3>1, <3>2 DEF WriterInv
  <2>6. rx'[reader] = rx[reader] /\ rx'[writer] = Empty
    BY <1>1, <1>3, TypeParts, TwoEnds DEF RegistersTyped
  <2>7. ReaderShape' /\ ReaderInv'
    BY <1>1, <2>1, <2>5, <2>6, WriterKeepsReader
  <2>8. AckInv'
    BY <1>1, <2>1, <2>2, <2>6, AcksKept
  <2> QED
    BY <2>4, <2>5, <2>7, <2>8 DEF FramingInv
<1>4. CASE e # writer
  <2>1. r' = [r EXCEPT !.pc = "done", !.result = "reset"] /\ w' = w /\ r.pc # "done"
    BY <1>4 DEF Reset, InCall
  <2>2. /\ r'.pc = "done" /\ r'.result = "reset" /\ r'.out = r.out /\ r'.cmd = r.cmd
        /\ r'.len = r.len /\ r'.off = r.off /\ r'.body = r.body /\ r'.limit = r.limit
        /\ r' \in ReaderFields
    BY <1>1, <2>1, ReaderParts DEF ReaderFields
  <2>3. ReaderTyped' /\ WriterFits'
    BY <1>1, <2>1, <2>2, TypeParts DEF ReaderTyped, ReaderOut, WriterFits, WriterFields,
                                       WriterOut, L
  <2>4. TypeOK'
    BY <1>1, <1>2, <2>3, TypePartsAfter
  <2>5. rx'[writer] = rx[writer]
    BY <1>1, <1>4, TypeParts, TwoEnds DEF RegistersTyped
  <2> QED
    BY <1>1, <2>1, <2>2, <2>4, <2>5, ReaderStops
<1> QED
  BY <1>3, <1>4

LEMMA InitFraming ==
    ASSUME Init
    PROVE  FramingInv
<1>1. /\ rx = [e \in Ends |-> Empty] /\ writer \in Ends /\ packet \in Packets
      /\ w = [pc |-> "done", out |-> <<>>, off |-> 0, k |-> 0, result |-> "none"]
      /\ r = [pc |-> "done", limit |-> 0, out |-> <<>>, cmd |-> 0, lo |-> 0,
             len |-> 0, off |-> 0, body |-> <<>>, result |-> "none"]
      /\ paired = TRUE /\ calls = 0 /\ noise = 0 /\ resets = 0
  BY DEF Init, WriterIdle, ReaderIdle
<1>2. 0 \in Byte /\ 0 \in Word /\ <<>> \in Seq(Byte) /\ Len(<<>>) = 0
  BY EmptyIs, ZeroIs
<1>3. L \in Nat
  BY <1>1, FramingAssumption DEF FramingAssumption, L
<1>4. TypeOK
  <2>1. RegistersTyped /\ CountersTyped
    BY <1>1, FramingAssumption DEF RegistersTyped, CountersTyped, FramingAssumption
  <2>2. WriterFits
    BY <1>1, <1>2, <1>3 DEF WriterFits, WriterFields, WriterOut
  <2>3. ReaderTyped
    BY <1>1, <1>2 DEF ReaderTyped, ReaderFields, ReaderOut
  <2> QED
    BY <1>1, <2>1, <2>2, <2>3, TypeParts
<1>5. WriterInv
  BY <1>1, <1>2 DEF WriterInv, Sent
<1>6. ReaderShape /\ ReaderInv
  BY <1>1 DEF ReaderShape, ReaderInv
<1>7. AckInv
  BY <1>1 DEF AckInv
<1> QED
  BY <1>4, <1>5, <1>6, <1>7 DEF FramingInv

(* Every step keeps the invariant.                                         *)
LEMMA FramingStep ==
    ASSUME FramingInv, [Next]_vars
    PROVE  FramingInv'
<1>1. TypeOK /\ WriterInv /\ ReaderShape /\ ReaderInv /\ AckInv
  BY DEF FramingInv
<1>2. CASE StartWrite
  BY <1>2, StartWriteKeeps
<1>3. CASE WriteByte
  <2>1. TypeOK' /\ WriterInv' /\ ReaderShape' /\ ReaderInv'
    BY <1>1, <1>3, WriteByteIs, WriterKeepsReader
  <2> QED
    BY <1>1, <1>3, <2>1, WriteByteKeepsAcks DEF FramingInv
<1>4. CASE await_ack
  <2>1. TypeOK' /\ WriterInv' /\ ReaderShape' /\ ReaderInv'
    BY <1>1, <1>4, AwaitAckIs, WriterKeepsReader
  <2> QED
    BY <1>1, <1>4, <2>1, AwaitAckKeepsAcks DEF FramingInv
<1>5. CASE AckTimesOut
  <2>1. TypeOK' /\ WriterInv' /\ ReaderShape' /\ ReaderInv'
    BY <1>1, <1>5, AckTimesOutIs, WriterKeepsReader
  <2> QED
    BY <1>1, <1>5, <2>1, AckTimesOutKeepsAcks DEF FramingInv
<1>6. CASE StartRead
  BY <1>6, StartReadKeeps
<1>7. CASE ReadByte
  <2>1. r.pc \in {"sync", "cmd", "lo", "hi", "skip", "body"}
    BY <1>7, ReadByteIs
  <2> QED
    BY <1>7, <2>1, SyncByteKeeps, CmdByteKeeps, LoByteKeeps, HiByteKeeps, SkipByteKeeps,
       BodyByteKeeps
<1>8. CASE write_ack
  BY <1>8, WriteAckKeeps
<1>9. CASE ReadTimesOut
  BY <1>9, ReadTimesOutKeeps
<1>10. CASE UNCHANGED vars
  <2>1. UNCHANGED <<rx, writer, packet, w, r, paired, calls, noise, resets>>
    BY <1>10 DEF vars
  <2>2. TypeOK' /\ WriterInv' /\ Sent' = Sent
    BY <1>1, <2>1, ReaderKeepsWriter, ZenonT(60) DEF TypeOK
  <2>3. ReaderShape' /\ ReaderInv'
    BY <1>1, <2>1, <2>2, StreamFixed, WriterKeepsReader
  <2>4. AckInv'
    BY <1>1, <2>1, AcksKept
  <2> QED
    BY <2>2, <2>3, <2>4 DEF FramingInv
<1>11. CASE \E e \in Ends : OtherCall(e) \/ Reset(e)
  BY <1>11, OtherCallKeeps, ResetKeeps
<1> QED
  BY <1>2, <1>3, <1>4, <1>5, <1>6, <1>7, <1>8, <1>9, <1>10, <1>11 DEF Next, Write, Read

LEMMA FramingAlways == Spec => []FramingInv
<1>1. Init => FramingInv
  BY InitFraming
<1>2. FramingInv /\ [Next]_vars => FramingInv'
  BY FramingStep
<1> QED
  BY <1>1, <1>2, PTL DEF Spec

(* The variables have their types: no sequence is taken apart beyond its   *)
(* end, no block ends beyond the body, no length exceeds 16 bits.          *)
THEOREM FramingTypeCorrect == Spec => []TypeOK
<1>1. FramingInv => TypeOK
  BY DEF FramingInv
<1> QED
  BY <1>1, FramingAlways, PTL

(* A packet that write_packet reports as ACKed has been returned by the    *)
(* other end's read_packet, when the two calls are a pair.                 *)
THEOREM AckedPacketsRead == Spec => []AckedMeansRead
<1>1. FramingInv => AckedMeansRead
  BY DEF FramingInv, AckInv, ReaderInv, AckedMeansRead
<1> QED
  BY <1>1, FramingAlways, PTL

(* A call of read_packet that is a pair with that of write_packet returns  *)
(* the packet, whole, or an error, whatever the calls before them have     *)
(* left behind and however they overlapped.                                *)
THEOREM PacketsWhole == Spec => []WholePacketOrNothing
<1>1. RECEIVE_MSG # MSG_MAGIC /\ ERROR_MSG # MSG_MAGIC
  BY DEF RECEIVE_MSG, ERROR_MSG, MSG_MAGIC
<1>2. FramingInv => WholePacketOrNothing
  BY <1>1 DEF FramingInv, ReaderInv, WholePacketOrNothing
<1> QED
  BY <1>2, FramingAlways, PTL

(* After a packet that was ACKed and read both registers are empty.        *)
THEOREM LineLeftClean == Spec => []SuccessLeavesLineClean
<1>1. ASSUME FramingInv
      PROVE  SuccessLeavesLineClean
  <2>1. Ends = {writer, reader}
    BY <1>1, TypeParts, TwoEnds DEF FramingInv
  <2> QED
    BY <1>1, <2>1 DEF FramingInv, AckInv, ReaderInv, SuccessLeavesLineClean
<1>2. FramingInv => SuccessLeavesLineClean
  BY <1>1
<1> QED
  BY <1>2, FramingAlways, PTL

-----------------------------------------------------------------------------
(* Every step but the beginning of a call brings the calls nearer their    *)
(* end.                                                                    *)

WorkTyped ==
    /\ Unwritten \in Nat /\ Waiting(reader) \in Nat /\ Waiting(writer) \in Nat
    /\ Unacked \in Nat /\ CallsOpen \in Nat

(* What is left to be written is what of the stream has not left yet.      *)
UnwrittenCounts ==
    /\ Unwritten = IF w.pc = "done" THEN 0 ELSE 4 + L - Sent
    /\ Sent \in Nat /\ Sent <= 4 + L /\ L \in Nat
    /\ Unwritten \in Nat

LEMMA UnwrittenIs == TypeOK /\ WriterInv => UnwrittenCounts
<1>1. SUFFICES ASSUME TypeOK, WriterInv
               PROVE  UnwrittenCounts
  OBVIOUS
<1>2. /\ Sent \in 0 .. 4 + w.off /\ Sent <= 4 + L /\ Len(w.out) \in Nat
      /\ L \in Nat /\ w.off \in 0 .. L /\ L = Len(packet.body)
  BY <1>1, SentIs, WriterTyped
<1>3. Unwritten = IF w.pc = "done" THEN 0 ELSE Len(w.out) + (L - w.off)
  BY DEF Unwritten, L
<1>4. Len(w.out) + (L - w.off) = 4 + L - Sent
  <2>1. Sent = 4 + w.off - Len(w.out)
    BY DEF Sent
  <2>2. \A n, off, l \in Nat : n + (l - off) = 4 + l - (4 + off - n)
    OBVIOUS
  <2>3. w.off \in Nat
    BY <1>2
  <2> QED
    BY <1>2, <2>1, <2>2, <2>3, Zenon
<1>5. 4 + L - Sent \in Nat /\ Sent \in Nat
  BY <1>2
<1> QED
  BY <1>2, <1>3, <1>4, <1>5 DEF UnwrittenCounts

LEMMA UnwrittenAfter == TypeOK' /\ WriterInv' => UnwrittenCounts'
BY UnwrittenIs, PTL

LEMMA WorkHasType == FramingInv => WorkTyped
<1>1. ASSUME FramingInv
      PROVE  WorkTyped
  <2>1. Unwritten \in Nat
    BY <1>1, UnwrittenIs DEF FramingInv, UnwrittenCounts
  <2>2. Waiting(reader) \in Nat /\ Waiting(writer) \in Nat
    BY DEF Waiting
  <2>3. Unacked \in Nat
    <3>1. r.out \in Seq(Byte)
      BY <1>1, ReaderParts DEF FramingInv
    <3> QED
      BY <3>1 DEF Unacked
  <2>4. CallsOpen \in Nat
    BY DEF CallsOpen
  <2> QED
    BY <2>1, <2>2, <2>3, <2>4 DEF WorkTyped
<1> QED
  BY <1>1

LEMMA WorkHasTypeAfter == FramingInv' => WorkTyped'
BY WorkHasType, PTL

(* The five ways in which a step uses up work.                             *)
LEMMA WorkSum ==
    ASSUME NEW u \in Nat, NEW a \in Nat, NEW o \in Nat, NEW b \in Nat, NEW c \in Nat,
           NEW u2 \in Nat, NEW a2 \in Nat, NEW o2 \in Nat, NEW b2 \in Nat, NEW c2 \in Nat,
           \/ u2 < u /\ a2 <= a + 1 /\ o2 = o /\ b2 = b /\ c2 <= c
           \/ u2 <= u /\ a2 = a /\ o2 = o /\ b2 < b /\ c2 <= c
           \/ u2 <= u /\ a2 <= a /\ o2 <= o /\ b2 <= b /\ c2 < c
           \/ u2 = u /\ a2 < a /\ o2 <= o + 4 /\ b2 = b /\ c2 <= c
           \/ u2 = u /\ a2 = a /\ o2 < o /\ b2 <= b + 1 /\ c2 <= c
    PROVE  10 * u2 + 9 * a2 + 2 * o2 + b2 + c2
              \in 0 .. (10 * u + 9 * a + 2 * o + b + c) - 1
OBVIOUS

(* One of them, for a step of the model.                                   *)
UsesWork ==
    \/ /\ Unwritten' < Unwritten /\ Waiting(reader)' <= Waiting(reader) + 1
       /\ Unacked' = Unacked /\ Waiting(writer)' = Waiting(writer)
       /\ CallsOpen' <= CallsOpen
    \/ /\ Unwritten' <= Unwritten /\ Waiting(reader)' = Waiting(reader)
       /\ Unacked' = Unacked /\ Waiting(writer)' < Waiting(writer)
       /\ CallsOpen' <= CallsOpen
    \/ /\ Unwritten' <= Unwritten /\ Waiting(reader)' <= Waiting(reader)
       /\ Unacked' <= Unacked /\ Waiting(writer)' <= Waiting(writer)
       /\ CallsOpen' < CallsOpen
    \/ /\ Unwritten' = Unwritten /\ Waiting(reader)' < Waiting(reader)
       /\ Unacked' <= Unacked + 4 /\ Waiting(writer)' = Waiting(writer)
       /\ CallsOpen' <= CallsOpen
    \/ /\ Unwritten' = Unwritten /\ Waiting(reader)' = Waiting(reader)
       /\ Unacked' < Unacked /\ Waiting(writer)' <= Waiting(writer) + 1
       /\ CallsOpen' <= CallsOpen

LEMMA WorkFalls ==
    ASSUME WorkTyped, WorkTyped', UsesWork
    PROVE  LineWork' \in 0 .. LineWork - 1
<1> DEFINE u == Unwritten
           a == Waiting(reader)
           o == Unacked
           b == Waiting(writer)
           c == CallsOpen
           u2 == Unwritten'
           a2 == Waiting(reader)'
           o2 == Unacked'
           b2 == Waiting(writer)'
           c2 == CallsOpen'
<1>1. /\ u \in Nat /\ a \in Nat /\ o \in Nat /\ b \in Nat /\ c \in Nat
      /\ u2 \in Nat /\ a2 \in Nat /\ o2 \in Nat /\ b2 \in Nat /\ c2 \in Nat
  BY Zenon DEF WorkTyped
<1>2. \/ u2 < u /\ a2 <= a + 1 /\ o2 = o /\ b2 = b /\ c2 <= c
      \/ u2 <= u /\ a2 = a /\ o2 = o /\ b2 < b /\ c2 <= c
      \/ u2 <= u /\ a2 <= a /\ o2 <= o /\ b2 <= b /\ c2 < c
      \/ u2 = u /\ a2 < a /\ o2 <= o + 4 /\ b2 = b /\ c2 <= c
      \/ u2 = u /\ a2 = a /\ o2 < o /\ b2 <= b + 1 /\ c2 <= c
  BY Zenon DEF UsesWork
<1>3. /\ LineWork = 10 * u + 9 * a + 2 * o + b + c
      /\ LineWork' = 10 * u2 + 9 * a2 + 2 * o2 + b2 + c2
  BY Zenon DEF LineWork
<1> HIDE DEF u, a, o, b, c, u2, a2, o2, b2, c2
<1>4. 10 * u2 + 9 * a2 + 2 * o2 + b2 + c2 \in 0 .. (10 * u + 9 * a + 2 * o + b + c) - 1
  BY <1>1, <1>2, WorkSum
<1> QED
  BY <1>3, <1>4, Zenon

(* What the two calls count for, as one of them goes on.                   *)
LEMMA CallsGoOn ==
    /\ r' = r /\ w.pc # "done" => CallsOpen' <= CallsOpen
    /\ r' = r /\ w.pc # "done" /\ w'.pc = "done" => CallsOpen' < CallsOpen
    /\ w' = w /\ r.pc \notin {"skip", "done"} => CallsOpen' <= CallsOpen
    /\ w' = w /\ r.pc # "done" /\ r'.pc = "done" => CallsOpen' < CallsOpen
    /\ w' = w /\ r.pc \notin {"skip", "done"} /\ r'.pc = "skip" => CallsOpen' < CallsOpen
BY DEF CallsOpen

(* What is unacked depends on the reader alone.                            *)
LEMMA UnackedKept == r' = r => Unacked' = Unacked
BY DEF Unacked

(* A register that does not change, and one that fills or empties.         *)
LEMMA WaitingIs ==
    ASSUME UNCHANGED writer
    PROVE  /\ rx'[reader] = rx[reader] => Waiting(reader)' = Waiting(reader)
           /\ rx'[writer] = rx[writer] => Waiting(writer)' = Waiting(writer)
           /\ Waiting(reader)' <= Waiting(reader) + 1
           /\ Waiting(writer)' <= Waiting(writer) + 1
           /\ rx'[reader] \in {rx[reader], Empty} => Waiting(reader)' <= Waiting(reader)
           /\ rx'[writer] \in {rx[writer], Empty} => Waiting(writer)' <= Waiting(writer)
           /\ rx[reader] # Empty /\ rx'[reader] = Empty => Waiting(reader)' < Waiting(reader)
           /\ rx[writer] # Empty /\ rx'[writer] = Empty => Waiting(writer)' < Waiting(writer)
<1>1. reader' = reader
  BY StreamFixed DEF reader, Other
<1> QED
  BY <1>1 DEF Waiting

(* A byte of the packet is worth more than the room it takes in the        *)
(* register.                                                               *)
LEMMA WriteByteWorks ==
    ASSUME FramingInv, WriteByte
    PROVE  UsesWork
<1>1. TypeOK /\ WriterInv
  BY DEF FramingInv
<1>2. /\ TypeOK' /\ WriterInv' /\ UNCHANGED <<writer, packet, r>>
      /\ Sent' = Sent + 1 /\ Sent < 4 + L /\ w.pc = "write"
      /\ rx'[writer] = rx[writer]
  BY <1>1, WriteByteIs
<1>3. Unwritten' < Unwritten
  <2>1. L' = L
    BY <1>2, StreamFixed
  <2>2. Unwritten = 4 + L - Sent /\ Sent \in Nat /\ L \in Nat
    BY <1>1, <1>2, UnwrittenIs DEF UnwrittenCounts
  <2>3. Unwritten' = IF w'.pc = "done" THEN 0 ELSE 4 + L - (Sent + 1)
    <3>1. Unwritten' = IF w'.pc = "done" THEN 0 ELSE 4 + L' - Sent'
      BY <1>2, UnwrittenAfter DEF UnwrittenCounts
    <3> QED
      BY <1>2, <2>1, <3>1
  <2> QED
    BY <1>2, <2>2, <2>3
<1> QED
  BY <1>2, <1>3, CallsGoOn, UnackedKept, WaitingIs DEF UsesWork

(* A step that sends nothing leaves no more unwritten.                     *)
LEMMA NothingWritten ==
    ASSUME TypeOK, WriterInv, TypeOK', WriterInv', UNCHANGED <<writer, packet>>, Sent' = Sent
    PROVE  /\ w.pc # "done" => Unwritten' <= Unwritten
           /\ w' = w => Unwritten' = Unwritten
<1>1. L' = L
  BY StreamFixed
<1>2. /\ Unwritten = IF w.pc = "done" THEN 0 ELSE 4 + L - Sent
      /\ Unwritten' = IF w'.pc = "done" THEN 0 ELSE 4 + L - Sent
      /\ Sent \in Nat /\ Sent <= 4 + L /\ L \in Nat
  BY <1>1, UnwrittenIs, UnwrittenAfter DEF UnwrittenCounts
<1> QED
  BY <1>2

(* A byte of an ACK is taken from the register; the call may end there.    *)
LEMMA AwaitAckWorks ==
    ASSUME FramingInv, await_ack
    PROVE  UsesWork
<1>1. TypeOK /\ WriterInv
  BY DEF FramingInv
<1>2. /\ TypeOK' /\ WriterInv' /\ UNCHANGED <<writer, packet, r>>
      /\ Sent' = Sent /\ w.pc = "ack" /\ rx'[reader] = rx[reader]
      /\ rx[writer] # Empty /\ rx'[writer] = Empty
  BY <1>1, AwaitAckIs
<1>3. Unwritten' <= Unwritten
  BY <1>1, <1>2, NothingWritten
<1>4. Waiting(writer)' < Waiting(writer) /\ Waiting(reader)' = Waiting(reader)
  BY <1>2, WaitingIs
<1>5. CallsOpen' <= CallsOpen
  BY <1>2, CallsGoOn
<1> QED
  BY <1>2, <1>3, <1>4, <1>5, UnackedKept DEF UsesWork

(* A call of the writer that stops.                                        *)
LEMMA WriterStopsWorks ==
    ASSUME FramingInv, FramingInv', UNCHANGED <<writer, packet, r>>, Sent' = Sent,
           w.pc # "done", w'.pc = "done", rx'[reader] = rx[reader],
           rx'[writer] \in {rx[writer], Empty}
    PROVE  UsesWork
<1>1. TypeOK /\ WriterInv /\ TypeOK' /\ WriterInv'
  BY DEF FramingInv
<1>2. Unwritten' <= Unwritten
  BY <1>1, NothingWritten
<1>3. WorkTyped /\ WorkTyped'
  BY WorkHasType, WorkHasTypeAfter
<1>4. Waiting(writer)' <= Waiting(writer) /\ Waiting(reader)' <= Waiting(reader)
  BY WaitingIs
<1>5. CallsOpen' < CallsOpen
  BY CallsGoOn
<1>6. Unacked' <= Unacked
  BY <1>3, UnackedKept DEF WorkTyped
<1> QED
  BY <1>2, <1>4, <1>5, <1>6 DEF UsesWork

LEMMA AckTimesOutWorks ==
    ASSUME FramingInv, FramingInv', AckTimesOut
    PROVE  UsesWork
<1>1. TypeOK /\ WriterInv /\ w.pc = "ack"
  BY DEF FramingInv, AckTimesOut, WriterWaits
<1>2. /\ UNCHANGED <<rx, writer, packet, r>>
      /\ Sent' = Sent /\ w'.pc = "done"
  BY <1>1, AckTimesOutIs
<1> QED
  BY <1>1, <1>2, WriterStopsWorks

(* A step of the reader leaves what is unwritten as it is.                 *)
LEMMA ReaderWritesNothing ==
    ASSUME FramingInv, FramingInv', UNCHANGED <<writer, packet, w>>
    PROVE  Unwritten' = Unwritten
<1>1. TypeOK /\ WriterInv /\ TypeOK' /\ WriterInv'
  BY DEF FramingInv
<1>2. Sent' = Sent
  BY <1>1, ReaderKeepsWriter
<1> QED
  BY <1>1, <1>2, NothingWritten

(* Outside an ACK the reader has nothing to write.                         *)
OutCounts ==
    /\ r.pc # "ack" => Unacked = 0
    /\ r.pc = "ack" => Unacked = Len(r.out) /\ Unacked \in 1 .. 4

LEMMA NothingToWrite == FramingInv => OutCounts
<1>1. ASSUME FramingInv
      PROVE  OutCounts
  <2>1. r.pc = "ack" => Len(r.out) \in 1 .. 4
    BY <1>1, AckedIs DEF FramingInv
  <2> QED
    BY <2>1 DEF OutCounts, Unacked
<1> QED
  BY <1>1

LEMMA NothingToWriteAfter == FramingInv' => OutCounts'
BY NothingToWrite, PTL

(* A call of the reader that stops, or gives up its packet.                *)
LEMMA ReaderStopsWorks ==
    ASSUME FramingInv, FramingInv', UNCHANGED <<writer, packet, w>>,
           r.pc # "done",
           r'.pc = "done" \/ (r'.pc = "skip" /\ r.pc # "skip"),
           rx'[reader] \in {rx[reader], Empty}, rx'[writer] = rx[writer]
    PROVE  UsesWork
<1>1. Unwritten' = Unwritten
  BY ReaderWritesNothing
<1>2. WorkTyped /\ WorkTyped'
  BY WorkHasType, WorkHasTypeAfter
<1>3. Waiting(writer)' <= Waiting(writer) /\ Waiting(reader)' <= Waiting(reader)
  <2>1. Waiting(writer)' = Waiting(writer) /\ Waiting(reader)' <= Waiting(reader)
    BY WaitingIs
  <2> QED
    BY <2>1, WaitingIs
<1>4. CallsOpen' < CallsOpen
  BY CallsGoOn
<1>5. Unacked' <= Unacked
  <2>1. Unacked' = 0
    BY NothingToWriteAfter DEF OutCounts
  <2> QED
    BY <1>2, <2>1 DEF WorkTyped
<1>6. Unwritten' <= Unwritten
  BY <1>1, <1>2 DEF WorkTyped
<1> QED
  BY <1>3, <1>4, <1>5, <1>6 DEF UsesWork

(* A byte is worth more than the ACK it may set off.                       *)
LEMMA ReadByteWorks ==
    ASSUME FramingInv, FramingInv', ReadByte
    PROVE  UsesWork
<1>1. /\ UNCHANGED <<writer, packet, w>>
      /\ rx'[writer] = rx[writer] /\ rx'[reader] = Empty /\ rx[reader] # Empty
      /\ r.pc \in {"sync", "cmd", "lo", "hi", "skip", "body"}
  BY ReadByteIs DEF ReadByte, Arrives
<1>2. r.pc = "skip" => r'.pc = "done"
  <2>1. r \in ReaderFields
    BY ReaderParts DEF FramingInv
  <2> QED
    BY <2>1 DEF ReadByte, EndRead, ReaderFields
<1>3. Unwritten' = Unwritten
  BY <1>1, ReaderWritesNothing
<1>4. Unacked' <= Unacked + 4
  <2>1. Unacked = 0 /\ Unacked' \in 0 .. 4
    BY <1>1, NothingToWrite, NothingToWriteAfter DEF OutCounts
  <2>2. \A n \in 0 .. 4 : n <= 0 + 4
    OBVIOUS
  <2> QED
    BY <2>1, <2>2, Zenon
<1>5. Waiting(writer)' = Waiting(writer) /\ Waiting(reader)' < Waiting(reader)
  BY <1>1, WaitingIs
<1>6. CallsOpen' <= CallsOpen
  <2>1. CASE r.pc = "skip"
    <3>1. CallsOpen' < CallsOpen /\ CallsOpen \in Nat /\ CallsOpen' \in Nat
      BY <1>1, <1>2, <2>1, CallsGoOn, WorkHasType, WorkHasTypeAfter DEF WorkTyped
    <3> QED
      BY <3>1
  <2>2. CASE r.pc # "skip"
    BY <1>1, <2>2, CallsGoOn
  <2> QED
    BY <2>1, <2>2
<1> QED
  BY <1>3, <1>4, <1>5, <1>6 DEF UsesWork

LEMMA WriteAckWorks ==
    ASSUME FramingInv, FramingInv', write_ack
    PROVE  UsesWork
<1>1. /\ UNCHANGED <<writer, packet, w>> /\ r.pc = "ack"
  BY DEF write_ack
<1>2. /\ r \in ReaderFields /\ r.out \in Seq(Byte) /\ r.out # <<>>
      /\ Len(r.out) \in 1 .. 4 /\ Unacked = Len(r.out)
  BY <1>1, ReaderParts, NothingToWrite DEF FramingInv, ReaderOut, OutCounts
<1>3. rx'[reader] = rx[reader]
  <2>1. RegistersTyped /\ writer \in Ends
    BY TypeParts DEF FramingInv
  <2>2. Head(r.out) \in Byte
    BY <1>2, TailIs
  <2> QED
    BY <2>1, <2>2, TransmitIs, TwoEnds DEF RegistersTyped, write_ack
<1>4. Unacked' < Unacked
  <2>1. CASE Len(r.out) > 1
    <3>1. r' = [r EXCEPT !.out = Tail(r.out)]
      BY <2>1 DEF write_ack
    <3>2. r'.out = Tail(r.out) /\ r'.pc = "ack"
      BY <1>1, <1>2, <3>1 DEF ReaderFields
    <3>3. Len(Tail(r.out)) = Len(r.out) - 1
      BY <1>2, TailIs
    <3>4. Unacked' = Len(Tail(r.out))
      BY <3>2 DEF Unacked
    <3> QED
      BY <1>2, <3>3, <3>4
  <2>2. CASE Len(r.out) = 1
    <3>1. r' = AckWritten
      BY <2>2 DEF write_ack
    <3>2. r'.pc \in {"done", "body"}
      BY <1>1, <3>1, AckWrittenIs DEF FramingInv
    <3> QED
      BY <1>2, <2>2, <3>2, NothingToWriteAfter DEF OutCounts
  <2>3. \A n \in 1 .. 4 : n > 1 \/ n = 1
    OBVIOUS
  <2> QED
    BY <1>2, <2>1, <2>2, <2>3, Zenon
<1>5. Unwritten' = Unwritten
  BY <1>1, ReaderWritesNothing
<1>6. Waiting(reader)' = Waiting(reader) /\ Waiting(writer)' <= Waiting(writer) + 1
  BY <1>1, <1>3, WaitingIs
<1>7. CallsOpen' <= CallsOpen
  BY <1>1, <1>4, CallsGoOn
<1> QED
  BY <1>4, <1>5, <1>6, <1>7 DEF UsesWork

LEMMA ReadTimesOutWorks ==
    ASSUME FramingInv, FramingInv', ReadTimesOut
    PROVE  UsesWork
<1>1. /\ UNCHANGED <<rx, writer, packet, w>>
      /\ r.pc \in {"sync", "cmd", "lo", "hi", "skip", "body"}
      /\ r' = IF r.pc = "lo" THEN [r EXCEPT !.pc = "skip"] ELSE EndRead("timeout")
  BY DEF ReadTimesOut, ReaderReads
<1>2. r'.pc = "done" \/ (r'.pc = "skip" /\ r.pc = "lo")
  <2>1. r \in ReaderFields
    BY ReaderParts DEF FramingInv
  <2> QED
    BY <1>1, <2>1 DEF EndRead, ReaderFields
<1> QED
  BY <1>1, <1>2, ReaderStopsWorks

LEMMA ResetWorks ==
    ASSUME FramingInv, FramingInv', NEW e \in Ends, Reset(e)
    PROVE  UsesWork
<1>1. /\ rx' = [rx EXCEPT ![e] = Empty] /\ InCall(e)
      /\ UNCHANGED <<writer, packet>>
  BY DEF Reset
<1>2. rx \in [Ends -> Byte \cup {Empty}] /\ reader \in Ends /\ writer \in Ends
      /\ reader # writer /\ Ends = {writer, reader}
  BY TypeParts, TwoEnds DEF FramingInv, RegistersTyped
<1>3. CASE e = writer
  <2>1. w' = [w EXCEPT !.pc = "done", !.result = "reset"] /\ r' = r /\ w.pc # "done"
    BY <1>1, <1>3 DEF Reset, InCall
  <2>2. w'.pc = "done" /\ w'.out = w.out /\ w'.off = w.off
    BY <2>1, WriterTyped DEF WriterFields, FramingInv
  <2>3. Sent' = Sent
    BY <2>2 DEF Sent
  <2>4. rx'[reader] = rx[reader] /\ rx'[writer] = Empty
    BY <1>1, <1>2, <1>3
  <2> QED
    BY <1>1, <2>1, <2>2, <2>3, <2>4, WriterStopsWorks
<1>4. CASE e # writer
  <2>1. r' = [r EXCEPT !.pc = "done", !.result = "reset"] /\ w' = w /\ r.pc # "done"
    BY <1>1, <1>4 DEF Reset, InCall
  <2>2. r'.pc = "done"
    BY <2>1, ReaderParts DEF ReaderFields, FramingInv
  <2>3. rx'[writer] = rx[writer] /\ rx'[reader] = Empty
    BY <1>1, <1>2, <1>4
  <2> QED
    BY <1>1, <2>1, <2>2, <2>3, ReaderStopsWorks
<1> QED
  BY <1>3, <1>4

(* Unless a call begins, every byte that moves, every timeout and every    *)
(* reset uses up work, whatever the registers held and the line loses: the *)
(* two ends cannot keep each other busy for longer than the packet's       *)
(* length allows.                                                          *)
THEOREM CallsComeToTheirEnd == Spec => CallsBounded
<1>1. ASSUME FramingInv, FramingInv', Next, calls' = calls
      PROVE  LineWork' \in 0 .. LineWork - 1
  <2>1. WorkTyped /\ WorkTyped'
    BY <1>1, WorkHasType, WorkHasTypeAfter
  <2>2. UsesWork
    <3>1. CASE WriteByte
      BY <1>1, <3>1, WriteByteWorks
    <3>2. CASE await_ack
      BY <1>1, <3>2, AwaitAckWorks
    <3>3. CASE AckTimesOut
      BY <1>1, <3>3, AckTimesOutWorks
    <3>4. CASE ReadByte
      BY <1>1, <3>4, ReadByteWorks
    <3>5. CASE write_ack
      BY <1>1, <3>5, WriteAckWorks
    <3>6. CASE ReadTimesOut
      BY <1>1, <3>6, ReadTimesOutWorks
    <3>7. CASE \E e \in Ends : Reset(e)
      BY <1>1, <3>7, ResetWorks
    <3>8. ~ BeginCall
      <4>1. calls \in Nat
        BY <1>1, TypeParts, FramingAssumption
           DEF FramingInv, CountersTyped, FramingAssumption
      <4> QED
        BY <1>1, <4>1 DEF BeginCall
    <3> QED
      BY <1>1, <3>1, <3>2, <3>3, <3>4, <3>5, <3>6, <3>7, <3>8
         DEF Next, Write, Read, StartWrite, StartRead, OtherCall
  <2> QED
    BY <2>1, <2>2, WorkFalls
<1>2. FramingInv /\ FramingInv' /\ [Next]_vars
         => [calls' = calls => LineWork' \in 0 .. LineWork - 1]_vars
  BY <1>1
<1> QED
  BY <1>2, FramingAlways, PTL DEF Spec, CallsBounded
=============================================================================
