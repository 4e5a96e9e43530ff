---------------------------- MODULE UartFraming ----------------------------
(***************************************************************************)
(* Packets and their ACKs, byte by byte, between two HSMs on UART1         *)
(* (host_messaging.c over simple_uart.c).                                  *)
(*                                                                         *)
(* One packet is followed at a time: its writer in write_packet and the    *)
(* other end, sooner, later or never, in read_packet_timeout.  Neither     *)
(* waits for the other to be ready: a writer that gave up may begin the    *)
(* next packet while the reader still waits for the rest of the last one,  *)
(* and the reader may begin another call in the middle of a packet.  An    *)
(* end that is in neither call may be in one of its own, which is seen     *)
(* only as bytes it takes and bytes it puts on the line.  What one packet  *)
(* leaves in the receive registers the next one finds there: nothing       *)
(* drains them in between.                                                 *)
(*                                                                         *)
(* Each end has a register of one byte, the UART FIFOs being off; a byte   *)
(* that arrives while it is full is lost.  An end that is polling empties  *)
(* its register within the time of a byte on the wire, and its timeout is  *)
(* 20000 times that long: it expires only when the line is quiet.          *)
(***************************************************************************)
EXTENDS Naturals, Sequences

CONSTANTS
    Ends,       \* the two HSMs
    Packets,    \* packets written: [cmd, body]
    BlockSize,  \* 256: bytes between two ACKs
    Limits,     \* buffers the readers pass
    Strays,     \* bytes an end puts on the line in a call of its own
    Empty,      \* an empty register
    MaxCalls,   \* bound: calls begun and bytes moved by other calls
    MaxNoise,   \* bound: bytes the line loses
    MaxResets   \* bound: resets

Byte == 0 .. 255
Word == 0 .. 65535
MSG_MAGIC == 37
ACK_MSG == 65
RECEIVE_MSG == 67
ERROR_MSG == 69

(* The texts of ERROR packets are short and have no zero byte.             *)
ASSUME FramingAssumption ==
    /\ \E a, b \in Ends : a # b /\ Ends = {a, b}
    /\ \A p \in Packets :
          /\ p.body \in Seq(Byte)
          /\ \/ p.cmd = RECEIVE_MSG /\ Len(p.body) \in Word \ {0}
             \/ /\ p.cmd = ERROR_MSG /\ Len(p.body) \in Byte \ {0}
                /\ \A i \in 1 .. Len(p.body) : p.body[i] # 0
    /\ BlockSize \in Nat \ {0}
    /\ Limits \subseteq Nat \ {0}
    /\ Strays \subseteq Byte
    /\ Empty \notin Byte
    /\ MaxCalls \in Nat
    /\ MaxNoise \in Nat
    /\ MaxResets \in Nat

VARIABLES
    rx,      \* per end, the receive register
    writer,  \* the end in write_packet
    packet,  \* what it writes
    w,       \* write_packet: pc, out (bytes left of the chunk), off (body
             \* bytes up to its end), k (ACK bytes read), result
    r,       \* read_packet: pc, limit (the caller's buffer), out (bytes left
             \* of an ACK), cmd, lo, len, off (body bytes up to the end of the
             \* block), body, result
    paired,  \* history: the reader was not inside an earlier packet when this
             \* one began, this call is its first since, and no other call has
             \* put a byte on the line
    calls,
    noise,
    resets

vars == <<rx, writer, packet, w, r, paired, calls, noise, resets>>

Other(e) == CHOOSE f \in Ends : f # e
reader == Other(writer)

Ack == <<MSG_MAGIC, ACK_MSG, 0, 0>>
Header(p) == <<MSG_MAGIC, p.cmd, Len(p.body) % 256, Len(p.body) \div 256>>
NeedsAck == packet.cmd # ERROR_MSG

(* The end of the block that starts after the first `from` of len bytes.   *)
BlockEnd(from, len) == IF len - from > BlockSize THEN from + BlockSize ELSE len

WriterWaits == w.pc = "ack"
ReaderReads == r.pc \in {"sync", "cmd", "lo", "hi", "skip", "body"}
Polls(e) == IF e = writer THEN WriterWaits ELSE ReaderReads
InCall(e) == IF e = writer THEN w.pc # "done" ELSE r.pc # "done"

-----------------------------------------------------------------------------
(* The wire.                                                               *)

(* A byte reaches the register of end e, unless it is full or the line     *)
(* loses it.  If e is polling, a full register is emptied first.           *)
Transmit(e, b) ==
    \/ /\ rx[e] = Empty
       /\ rx' = [rx EXCEPT ![e] = b]
       /\ UNCHANGED noise
    \/ /\ rx[e] # Empty /\ ~ Polls(e)
       /\ UNCHANGED <<rx, noise>>
    \/ /\ noise < MaxNoise
       /\ noise' = noise + 1
       /\ UNCHANGED rx

Arrives(e) == rx[e] # Empty /\ rx' = [rx EXCEPT ![e] = Empty]

WriterQuiet == w.pc = "done" \/ (WriterWaits /\ rx[writer] = Empty)
ReaderQuiet == r.pc = "done" \/ (ReaderReads /\ rx[reader] = Empty)

-----------------------------------------------------------------------------
(* write_packet: write_header and write_bytes.                             *)

WriterIdle == [pc |-> "done", out |-> <<>>, off |-> 0, k |-> 0, result |-> "none"]

EndWrite(rc) == [w EXCEPT !.pc = "done", !.out = <<>>, !.result = rc]

(* Mutation: the last block is counted as a full one.                      *)
NextChunkUnclipped ==
    IF w.off >= Len(packet.body) THEN EndWrite("ok")
    ELSE LET end == BlockEnd(w.off, Len(packet.body))
         IN  [w EXCEPT !.pc = "write", !.out = SubSeq(packet.body, w.off + 1, end),
                       !.off = @ + BlockSize]

(* After a chunk, the next block of the body, if there is one.             *)
NextChunk ==
    IF w.off = Len(packet.body) THEN EndWrite("ok")
    ELSE LET end == BlockEnd(w.off, Len(packet.body))
         IN  [w EXCEPT !.pc = "write", !.out = SubSeq(packet.body, w.off + 1, end), !.off = end]

(* Mutation: as write_hex does, the last block is not waited for.          *)
ChunkWrittenHex ==
    IF NeedsAck /\ w.off < Len(packet.body)
    THEN [w EXCEPT !.pc = "ack", !.out = <<>>, !.k = 0] ELSE NextChunk

ChunkWritten ==
    IF NeedsAck THEN [w EXCEPT !.pc = "ack", !.out = <<>>, !.k = 0] ELSE NextChunk

WriteByte ==
    /\ w.pc = "write"
    /\ Transmit(reader, Head(w.out))
    /\ w' = IF Len(w.out) > 1 THEN [w EXCEPT !.out = Tail(@)] ELSE ChunkWritten
    /\ UNCHANGED <<writer, packet, r, paired, calls, resets>>

(* await_ack: only the first two bytes of an ACK are looked at.            *)
await_ack ==
    /\ WriterWaits
    /\ Arrives(writer)
    /\ w' = IF \/ w.k = 0 /\ rx[writer] # MSG_MAGIC
               \/ w.k = 1 /\ rx[writer] # ACK_MSG
            THEN EndWrite("no ack")
            ELSE IF w.k < 3 THEN [w EXCEPT !.k = @ + 1] ELSE NextChunk
    /\ UNCHANGED <<writer, packet, r, paired, calls, noise, resets>>

AckTimesOut ==
    /\ WriterWaits
    /\ rx[writer] = Empty
    /\ ReaderQuiet
    /\ w' = EndWrite("timeout")
    /\ UNCHANGED <<rx, writer, packet, r, paired, calls, noise, resets>>

-----------------------------------------------------------------------------
(* read_packet_timeout.                                                    *)

ReaderIdle == [pc |-> "done", limit |-> 0, out |-> <<>>, cmd |-> 0, lo |-> 0,
               len |-> 0, off |-> 0, body |-> <<>>, result |-> "none"]

EndRead(rc) == [r EXCEPT !.pc = "done", !.out = <<>>, !.result = rc]

WithBody(b) ==
    LET body == Append(r.body, b) IN
    IF Len(body) = r.off
    THEN [r EXCEPT !.body = body, !.pc = "ack", !.out = Ack]
    ELSE [r EXCEPT !.body = body]

ReadByte ==
    /\ ReaderReads
    /\ Arrives(reader)
    /\ LET b == rx[reader] IN
       r' = CASE r.pc = "sync" -> IF b = MSG_MAGIC THEN [r EXCEPT !.pc = "cmd"] ELSE r
              [] r.pc = "cmd" -> [r EXCEPT !.pc = "lo", !.cmd = b]
              [] r.pc = "lo" -> [r EXCEPT !.pc = "hi", !.lo = b]
              [] r.pc = "hi" -> [r EXCEPT !.pc = "ack", !.len = r.lo + 256 * b, !.out = Ack]
              [] r.pc = "skip" -> EndRead("timeout")
              [] r.pc = "body" -> WithBody(b)
    /\ UNCHANGED <<writer, packet, w, paired, calls, noise, resets>>

AckWritten ==
    IF r.len > r.limit THEN EndRead("bad length")
    ELSE IF Len(r.body) = r.len THEN EndRead("ok")
    ELSE [r EXCEPT !.pc = "body", !.out = <<>>, !.off = BlockEnd(Len(r.body), r.len)]

write_ack ==
    /\ r.pc = "ack"
    /\ Transmit(writer, Head(r.out))
    /\ r' = IF Len(r.out) > 1 THEN [r EXCEPT !.out = Tail(@)] ELSE AckWritten
    /\ UNCHANGED <<writer, packet, w, paired, calls, resets>>

(* Mutations: a packet that breaks off is returned as far as it came; a    *)
(* packet that breaks off is waited for again.                             *)
ReadTimesOutShort ==
    /\ ReaderReads
    /\ rx[reader] = Empty
    /\ WriterQuiet
    /\ r' = IF r.pc = "lo" THEN [r EXCEPT !.pc = "skip"]
            ELSE EndRead(IF r.pc = "body" THEN "ok" ELSE "timeout")
    /\ UNCHANGED <<rx, writer, packet, w, paired, calls, noise, resets>>

ReadTimesOutResyncs ==
    /\ ReaderReads
    /\ rx[reader] = Empty
    /\ WriterQuiet
    /\ r' = [r EXCEPT !.pc = "sync"]
    /\ UNCHANGED <<rx, writer, packet, w, paired, calls, noise, resets>>

(* Without the low byte of the length the high one is waited for as well,  *)
(* and taken, before the call fails.                                       *)
ReadTimesOut ==
    /\ ReaderReads
    /\ rx[reader] = Empty
    /\ WriterQuiet
    /\ r' = IF r.pc = "lo" THEN [r EXCEPT !.pc = "skip"] ELSE EndRead("timeout")
    /\ UNCHANGED <<rx, writer, packet, w, paired, calls, noise, resets>>

-----------------------------------------------------------------------------
(* Calls begin at any time: an end only has to be out of its last one.     *)

BeginCall == calls < MaxCalls /\ calls' = calls + 1

(* write_packet.  The end that read last may be the one that writes now.   *)
(* What the last calls returned is forgotten.                              *)
StartWrite ==
    /\ w.pc = "done"
    /\ BeginCall
    /\ writer' \in Ends /\ (writer' # writer => r.pc = "done")
    /\ packet' \in Packets
    /\ w' = [WriterIdle EXCEPT !.pc = "write", !.out = Header(packet')]
    /\ r' = IF r.pc = "done" THEN ReaderIdle ELSE r
    /\ paired' = (r.pc \in {"done", "sync"})
    /\ UNCHANGED <<rx, noise, resets>>

(* read_packet_timeout.                                                    *)
StartRead ==
    /\ r.pc = "done"
    /\ BeginCall
    /\ \E limit \in Limits : r' = [ReaderIdle EXCEPT !.pc = "sync", !.limit = limit]
    /\ paired' = (paired /\ r = ReaderIdle)
    /\ UNCHANGED <<rx, writer, packet, w, noise, resets>>

(* An end that takes no part in this packet, or no more, makes a call of   *)
(* its own: it reads what is in its register, or it writes.                *)
OtherCall(e) ==
    /\ ~ InCall(e)
    /\ BeginCall
    /\ \/ Arrives(e) /\ UNCHANGED <<paired, noise>>
       \/ \E b \in Strays : Transmit(Other(e), b) /\ paired' = FALSE
    /\ UNCHANGED <<writer, packet, w, r, resets>>

(* The watchdog or a power cut ends what the end was doing.                *)
Reset(e) ==
    /\ InCall(e)
    /\ resets < MaxResets
    /\ resets' = resets + 1
    /\ rx' = [rx EXCEPT ![e] = Empty]
    /\ IF e = writer THEN w' = [w EXCEPT !.pc = "done", !.result = "reset"] /\ r' = r
                     ELSE r' = [r EXCEPT !.pc = "done", !.result = "reset"] /\ w' = w
    /\ UNCHANGED <<writer, packet, paired, calls, noise>>

-----------------------------------------------------------------------------
Init ==
    /\ rx = [e \in Ends |-> Empty]
    /\ writer \in Ends
    /\ packet \in Packets
    /\ w = WriterIdle
    /\ r = ReaderIdle
    /\ paired = TRUE
    /\ calls = 0
    /\ noise = 0
    /\ resets = 0

Write == WriteByte \/ await_ack \/ AckTimesOut
Read == ReadByte \/ write_ack \/ ReadTimesOut

Next ==
    \/ StartWrite
    \/ StartRead
    \/ Write
    \/ Read
    \/ \E e \in Ends : OtherCall(e) \/ Reset(e)

Spec == Init /\ [][Next]_vars /\ WF_vars(Write) /\ WF_vars(Read)

-----------------------------------------------------------------------------
(* Properties                                                              *)

(* The variables have their types.                                         *)
TypeOK ==
    /\ rx \in [Ends -> Byte \cup {Empty}]
    /\ writer \in Ends
    /\ packet \in Packets
    /\ w \in [pc : {"write", "ack", "done"}, out : Seq(Byte), off : 0 .. Len(packet.body),
              k : 0 .. 3, result : {"none", "ok", "no ack", "timeout", "reset"}]
    /\ w.pc = "write" => w.out # <<>>
    /\ w.pc = "ack" => w.out = <<>>
    /\ r \in [pc : {"sync", "cmd", "lo", "hi", "skip", "ack", "body", "done"},
              limit : Limits \cup {0}, out : Seq(Byte), cmd : Byte, lo : Byte,
              len : Word, off : Word, body : Seq(Byte),
              result : {"none", "ok", "bad length", "timeout", "reset"}]
    /\ r.pc = "ack" => r.out # <<>>
    /\ r.pc \notin {"ack", "done"} => r.out = <<>>
    /\ r.off <= r.len /\ Len(r.body) <= r.len
    /\ paired \in BOOLEAN
    /\ calls \in 0 .. MaxCalls
    /\ noise \in 0 .. MaxNoise
    /\ resets \in 0 .. MaxResets

TookPacket == r.result = "ok" /\ r.cmd = packet.cmd /\ r.body = packet.body

(* write_packet returns MSG_OK for a packet that is ACKed only when the    *)
(* other end has returned it, whatever bytes earlier calls left in the     *)
(* registers, the line has lost and a reset has cut, as long as the two    *)
(* calls are a pair.  The one exception: after a magic byte left by an     *)
(* earlier packet the new one's magic byte is taken for its command, and   *)
(* what is returned is under a command that does not exist.                *)
AckedMeansRead ==
    paired /\ w.pc = "done" /\ w.result = "ok" /\ NeedsAck =>
        TookPacket \/ r.cmd = MSG_MAGIC

(* A call of read_packet that is a pair with that of write_packet never    *)
(* returns, under a command its callers act on, part of a packet, bytes of *)
(* two packets, or a packet found inside the body of another one, however  *)
(* the calls before it overlapped.  A call that is not a pair may: it may  *)
(* still be reading an earlier packet, whose writer gave up at a damaged   *)
(* ACK and goes on with this one.                                          *)
WholePacketOrNothing ==
    paired /\ r.pc = "done" /\ r.result = "ok" /\ r.cmd \in {RECEIVE_MSG, ERROR_MSG} =>
        TookPacket

(* A packet that is ACKed and arrives leaves nothing behind for the next   *)
(* one, and clears away what it found.                                     *)
SuccessLeavesLineClean ==
    paired /\ w.pc = "done" /\ w.result = "ok" /\ NeedsAck /\ r.cmd # MSG_MAGIC =>
        \A e \in Ends : rx[e] = Empty

(* What the line can still see of the calls.  A byte of the packet counts  *)
(* for more than the byte in the reader's register it becomes, and that    *)
(* for more than the ACK it may set off, byte by byte.                     *)
Unwritten == IF w.pc = "done" THEN 0 ELSE Len(w.out) + (Len(packet.body) - w.off)
Unacked == IF r.pc = "ack" THEN Len(r.out) ELSE 0
Waiting(e) == IF rx[e] = Empty THEN 0 ELSE 1
CallsOpen == (IF w.pc = "done" THEN 0 ELSE 1)
             + (IF r.pc = "done" THEN 0 ELSE IF r.pc = "skip" THEN 1 ELSE 2)

LineWork == 10 * Unwritten + 9 * Waiting(reader) + 2 * Unacked + Waiting(writer) + CallsOpen

(* The two ends cannot keep each other busy: whatever earlier packets left *)
(* in the registers, what is lost and what a body is mistaken for, every   *)
(* byte that moves, every timeout and every reset brings the calls that    *)
(* are open nearer their end, so that they are over in a time that the     *)
(* packet's length bounds.                                                 *)
CallsBounded == [][calls' = calls => LineWork' \in 0 .. LineWork - 1]_vars

(* Each call returns, whatever is lost and however the calls overlap.      *)
CallsEnd ==
    /\ w.pc # "done" ~> w.pc = "done"
    /\ r.pc # "done" ~> r.pc = "done"
=============================================================================
