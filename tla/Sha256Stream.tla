---------------------------- MODULE Sha256Stream ----------------------------
(***************************************************************************)
(* The streaming context of sha256_raw.c: a message fed in calls of any    *)
(* length, cut into blocks for the compression function, padded at the     *)
(* end.  The compression function is ideal: the digest is the stream of    *)
(* bytes it was given, block after block.  Arrays are indexed from 0, as   *)
(* in the code; one step is one iteration of the update loop.              *)
(***************************************************************************)
EXTENDS Integers

CONSTANTS
    BlockSize,    \* 64
    LengthSize,   \* 8: bytes of the length at the end of the padding
    MaxBytes,     \* bound: bytes of one message
    MaxMessages   \* bound: messages begun with one context

ASSUME SizesAssumption ==
    /\ BlockSize \in Nat \ {0} /\ LengthSize \in Nat \ {0}
    /\ LengthSize < BlockSize
    /\ MaxBytes \in Nat /\ MaxMessages \in Nat

VARIABLES
    buf,       \* ctx->buf, ctx->curlen and ctx->length, which counts bits
    curlen,
    length,
    stream,    \* what the compression function has been given
    total,     \* how many bytes that is
    message,   \* the number of the message
    fed,       \* bytes of it passed to update so far
    left,      \* bytes of the call in progress not yet taken
    pc         \* "none", "open", "marked" or "closed"

context == <<buf, curlen, length>>
vars == <<context, stream, total, message, fed, left, pc>>

Index == 0 .. BlockSize - 1

(* Bytes: the k-th of message m, the padding's, and the length's.          *)
Data(m, k) == [kind |-> "data", of |-> m, at |-> k]
Mark == [kind |-> "0x80", of |-> 0, at |-> 0]
Zero == [kind |-> "0x00", of |-> 0, at |-> 0]
Junk == [kind |-> "junk", of |-> 0, at |-> 0]
LengthByte(bits, j) == [kind |-> "length", of |-> bits, at |-> j]

(* sha256_compress on the bytes block[0], block[1], ...                    *)
Compress(block) ==
    /\ stream' = [k \in 0 .. total + BlockSize - 1 |->
                     IF k < total THEN stream[k] ELSE block[k - total]]
    /\ total' = total + BlockSize

-----------------------------------------------------------------------------
(* sha256_raw_ctx_init leaves buf alone: it holds what the last user of    *)
(* the memory left there, perhaps of a message that was never finished.    *)
CtxInit ==
    /\ message < MaxMessages
    /\ message' = message + 1
    /\ curlen' = 0 /\ length' = 0
    /\ buf' \in {buf, [i \in Index |-> Junk]}
    /\ stream' = [k \in 0 .. -1 |-> Zero] /\ total' = 0
    /\ fed' = 0 /\ left' = 0
    /\ pc' = "open"

(* A call of sha256_raw_ctx_update.                                        *)
Update(len) ==
    /\ pc = "open" /\ left = 0
    /\ fed + len <= MaxBytes
    /\ fed' = fed + len
    /\ left' = len
    /\ UNCHANGED <<context, stream, total, message, pc>>

(* The next byte of the call is this byte of the message.             *)
NextByte == fed - left

(* Mutation: whole blocks pass ahead of the bytes that wait in buf.        *)
FullBlockAhead ==
    /\ left >= BlockSize
    /\ Compress([i \in Index |-> Data(message, NextByte + i)])
    /\ length' = length + 8 * BlockSize
    /\ left' = left - BlockSize
    /\ UNCHANGED <<buf, curlen, message, fed, pc>>

(* A whole block goes to the compression function from the caller's data.  *)
FullBlock ==
    /\ curlen = 0 /\ left >= BlockSize
    /\ Compress([i \in Index |-> Data(message, NextByte + i)])
    /\ length' = length + 8 * BlockSize
    /\ left' = left - BlockSize
    /\ UNCHANGED <<buf, curlen, message, fed, pc>>

Taken == IF left < BlockSize - curlen THEN left ELSE BlockSize - curlen

(* buf after the copy.                                                     *)
Filled == [i \in Index |-> IF i \in curlen .. curlen + Taken - 1
                           THEN Data(message, NextByte + i - curlen) ELSE buf[i]]

(* Mutations: a buffer that is full waits for the next byte, and is never  *)
(* compressed, or is when that byte comes; bytes that do not fill the      *)
(* buffer are not copied.                                                  *)
CopyKeepsFull ==
    /\ left > 0
    /\ ~ (curlen = 0 /\ left >= BlockSize)
    /\ buf' = Filled
    /\ curlen' = curlen + Taken
    /\ left' = left - Taken
    /\ UNCHANGED <<length, stream, total, message, fed, pc>>

CopyFlushesLate ==
    /\ left > 0
    /\ ~ (curlen = 0 /\ left >= BlockSize)
    /\ buf' = Filled
    /\ left' = left - Taken
    /\ IF curlen = BlockSize
       THEN Compress(buf) /\ length' = length + 8 * BlockSize /\ curlen' = 0
       ELSE curlen' = curlen + Taken /\ UNCHANGED <<length, stream, total>>
    /\ UNCHANGED <<message, fed, pc>>

CopyWhole ==
    /\ left >= BlockSize - curlen
    /\ ~ (curlen = 0 /\ left >= BlockSize)
    /\ buf' = Filled
    /\ left' = left - Taken
    /\ Compress(Filled)
    /\ length' = length + 8 * BlockSize
    /\ curlen' = 0
    /\ UNCHANGED <<message, fed, pc>>

(* Other bytes go through buf, which is compressed once it is full.        *)
Copy ==
    /\ left > 0
    /\ ~ (curlen = 0 /\ left >= BlockSize)
    /\ buf' = Filled
    /\ left' = left - Taken
    /\ IF curlen + Taken = BlockSize
       THEN /\ Compress(Filled)
            /\ length' = length + 8 * BlockSize
            /\ curlen' = 0
       ELSE /\ curlen' = curlen + Taken
            /\ UNCHANGED <<length, stream, total>>
    /\ UNCHANGED <<message, fed, pc>>

-----------------------------------------------------------------------------
(* sha256_raw_ctx_final.                                                   *)

(* buf with its mark, and zeros up to the given index.                     *)
Marked(end) == [i \in Index |-> IF i = curlen THEN Mark
                                ELSE IF i \in curlen + 1 .. end - 1 THEN Zero
                                ELSE buf[i]]

(* Mutation: a length field that just fits is moved to another block.      *)
MarkAtTheEdge ==
    /\ pc = "open" /\ left = 0
    /\ pc' = "marked"
    /\ length' = length + 8 * curlen
    /\ IF curlen + 1 >= BlockSize - LengthSize
       THEN /\ buf' = Marked(BlockSize)
            /\ Compress(buf')
            /\ curlen' = 0
       ELSE /\ buf' = Marked(curlen + 1)
            /\ curlen' = curlen + 1
            /\ UNCHANGED <<stream, total>>
    /\ UNCHANGED <<message, fed, left>>

(* The bits of the partial block are counted and the mark appended; if the *)
(* length does not fit any more, this block ends with zeros.               *)
AppendMark ==
    /\ pc = "open" /\ left = 0
    /\ pc' = "marked"
    /\ length' = length + 8 * curlen
    /\ IF curlen + 1 > BlockSize - LengthSize
       THEN /\ buf' = Marked(BlockSize)
            /\ Compress(buf')
            /\ curlen' = 0
       ELSE /\ buf' = Marked(curlen + 1)
            /\ curlen' = curlen + 1
            /\ UNCHANGED <<stream, total>>
    /\ UNCHANGED <<message, fed, left>>

(* Zeros up to the length field, the length, the last block; the context   *)
(* is wiped.                                                               *)
Finish ==
    /\ pc = "marked"
    /\ Compress([i \in Index |->
           IF i >= BlockSize - LengthSize
           THEN LengthByte(length, i - (BlockSize - LengthSize))
           ELSE IF i >= curlen THEN Zero ELSE buf[i]])
    /\ buf' = [i \in Index |-> Zero] /\ curlen' = 0 /\ length' = 0
    /\ pc' = "closed"
    /\ UNCHANGED <<message, fed, left>>

-----------------------------------------------------------------------------
Init ==
    /\ buf = [i \in Index |-> Junk] /\ curlen = 0 /\ length = 0
    /\ stream = [k \in 0 .. -1 |-> Zero] /\ total = 0
    /\ message = 0 /\ fed = 0 /\ left = 0
    /\ pc = "none"

Loop == FullBlock \/ Copy

Next ==
    \/ CtxInit
    \/ \E len \in 0 .. MaxBytes : Update(len)
    \/ Loop
    \/ AppendMark
    \/ Finish

Spec == Init /\ [][Next]_vars /\ WF_vars(Loop)

-----------------------------------------------------------------------------
(* Properties                                                              *)

Cell == [kind : {"data", "length"}, of : Nat, at : Nat] \cup {Mark, Zero, Junk}

(* The variables have their types; between two iterations there is room in *)
(* buf for at least one byte.                                              *)
TypeOK ==
    /\ buf \in [Index -> Cell]
    /\ curlen \in Index
    /\ length \in Nat
    /\ total \in Nat
    /\ stream \in [0 .. total - 1 -> Cell]
    /\ message \in 0 .. MaxMessages
    /\ fed \in 0 .. MaxBytes
    /\ left \in 0 .. fed
    /\ pc \in {"none", "open", "marked", "closed"}

(* The padded message of FIPS 180: the bytes, the mark, the fewest zeros   *)
(* that make whole blocks, and the number of bits.                         *)
Whole(t) == \E blocks \in 0 .. t : t = blocks * BlockSize

PaddedSize(n) ==
    CHOOSE t \in n + 1 + LengthSize .. n + LengthSize + BlockSize : Whole(t)

Padded(m, n) == [k \in 0 .. PaddedSize(n) - 1 |->
    IF k < n THEN Data(m, k)
    ELSE IF k = n THEN Mark
    ELSE IF k < PaddedSize(n) - LengthSize THEN Zero
    ELSE LengthByte(8 * n, k - (PaddedSize(n) - LengthSize))]

(* However the message is cut into calls, what is compressed is the padded *)
(* message, and nothing that buf held before.                              *)
DigestOfPaddedMessage == pc = "closed" => stream = Padded(message, fed)

(* While a message is fed, what has been compressed and what waits in buf  *)
(* are together the bytes taken so far, in order, and the bits counted are *)
(* those compressed.                                                       *)
BytesInOrder ==
    pc = "open" =>
        /\ total + curlen = NextByte
        /\ length = 8 * total
        /\ \A k \in 0 .. total - 1 : stream[k] = Data(message, k)
        /\ \A i \in 0 .. curlen - 1 : buf[i] = Data(message, total + i)

(* Each turn of the loop takes at least one byte of the call: buf is never *)
(* full when the loop comes round.                                         *)
UpdateAdvances == [][left > 0 => left' \in 0 .. left - 1]_vars

(* Every call of update takes all its bytes.                               *)
UpdateEnds == left > 0 ~> left = 0
=============================================================================
