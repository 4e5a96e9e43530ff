------------------------- MODULE Sha256StreamProofs -------------------------
(***************************************************************************)
(* The digest is of the padded message, for every size of block and length *)
(* field, however long the message and however it is cut into calls.       *)
(***************************************************************************)
EXTENDS Sha256Stream, TLAPS

(* Byte k of what has been compressed or waits in buf.                     *)
At(k) == IF k < total THEN stream[k] ELSE buf[k - total]

Arrays ==
    /\ buf = [i \in Index |-> buf[i]]
    /\ stream = [k \in 0 .. total - 1 |-> stream[k]]

Counts ==
    /\ total \in Nat /\ Whole(total)
    /\ curlen \in Index
    /\ fed \in Nat /\ left \in 0 .. fed
    /\ pc \in {"none", "open", "marked", "closed"}
    /\ pc # "open" => left = 0

OpenInv ==
    pc = "open" =>
        /\ total + curlen = fed - left
        /\ length = 8 * total
        /\ \A k \in 0 .. total + curlen - 1 : At(k) = Data(message, k)

(* After the mark: the length field fits behind curlen, and one block less *)
(* would not have done.                                                    *)
MarkedInv ==
    pc = "marked" =>
        /\ length = 8 * fed
        /\ curlen <= BlockSize - LengthSize
        /\ fed < total + curlen
        /\ total <= fed + LengthSize
        /\ \A k \in 0 .. total + curlen - 1 :
              At(k) = IF k < fed THEN Data(message, k) ELSE IF k = fed THEN Mark ELSE Zero

Inv == Arrays /\ Counts /\ OpenInv /\ MarkedInv /\ DigestOfPaddedMessage

-----------------------------------------------------------------------------
(* Two different numbers of whole blocks are at least a block apart.       *)
LEMMA BlocksApart ==
    ASSUME NEW t \in Nat, NEW u \in Nat, Whole(t), Whole(u), t < u
    PROVE  t + BlockSize <= u
<1>1. PICK q \in 0 .. t : t = q * BlockSize
    BY DEF Whole
<1>2. PICK r \in 0 .. u : u = r * BlockSize
    BY DEF Whole
<1>3. BlockSize \in Nat \ {0} /\ q \in Nat /\ r \in Nat
    BY SizesAssumption
<1>4. CASE q < r
    <2>1. PICK d \in Nat : r = q + 1 + d
        <3>1. r - q - 1 \in Nat /\ r = q + 1 + (r - q - 1)
            BY <1>3, <1>4
        <3> QED BY <3>1
    <2>2. d * BlockSize \in Nat
        BY <1>3
    <2>3. r * BlockSize = q * BlockSize + BlockSize + d * BlockSize
        BY <1>3, <2>1
    <2> QED BY <1>1, <1>2, <1>3, <2>2, <2>3
<1>5. CASE r <= q
    <2>1. PICK d \in Nat : q = r + d
        <3>1. q - r \in Nat /\ q = r + (q - r)
            BY <1>3, <1>5
        <3> QED BY <3>1
    <2>2. d * BlockSize \in Nat /\ r * BlockSize \in Nat
        BY <1>3
    <2>3. q * BlockSize = r * BlockSize + d * BlockSize
        BY <1>3, <2>1
    <2> QED BY <1>1, <1>2, <2>2, <2>3
<1> QED BY <1>3, <1>4, <1>5

LEMMA OneBlockMore ==
    ASSUME NEW t \in Nat, Whole(t)
    PROVE  t + BlockSize \in Nat /\ Whole(t + BlockSize)
<1>1. PICK q \in 0 .. t : t = q * BlockSize
    BY DEF Whole
<1>2. BlockSize \in Nat \ {0} /\ q \in Nat
    BY SizesAssumption
<1>3. t + BlockSize = (q + 1) * BlockSize
    BY <1>1, <1>2
<1>4. q + 1 \in 0 .. t + BlockSize
    BY <1>1, <1>2
<1> QED BY <1>2, <1>3, <1>4 DEF Whole

(* The size of the padded message is the one number of whole blocks with   *)
(* room for mark and length, and none to spare.                            *)
LEMMA PaddedSizeIs ==
    ASSUME NEW n \in Nat, NEW t \in Nat, Whole(t),
           n + 1 + LengthSize <= t, t <= n + LengthSize + BlockSize
    PROVE  PaddedSize(n) = t
<1> DEFINE u == PaddedSize(n)
<1>1. BlockSize \in Nat /\ LengthSize \in Nat
    BY SizesAssumption
<1>2. t \in n + 1 + LengthSize .. n + LengthSize + BlockSize
    BY <1>1
<1>3. u \in n + 1 + LengthSize .. n + LengthSize + BlockSize /\ Whole(u)
    BY <1>2 DEF PaddedSize
<1> HIDE DEF u
<1>4. u \in Nat
    BY <1>1, <1>3
<1>5. ~ (u < t) /\ ~ (t < u)
    BY <1>1, <1>2, <1>3, <1>4, BlocksApart
<1>6. u = t
    BY <1>4, <1>5
<1> QED BY <1>6 DEF u

-----------------------------------------------------------------------------
LEMMA InitInv == Init => Inv
<1> SUFFICES ASSUME Init PROVE Inv
    OBVIOUS
<1>1. Whole(0)
    BY SizesAssumption DEF Whole
<1>2. 0 \in Index
    BY SizesAssumption DEF Index
<1> QED BY <1>1, <1>2
        DEF Init, Inv, Arrays, Counts, OpenInv, MarkedInv, DigestOfPaddedMessage

LEMMA CtxInitInv == Inv /\ CtxInit => Inv'
<1>1. Whole(0)
    BY SizesAssumption DEF Whole
<1>2. 0 \in Index
    BY SizesAssumption DEF Index
<1> QED BY <1>1, <1>2
        DEF CtxInit, Inv, Arrays, Counts, OpenInv, MarkedInv, DigestOfPaddedMessage, Whole

(* What compressing a block does to the stream.                            *)
LEMMA CompressAppends ==
    ASSUME total \in Nat, Whole(total), NEW block, Compress(block)
    PROVE  /\ total' = total + BlockSize /\ total' \in Nat /\ Whole(total')
           /\ stream' = [k \in 0 .. total' - 1 |-> stream'[k]]
           /\ \A k \in 0 .. total - 1 : stream'[k] = stream[k]
           /\ \A k \in total .. total' - 1 : stream'[k] = block[k - total]
<1>1. total' = total + BlockSize /\ total' \in Nat /\ Whole(total + BlockSize)
    BY OneBlockMore DEF Compress
<1>2. BlockSize \in Nat \ {0}
    BY SizesAssumption
<1>3. stream' = [k \in 0 .. total + BlockSize - 1 |->
                     IF k < total THEN stream[k] ELSE block[k - total]]
    BY DEF Compress
<1>4. Whole(total')
    BY <1>1
<1> QED BY <1>1, <1>2, <1>3, <1>4

LEMMA UpdateInv == Inv /\ (\E len \in 0 .. MaxBytes : Update(len)) => Inv'
<1> SUFFICES ASSUME Inv, NEW len \in 0 .. MaxBytes, Update(len) PROVE Inv'
    OBVIOUS
<1> USE DEF Inv, Update, context
<1>1. len \in Nat
    BY SizesAssumption
<1>2. Arrays' /\ Counts'
    BY <1>1 DEF Arrays, Counts, Whole
<1>3. OpenInv'
    BY <1>1 DEF OpenInv, Counts, At
<1> QED BY <1>2, <1>3 DEF MarkedInv, DigestOfPaddedMessage

LEMMA FullBlockInv == Inv /\ FullBlock => Inv'
<1> SUFFICES ASSUME Inv, FullBlock PROVE Inv'
    OBVIOUS
<1> DEFINE block == [i \in Index |-> Data(message, NextByte + i)]
<1>1. BlockSize \in Nat \ {0}
    BY SizesAssumption
<1>2. /\ total \in Nat /\ Whole(total) /\ curlen = 0
      /\ fed \in Nat /\ left \in 0 .. fed /\ left >= BlockSize
    BY DEF Inv, Counts, FullBlock
<1>3. Compress(block)
    BY DEF FullBlock
<1>4. \A i \in Index : block[i] = Data(message, NextByte + i)
    OBVIOUS
<1> HIDE DEF block
<1>5. /\ total' = total + BlockSize /\ total' \in Nat /\ Whole(total')
      /\ stream' = [k \in 0 .. total' - 1 |-> stream'[k]]
      /\ \A k \in 0 .. total - 1 : stream'[k] = stream[k]
      /\ \A k \in total .. total' - 1 : stream'[k] = block[k - total]
    BY <1>2, <1>3, CompressAppends
<1>6. pc = "open" /\ pc' = "open" /\ buf' = buf /\ curlen' = 0 /\ message' = message
      /\ fed' = fed /\ left' = left - BlockSize /\ length' = length + 8 * BlockSize
    BY <1>1, <1>2 DEF Inv, Counts, FullBlock
<1>7. Arrays'
    BY <1>5, <1>6 DEF Inv, Arrays
<1>8. Counts'
    BY <1>1, <1>2, <1>5, <1>6, SMTT(60) DEF Inv, Counts
<1>9. total = NextByte /\ length = 8 * total
      /\ \A k \in 0 .. total - 1 : stream[k] = Data(message, k)
    BY <1>2, <1>6 DEF Inv, OpenInv, At, NextByte
<1>10. ASSUME NEW k \in 0 .. total' + curlen' - 1 PROVE At(k)' = Data(message', k)
    <2>1. CASE k < total
        BY <1>2, <1>5, <1>6, <1>9, <1>10, <2>1, SMTT(60) DEF At
    <2>2. CASE total <= k
        <3>1. k - total \in Index /\ k \in total .. total' - 1 /\ NextByte + (k - total) = k
            BY <1>1, <1>2, <1>5, <1>6, <1>9, <1>10, <2>2, SMTT(60) DEF Index
        <3> QED BY <1>4, <1>5, <1>6, <3>1 DEF At
    <2> QED BY <1>2, <1>5, <1>10, <2>1, <2>2
<1>11. OpenInv'
    BY <1>1, <1>2, <1>5, <1>6, <1>9, <1>10, SMTT(60) DEF OpenInv, NextByte
<1> QED BY <1>6, <1>7, <1>8, <1>11 DEF Inv, MarkedInv, DigestOfPaddedMessage

LEMMA CopyInv == Inv /\ Copy => Inv'
<1> SUFFICES ASSUME Inv, Copy PROVE Inv'
    OBVIOUS
<1>1. BlockSize \in Nat \ {0}
    BY SizesAssumption
<1>2. /\ total \in Nat /\ Whole(total) /\ curlen \in Index
      /\ fed \in Nat /\ left \in 0 .. fed /\ left > 0
    BY DEF Inv, Counts, Copy
<1>3. /\ Taken \in Nat \ {0} /\ Taken <= left /\ curlen + Taken <= BlockSize
      /\ curlen + Taken \in Nat /\ left - Taken \in 0 .. fed
    BY <1>1, <1>2 DEF Taken, Index
<1>4. pc = "open" /\ pc' = "open" /\ buf' = Filled /\ message' = message
      /\ fed' = fed /\ left' = left - Taken
    BY <1>2 DEF Inv, Counts, Copy
<1>5. total + curlen = NextByte /\ length = 8 * total
      /\ \A k \in 0 .. total + curlen - 1 : At(k) = Data(message, k)
    BY <1>4 DEF Inv, OpenInv, NextByte
<1>6. Filled = [i \in Index |-> Filled[i]]
    BY DEF Filled
<1>7. ASSUME NEW i \in 0 .. curlen + Taken - 1
      PROVE  Filled[i] = Data(message, total + i)
    <2>1. i \in Index
        BY <1>1, <1>2, <1>3 DEF Index
    <2>2. CASE i < curlen
        <3>1. At(total + i) = Data(message, total + i) /\ At(total + i) = buf[i]
            BY <1>2, <1>5, <2>2 DEF At, Index
        <3> QED BY <2>1, <2>2, <3>1, <1>2 DEF Filled, Index
    <2>3. CASE curlen <= i
        <3>1. NextByte + i - curlen = total + i /\ i \in curlen .. curlen + Taken - 1
            BY <1>2, <1>3, <1>5, <2>3 DEF Index
        <3> QED BY <2>1, <3>1 DEF Filled
    <2> QED BY <1>2, <2>2, <2>3 DEF Index
<1>8. CASE curlen + Taken = BlockSize
    <2>1. Compress(Filled) /\ curlen' = 0 /\ length' = length + 8 * BlockSize
        BY <1>8 DEF Copy
    <2>2. /\ total' = total + BlockSize /\ total' \in Nat /\ Whole(total')
          /\ stream' = [k \in 0 .. total' - 1 |-> stream'[k]]
          /\ \A k \in 0 .. total - 1 : stream'[k] = stream[k]
          /\ \A k \in total .. total' - 1 : stream'[k] = Filled[k - total]
        BY <1>2, <2>1, CompressAppends
    <2>0. total' = total + BlockSize /\ curlen' = 0 /\ total \in Nat /\ curlen \in Nat
          /\ fed \in Nat /\ left \in Nat /\ Taken \in Nat /\ BlockSize \in Nat
        BY <1>1, <1>2, <1>3, <2>1, <2>2 DEF Index
    <2>3. Arrays' /\ Counts'
        BY <1>1, <1>3, <1>4, <1>6, <2>1, <2>2, SMTT(60) DEF Inv, Arrays, Counts, Index
    <2>4. ASSUME NEW k \in 0 .. total' + curlen' - 1 PROVE At(k)' = Data(message', k)
        <3>1. CASE k < total
            <4>1. At(k) = Data(message, k) /\ At(k) = stream[k]
                BY <1>2, <1>5, <2>4, <3>1 DEF At, Index
            <4> QED BY <1>2, <1>4, <2>1, <2>2, <2>4, <3>1, <4>1, SMTT(60) DEF At
        <3>2. CASE total <= k
            <4>1. k - total \in 0 .. curlen + Taken - 1 /\ total + (k - total) = k
                  /\ k \in total .. total' - 1
                BY <1>8, <2>0, <2>4, <3>2
            <4>2. Filled[k - total] = Data(message, k)
                BY <1>7, <4>1
            <4> QED BY <1>4, <2>2, <4>1, <4>2 DEF At
        <3> QED BY <1>2, <2>2, <2>4, <3>1, <3>2
    <2>5. total' + curlen' = fed' - left' /\ length' = 8 * total'
        <3>1. fed' - left' = fed - left + Taken /\ length' = 8 * total + 8 * BlockSize
            BY <1>4, <1>5, <2>0, <2>1
        <3>2. total + curlen = fed - left
            BY <1>5 DEF NextByte
        <3> QED BY <1>8, <2>0, <3>1, <3>2
    <2>6. OpenInv'
        BY <2>4, <2>5 DEF OpenInv
    <2> QED BY <1>4, <2>3, <2>6 DEF Inv, MarkedInv, DigestOfPaddedMessage
<1>9. CASE curlen + Taken # BlockSize
    <2>1. curlen' = curlen + Taken /\ length' = length /\ stream' = stream /\ total' = total
        BY <1>9 DEF Copy
    <2>2. curlen' \in Index
        BY <1>1, <1>3, <1>9, <2>1 DEF Index
    <2>3. Arrays' /\ Counts'
        BY <1>3, <1>4, <1>6, <2>1, <2>2 DEF Inv, Arrays, Counts
    <2>4. ASSUME NEW k \in 0 .. total' + curlen' - 1 PROVE At(k)' = Data(message', k)
        <3>1. CASE k < total
            <4>1. At(k) = Data(message, k) /\ At(k) = stream[k]
                BY <1>2, <1>5, <2>4, <3>1 DEF At, Index
            <4> QED BY <1>4, <2>1, <3>1, <4>1 DEF At
        <3>2. CASE total <= k
            <4>1. k - total \in 0 .. curlen + Taken - 1 /\ total + (k - total) = k
                BY <1>2, <1>3, <2>1, <2>4, <3>2 DEF Index
            <4>2. Filled[k - total] = Data(message, k)
                BY <1>7, <4>1
            <4> QED BY <1>2, <1>4, <2>1, <2>4, <3>2, <4>2 DEF At
        <3> QED BY <1>2, <2>1, <2>4, <3>1, <3>2
    <2>5. OpenInv'
        BY <1>2, <1>3, <1>4, <1>5, <2>1, <2>4 DEF OpenInv, NextByte, Index
    <2> QED BY <1>4, <2>3, <2>5 DEF Inv, MarkedInv, DigestOfPaddedMessage
<1> QED BY <1>8, <1>9

LEMMA AppendMarkInv == Inv /\ AppendMark => Inv'
<1> SUFFICES ASSUME Inv, AppendMark PROVE Inv'
    OBVIOUS
<1>1. BlockSize \in Nat \ {0} /\ LengthSize \in Nat \ {0} /\ LengthSize < BlockSize
    BY SizesAssumption
<1>2. /\ total \in Nat /\ Whole(total) /\ curlen \in Index
      /\ fed \in Nat /\ left = 0
    BY DEF Inv, Counts, AppendMark
<1>3. pc = "open" /\ pc' = "marked" /\ message' = message /\ fed' = fed /\ left' = left
      /\ length' = length + 8 * curlen
    BY DEF AppendMark
<1>4. total + curlen = fed /\ length = 8 * total
      /\ \A k \in 0 .. total + curlen - 1 : At(k) = Data(message, k)
    BY <1>2, <1>3 DEF Inv, OpenInv, Index
<1>5. length' = 8 * fed'
    BY <1>2, <1>3, <1>4 DEF Index
<1>6. ASSUME NEW end
      PROVE  /\ Marked(end) = [i \in Index |-> Marked(end)[i]]
             /\ Marked(end)[curlen] = Mark
             /\ \A i \in 0 .. curlen - 1 : Marked(end)[i] = Data(message, total + i)
             /\ \A i \in curlen + 1 .. end - 1 : i \in Index => Marked(end)[i] = Zero
    <2>1. ASSUME NEW i \in 0 .. curlen - 1 PROVE Marked(end)[i] = Data(message, total + i)
        <3>1. i \in Index /\ i # curlen /\ i \notin curlen + 1 .. end - 1
            BY <1>1, <1>2, <2>1 DEF Index
        <3>2. At(total + i) = Data(message, total + i) /\ At(total + i) = buf[i]
            BY <1>2, <1>4, <2>1 DEF At, Index
        <3> QED BY <3>1, <3>2 DEF Marked
    <2>2. Marked(end)[curlen] = Mark
        BY <1>2 DEF Marked
    <2>3. ASSUME NEW i \in curlen + 1 .. end - 1, i \in Index PROVE Marked(end)[i] = Zero
        BY <1>2, <2>3 DEF Marked, Index
    <2>4. Marked(end) = [i \in Index |-> Marked(end)[i]]
        BY DEF Marked
    <2> QED BY <2>1, <2>2, <2>3, <2>4
<1>7. CASE curlen + 1 > BlockSize - LengthSize
    <2> DEFINE block == Marked(BlockSize)
    <2>1. buf' = block /\ Compress(block) /\ curlen' = 0
        BY <1>7 DEF AppendMark
    <2> HIDE DEF block
    <2>2. /\ total' = total + BlockSize /\ total' \in Nat /\ Whole(total')
          /\ stream' = [k \in 0 .. total' - 1 |-> stream'[k]]
          /\ \A k \in 0 .. total - 1 : stream'[k] = stream[k]
          /\ \A k \in total .. total' - 1 : stream'[k] = block[k - total]
        BY <1>2, <2>1, CompressAppends
    <2>3. Arrays' /\ Counts'
        BY <1>1, <1>2, <1>3, <1>6, <2>1, <2>2, SMTT(60) DEF Arrays, Counts, Index, block
    <2>4. ASSUME NEW k \in 0 .. total' + curlen' - 1
          PROVE  At(k)' = IF k < fed THEN Data(message, k) ELSE IF k = fed THEN Mark ELSE Zero
        <3>1. At(k)' = stream'[k] /\ k \in 0 .. total' - 1
            BY <2>1, <2>2 DEF At
        <3>2. CASE k < total
            <4>1. At(k) = Data(message, k) /\ At(k) = stream[k] /\ k < fed
                BY <1>2, <1>4, <2>4, <3>2 DEF At, Index
            <4> QED BY <1>2, <2>2, <3>1, <3>2, <4>1
        <3>3. CASE total <= k
            <4> DEFINE i == k - total
            <4>1. i \in Index /\ stream'[k] = block[i] /\ total + i = k
                BY <1>1, <1>2, <2>2, <3>1, <3>3, SMTT(60) DEF Index
            <4>2. block[i] = IF i < curlen THEN Data(message, total + i)
                             ELSE IF i = curlen THEN Mark ELSE Zero
                <5>0. i \in Nat /\ curlen \in Nat /\ i < BlockSize
                    BY <1>1, <1>2, <4>1 DEF Index
                <5>1. CASE i < curlen
                    BY <1>6, <5>0, <5>1 DEF block
                <5>2. CASE i = curlen
                    BY <1>6, <5>0, <5>2 DEF block
                <5>3. CASE i > curlen
                    <6>1. i \in curlen + 1 .. BlockSize - 1
                        BY <1>1, <5>0, <5>3
                    <6> QED BY <1>6, <4>1, <5>0, <5>3, <6>1 DEF block
                <5> QED BY <5>0, <5>1, <5>2, <5>3
            <4>3. (i < curlen <=> k < fed) /\ (i = curlen <=> k = fed)
                BY <1>2, <1>4, <4>1 DEF Index
            <4> HIDE DEF i
            <4> QED BY <3>1, <4>1, <4>2, <4>3
        <3> QED BY <1>2, <2>2, <3>1, <3>2, <3>3
    <2>5. curlen' <= BlockSize - LengthSize /\ fed < total' + curlen' /\ total' <= fed + LengthSize
        BY <1>1, <1>2, <1>4, <1>7, <2>1, <2>2, SMTT(60) DEF Index
    <2>6. MarkedInv'
        BY <1>3, <1>5, <2>4, <2>5 DEF MarkedInv
    <2> QED BY <1>3, <2>3, <2>6 DEF Inv, OpenInv, DigestOfPaddedMessage
<1>8. CASE ~ (curlen + 1 > BlockSize - LengthSize)
    <2> DEFINE block == Marked(curlen + 1)
    <2>1. buf' = block /\ curlen' = curlen + 1 /\ stream' = stream /\ total' = total
        BY <1>8 DEF AppendMark
    <2> HIDE DEF block
    <2>2. Arrays' /\ Counts'
        <3>1. curlen' \in Index
            BY <1>1, <1>2, <1>8, <2>1 DEF Index
        <3>2. block = [i \in Index |-> block[i]]
            BY <1>6 DEF block
        <3> QED BY <1>2, <1>3, <2>1, <3>1, <3>2 DEF Inv, Arrays, Counts
    <2>3. ASSUME NEW k \in 0 .. total' + curlen' - 1
          PROVE  At(k)' = IF k < fed THEN Data(message, k) ELSE IF k = fed THEN Mark ELSE Zero
        <3>1. CASE k < total
            <4>1. At(k) = Data(message, k) /\ At(k) = stream[k] /\ k < fed
                BY <1>2, <1>4, <2>3, <3>1 DEF At, Index
            <4> QED BY <2>1, <3>1, <4>1 DEF At
        <3>2. CASE total <= k
            <4> DEFINE i == k - total
            <4>1. i \in 0 .. curlen /\ At(k)' = block[i] /\ total + i = k
                BY <1>2, <2>1, <2>3, <3>2 DEF At, Index
            <4>2. block[i] = IF i < curlen THEN Data(message, total + i) ELSE Mark
                BY <1>2, <1>6, <4>1, SMTT(60) DEF Index, block
            <4>3. (i < curlen <=> k < fed) /\ (i = curlen <=> k = fed)
                BY <1>2, <1>4, <4>1 DEF Index
            <4> HIDE DEF i
            <4> QED BY <1>2, <4>1, <4>2, <4>3 DEF Index
        <3> QED BY <1>2, <2>1, <3>1, <3>2 DEF Index
    <2>4. curlen' <= BlockSize - LengthSize /\ fed < total' + curlen' /\ total' <= fed + LengthSize
        BY <1>1, <1>2, <1>4, <1>8, <2>1 DEF Index
    <2>5. MarkedInv'
        BY <1>3, <1>5, <2>3, <2>4 DEF MarkedInv
    <2> QED BY <1>3, <2>2, <2>5 DEF Inv, OpenInv, DigestOfPaddedMessage
<1> QED BY <1>7, <1>8

LEMMA FinishInv == Inv /\ Finish => Inv'
<1> SUFFICES ASSUME Inv, Finish PROVE Inv'
    OBVIOUS
<1> DEFINE field == BlockSize - LengthSize
           block == [i \in Index |->
               IF i >= BlockSize - LengthSize
               THEN LengthByte(length, i - (BlockSize - LengthSize))
               ELSE IF i >= curlen THEN Zero ELSE buf[i]]
<1>1. BlockSize \in Nat \ {0} /\ LengthSize \in Nat \ {0} /\ LengthSize < BlockSize
    BY SizesAssumption
<1>2. /\ total \in Nat /\ Whole(total) /\ curlen \in Index
      /\ fed \in Nat /\ left = 0 /\ pc = "marked"
    BY DEF Inv, Counts, Finish
<1>3. pc' = "closed" /\ message' = message /\ fed' = fed /\ left' = left
      /\ curlen' = 0 /\ buf' = [i \in Index |-> Zero] /\ Compress(block)
    BY DEF Finish
<1>4. /\ length = 8 * fed /\ curlen <= field
      /\ fed < total + curlen /\ total <= fed + LengthSize
      /\ \A k \in 0 .. total + curlen - 1 :
            At(k) = IF k < fed THEN Data(message, k) ELSE IF k = fed THEN Mark ELSE Zero
    BY <1>2 DEF Inv, MarkedInv
<1>5. \A i \in Index :
        block[i] = IF i >= field THEN LengthByte(length, i - field)
                   ELSE IF i >= curlen THEN Zero ELSE buf[i]
    OBVIOUS
<1> HIDE DEF block
<1>6. /\ total' = total + BlockSize /\ total' \in Nat /\ Whole(total')
      /\ stream' = [k \in 0 .. total' - 1 |-> stream'[k]]
      /\ \A k \in 0 .. total - 1 : stream'[k] = stream[k]
      /\ \A k \in total .. total' - 1 : stream'[k] = block[k - total]
    BY <1>2, <1>3, CompressAppends
<1>7. Arrays' /\ Counts'
    BY <1>1, <1>2, <1>3, <1>6 DEF Arrays, Counts, Index
<1>8. PaddedSize(fed) = total'
    <2>1. fed + 1 + LengthSize <= total' /\ total' <= fed + LengthSize + BlockSize
        BY <1>1, <1>2, <1>4, <1>6, SMTT(60) DEF Index
    <2> QED BY <1>2, <1>6, <2>1, PaddedSizeIs
<1>9. ASSUME NEW k \in 0 .. total' - 1
      PROVE  stream'[k] = IF k < fed THEN Data(message, k)
                          ELSE IF k = fed THEN Mark
                          ELSE IF k < total' - LengthSize THEN Zero
                          ELSE LengthByte(8 * fed, k - (total' - LengthSize))
    <2>1. CASE k < total
        <3>1. stream'[k] = At(k) /\ k \in 0 .. total + curlen - 1 /\ k < total' - LengthSize
            BY <1>1, <1>2, <1>6, <1>9, <2>1, SMTT(60) DEF At, Index
        <3> QED BY <1>4, <3>1
    <2>2. CASE total <= k
        <3> DEFINE i == k - total
        <3>1. i \in Index /\ stream'[k] = block[i] /\ total + i = k
            BY <1>1, <1>2, <1>6, <1>9, <2>2, SMTT(60) DEF Index
        <3>0. total' = total + BlockSize /\ curlen \in Nat /\ curlen <= field
              /\ fed < total + curlen /\ i \in Nat /\ k \in Nat
            BY <1>2, <1>4, <1>6, <1>9, <3>1 DEF Index
        <3>2. CASE i >= field
            <4>1. k >= total' - LengthSize /\ i - field = k - (total' - LengthSize) /\ k > fed
                BY <1>1, <1>2, <2>2, <3>2, <3>0
            <4>2. block[i] = LengthByte(length, i - field) /\ length = 8 * fed
                BY <1>4, <1>5, <3>1, <3>2
            <4>3. ~ (k < fed) /\ k # fed /\ ~ (k < total' - LengthSize)
                BY <1>1, <1>2, <3>0, <4>1
            <4> HIDE DEF i
            <4> QED BY <3>1, <4>1, <4>2, <4>3
        <3>3. CASE i < field /\ i >= curlen
            <4>1. k < total' - LengthSize /\ k > fed
                BY <1>1, <1>2, <3>0, <3>3
            <4>2. block[i] = Zero
                BY <1>1, <1>5, <3>0, <3>1, <3>3
            <4>3. ~ (k < fed) /\ k # fed
                BY <1>2, <3>0, <4>1
            <4> QED BY <3>1, <4>1, <4>2, <4>3
        <3>4. CASE i < field /\ i < curlen
            <4>1. k < total' - LengthSize /\ k \in 0 .. total + curlen - 1 /\ At(k) = buf[i]
                BY <1>1, <1>2, <1>4, <1>6, <1>9, <2>2, <3>1, <3>4, SMTT(60) DEF Index, At
            <4>2. block[i] = buf[i]
                BY <1>1, <1>2, <1>5, <3>1, <3>4 DEF Index
            <4> QED BY <1>4, <3>1, <4>1, <4>2
        <3> QED BY <1>1, <1>2, <3>1, <3>2, <3>3, <3>4 DEF Index
    <2> QED BY <1>2, <1>6, <2>1, <2>2
<1>10. stream' = Padded(message, fed)
    BY <1>6, <1>8, <1>9 DEF Padded
<1>11. DigestOfPaddedMessage'
    BY <1>3, <1>10 DEF DigestOfPaddedMessage, Padded
<1> QED BY <1>3, <1>7, <1>11 DEF Inv, OpenInv, MarkedInv

LEMMA NextInv == Inv /\ [Next]_vars => Inv'
<1> SUFFICES ASSUME Inv, [Next]_vars PROVE Inv'
    OBVIOUS
<1>1. CASE UNCHANGED vars
    BY <1>1 DEF vars, context, Inv, Arrays, Counts, OpenInv, MarkedInv, At,
                DigestOfPaddedMessage, Padded, Whole
<1> QED BY <1>1, CtxInitInv, UpdateInv, FullBlockInv, CopyInv, AppendMarkInv, FinishInv
           DEF Next, Loop

(* sha256_raw.c:126: what is compressed in the end is the padded message,  *)
(* for every BlockSize and LengthSize, 64 and 8 among them.                *)
THEOREM DigestsPadded == Spec => []DigestOfPaddedMessage
<1>1. Inv => DigestOfPaddedMessage
    BY DEF Inv
<1> QED BY InitInv, NextInv, <1>1, PTL DEF Spec

(* While the message is fed, nothing of it is lost, doubled or moved.      *)
THEOREM BytesStayInOrder == Spec => []BytesInOrder
<1>1. Inv => BytesInOrder
    <2> SUFFICES ASSUME Inv, pc = "open" PROVE BytesInOrder
        BY DEF BytesInOrder
    <2>1. total \in Nat /\ curlen \in Nat
        BY DEF Inv, Counts, Index
    <2>2. ASSUME NEW k \in 0 .. total - 1 PROVE stream[k] = Data(message, k)
        BY <2>1, <2>2 DEF Inv, OpenInv, At
    <2>3. ASSUME NEW i \in 0 .. curlen - 1 PROVE buf[i] = Data(message, total + i)
        <3>1. At(total + i) = buf[i] /\ total + i \in 0 .. total + curlen - 1
            BY <2>1, <2>3 DEF At
        <3> QED BY <3>1 DEF Inv, OpenInv
    <2> QED BY <2>2, <2>3 DEF Inv, OpenInv, BytesInOrder, NextByte
<1> QED BY InitInv, NextInv, <1>1, PTL DEF Spec

-----------------------------------------------------------------------------
(* The type invariant is inductive by itself.                              *)
LEMMA CompressTyped ==
    ASSUME TypeOK, NEW block \in [Index -> Cell], Compress(block)
    PROVE  total' \in Nat /\ stream' \in [0 .. total' - 1 -> Cell]
<1>1. total \in Nat /\ BlockSize \in Nat /\ total' = total + BlockSize
    BY SizesAssumption DEF TypeOK, Compress
<1>2. stream' = [k \in 0 .. total' - 1 |-> IF k < total THEN stream[k] ELSE block[k - total]]
    BY <1>1 DEF Compress
<1>3. ASSUME NEW k \in 0 .. total' - 1
      PROVE  (IF k < total THEN stream[k] ELSE block[k - total]) \in Cell
    <2>1. CASE k < total
        BY <1>1, <1>3, <2>1 DEF TypeOK
    <2>2. CASE total <= k
        <3>1. k - total \in Index
            BY <1>1, <1>3, <2>2 DEF Index
        <3> QED BY <1>1, <1>3, <2>2, <3>1
    <2> QED BY <1>1, <1>3, <2>1, <2>2
<1> QED BY <1>1, <1>2, <1>3

LEMMA Cells ==
    /\ Mark \in Cell /\ Zero \in Cell /\ Junk \in Cell
    /\ \A m, k \in Nat : Data(m, k) \in Cell /\ LengthByte(m, k) \in Cell
BY DEF Cell, Data, LengthByte

LEMMA InitTypeOK == Init => TypeOK
BY SizesAssumption, Cells DEF Init, TypeOK, Index

LEMMA NextTypeOK == TypeOK /\ [Next]_vars => TypeOK'
<1> SUFFICES ASSUME TypeOK, [Next]_vars PROVE TypeOK'
    OBVIOUS
<1>1. BlockSize \in Nat \ {0} /\ LengthSize \in Nat \ {0} /\ LengthSize < BlockSize
      /\ MaxBytes \in Nat /\ MaxMessages \in Nat
    BY SizesAssumption
<1>2. /\ buf \in [Index -> Cell] /\ curlen \in Index /\ length \in Nat
      /\ fed \in Nat /\ left \in Nat /\ left <= fed /\ message \in Nat
    BY <1>1 DEF TypeOK
<1>3. curlen \in Nat /\ curlen < BlockSize
    BY <1>1, <1>2 DEF Index
<1>4. Taken \in Nat /\ Taken <= left /\ Taken <= BlockSize - curlen
    BY <1>1, <1>2, <1>3 DEF Taken
<1>5. CASE UNCHANGED vars
    BY <1>5 DEF vars, context, TypeOK
<1>6. CASE CtxInit
    <2>1. buf' \in [Index -> Cell]
        BY <1>2, <1>6, Cells DEF CtxInit
    <2> QED BY <1>1, <1>2, <1>6, <2>1, Cells DEF CtxInit, TypeOK, Index
<1>7. ASSUME NEW len \in 0 .. MaxBytes, Update(len) PROVE TypeOK'
    BY <1>1, <1>2, <1>7 DEF Update, context, TypeOK
<1>8. CASE FullBlock
    <2> DEFINE block == [i \in Index |-> Data(message, NextByte + i)]
    <2>1. ASSUME NEW i \in Index PROVE NextByte + i \in Nat
        BY <1>1, <1>2, <2>1 DEF NextByte, Index
    <2>2. block \in [Index -> Cell]
        BY <1>2, <2>1, Cells
    <2>3. /\ Compress(block) /\ length' = length + 8 * BlockSize
          /\ left' = left - BlockSize /\ left >= BlockSize
          /\ UNCHANGED <<buf, curlen, message, fed, pc>>
        BY <1>8 DEF FullBlock
    <2> HIDE DEF block
    <2>4. total' \in Nat /\ stream' \in [0 .. total' - 1 -> Cell]
        BY <2>2, <2>3, CompressTyped
    <2>5. length' \in Nat /\ left' \in 0 .. fed'
        BY <1>1, <1>2, <2>3
    <2> QED BY <2>3, <2>4, <2>5 DEF TypeOK
<1>9. CASE Copy
    <2>1. ASSUME NEW i \in Index, i \in curlen .. curlen + Taken - 1
          PROVE  NextByte + i - curlen \in Nat
        BY <1>1, <1>2, <1>3, <2>1 DEF NextByte, Index
    <2>2. Filled \in [Index -> Cell]
        BY <1>2, <2>1, Cells DEF Filled
    <2>3. /\ buf' = Filled /\ left' = left - Taken
          /\ message' = message /\ fed' = fed /\ pc' = pc
        BY <1>9 DEF Copy
    <2>4. left' \in 0 .. fed'
        BY <1>2, <1>4, <2>3
    <2>5. CASE curlen + Taken = BlockSize
        <3>1. Compress(Filled) /\ length' = length + 8 * BlockSize /\ curlen' = 0
            BY <1>9, <2>5 DEF Copy
        <3>2. total' \in Nat /\ stream' \in [0 .. total' - 1 -> Cell]
            BY <2>2, <3>1, CompressTyped
        <3>3. curlen' \in Index /\ length' \in Nat
            BY <1>1, <1>2, <3>1 DEF Index
        <3> QED BY <2>2, <2>3, <2>4, <3>2, <3>3 DEF TypeOK
    <2>6. CASE curlen + Taken # BlockSize
        <3>1. curlen' = curlen + Taken /\ UNCHANGED <<length, stream, total>>
            BY <1>9, <2>6 DEF Copy
        <3>2. curlen' \in Index
            BY <1>1, <1>3, <1>4, <2>6, <3>1 DEF Index
        <3> QED BY <2>2, <2>3, <2>4, <3>1, <3>2 DEF TypeOK
    <2> QED BY <2>5, <2>6
<1>10. CASE AppendMark
    <2>1. ASSUME NEW end PROVE Marked(end) \in [Index -> Cell]
        BY <1>2, Cells DEF Marked
    <2>2. /\ length' = length + 8 * curlen /\ pc' = "marked"
          /\ UNCHANGED <<message, fed, left>>
        BY <1>10 DEF AppendMark
    <2>3. length' \in Nat
        BY <1>2, <1>3, <2>2
    <2>4. CASE curlen + 1 > BlockSize - LengthSize
        <3>1. buf' = Marked(BlockSize) /\ Compress(Marked(BlockSize)) /\ curlen' = 0
            BY <1>10, <2>4 DEF AppendMark
        <3>2. total' \in Nat /\ stream' \in [0 .. total' - 1 -> Cell]
            BY <2>1, <3>1, CompressTyped
        <3>3. curlen' \in Index
            BY <1>1, <3>1 DEF Index
        <3> QED BY <2>1, <2>2, <2>3, <3>1, <3>2, <3>3 DEF TypeOK
    <2>5. CASE ~ (curlen + 1 > BlockSize - LengthSize)
        <3>1. buf' = Marked(curlen + 1) /\ curlen' = curlen + 1
              /\ UNCHANGED <<stream, total>>
            BY <1>10, <2>5 DEF AppendMark
        <3>2. curlen' \in Index
            BY <1>1, <1>3, <2>5, <3>1 DEF Index
        <3> QED BY <2>1, <2>2, <2>3, <3>1, <3>2 DEF TypeOK
    <2> QED BY <2>4, <2>5
<1>11. CASE Finish
    <2> DEFINE block == [i \in Index |->
                   IF i >= BlockSize - LengthSize
                   THEN LengthByte(length, i - (BlockSize - LengthSize))
                   ELSE IF i >= curlen THEN Zero ELSE buf[i]]
    <2>1. ASSUME NEW i \in Index, i >= BlockSize - LengthSize
          PROVE  i - (BlockSize - LengthSize) \in Nat
        BY <1>1, <2>1 DEF Index
    <2>2. block \in [Index -> Cell]
        BY <1>2, <2>1, Cells
    <2>3. Compress(block) /\ curlen' = 0 /\ length' = 0 /\ pc' = "closed"
          /\ buf' = [i \in Index |-> Zero] /\ UNCHANGED <<message, fed, left>>
        BY <1>11 DEF Finish
    <2> HIDE DEF block
    <2>4. total' \in Nat /\ stream' \in [0 .. total' - 1 -> Cell]
        BY <2>2, <2>3, CompressTyped
    <2>5. curlen' \in Index /\ buf' \in [Index -> Cell]
        BY <1>1, <2>3, Cells DEF Index
    <2> QED BY <2>3, <2>4, <2>5 DEF TypeOK
<1> QED BY <1>5, <1>6, <1>7, <1>8, <1>9, <1>10, <1>11 DEF Next, Loop

(* sha256_raw.c: between two iterations of the update loop there is room   *)
(* in buf for a byte, and no index leaves its array.                       *)
THEOREM StreamTypeCorrect == Spec => []TypeOK
<1> QED BY InitTypeOK, NextTypeOK, PTL DEF Spec

(* Each turn of the update loop takes a byte, and only the loop runs while *)
(* a call is in progress, or a new context is begun.                       *)
THEOREM UpdateTakesBytes == Spec => UpdateAdvances
<1>1. ASSUME Inv, Next, left > 0 PROVE left' \in 0 .. left - 1
    <2>1. left \in Nat /\ pc = "open" /\ curlen \in 0 .. BlockSize - 1 /\ BlockSize \in Nat \ {0}
        BY <1>1, SizesAssumption DEF Inv, Counts, Index
    <2>2. CASE CtxInit
        BY <1>1, <2>1, <2>2 DEF CtxInit
    <2>3. CASE FullBlock
        BY <2>1, <2>3 DEF FullBlock
    <2>4. CASE Copy
        <3>1. Taken \in 1 .. left
            BY <1>1, <2>1 DEF Taken
        <3>2. left' = left - Taken
            BY <2>4 DEF Copy
        <3> QED BY <2>1, <3>1, <3>2
    <2>5. ~ (\E len \in 0 .. MaxBytes : Update(len)) /\ ~ AppendMark /\ ~ Finish
        BY <1>1, <2>1 DEF Update, AppendMark, Finish
    <2> QED BY <1>1, <2>2, <2>3, <2>4, <2>5 DEF Next, Loop
<1>2. Inv /\ [Next]_vars => [left > 0 => left' \in 0 .. left - 1]_vars
    BY <1>1
<1> QED BY InitInv, NextInv, <1>2, PTL DEF Spec, UpdateAdvances
=============================================================================
