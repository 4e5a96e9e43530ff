--------------------------- MODULE SlotStoreProofs ---------------------------
(***************************************************************************)
(* Proofs about SlotStore, for every number of slots and chunks, every set *)
(* of names, groups and permissions, with and without failing flash, the   *)
(* delete command and resets.                                              *)
(***************************************************************************)
EXTENDS SlotStore, TLAPS

(* What blob_write and erase_slot_pages have done so far to the slot in    *)
(* work: the pages before idx are erased, or the chunks before idx are     *)
(* programmed and those from idx on still erased.                          *)
Filling == {"programChunk", "programTag", "programHeader"}

EraseProgress ==
    pc = "eraseSlot" =>
        /\ idx > 0 => hdr[cmd.slot] = Blank
        /\ \A i \in Chunks : PageOf(i) < idx => ct[cmd.slot][i] = Blank

FillProgress ==
    /\ pc \in Filling => cmd.op \in StoreOps /\ hdr[cmd.slot] = Blank
    /\ pc \in {"programChunk", "programTag"} =>
        /\ idx \in 1 .. cmd.file.chunks
        /\ \A i \in Chunks :
            /\ i < idx => ct[cmd.slot][i] = cmd.file.id /\ tag[cmd.slot][i] = cmd.file.id
            /\ i > idx => ct[cmd.slot][i] = Blank
            /\ i >= idx => tag[cmd.slot][i] = Blank
    /\ pc = "programChunk" => ct[cmd.slot][idx] = Blank
    /\ pc = "programTag" => ct[cmd.slot][idx] = cmd.file.id
    /\ pc = "programHeader" =>
        \A i \in 1 .. cmd.file.chunks :
            ct[cmd.slot][i] = cmd.file.id /\ tag[cmd.slot][i] = cmd.file.id

PagesErased ==
    /\ pc = "programNames" => nameF = BlankPage
    /\ pc = "programFat" => fatF = BlankPage

Inv ==
    /\ TypeOK
    /\ EraseProgress
    /\ FillProgress
    /\ PagesErased
    /\ HeaderComplete

-----------------------------------------------------------------------------
(* Programming a page that is erased leaves exactly what was programmed.   *)
LEMMA ProgramErasedPage ==
    ASSUME NEW D, NEW target \in [Slots -> D]
    PROVE  ProgrammedPage(BlankPage, target, NSlots) = target
BY BoundsAssumption DEF ProgrammedPage, Programmed, BlankPage, Slots

(* A table of cells keeps its type when one cell is replaced.              *)
LEMMA UpdateCellType ==
    ASSUME NEW I, NEW J, NEW V, NEW f \in [I -> [J -> V]],
           NEW i \in I, NEW j, NEW v \in V
    PROVE  [f EXCEPT ![i][j] = v] \in [I -> [J -> V]]
<1>1. [f[i] EXCEPT ![j] = v] \in [J -> V]
    OBVIOUS
<1> QED BY <1>1

(* The records a command builds have their types.                          *)
LEMMA CommandTypes ==
    ASSUME TypeOK, cmd \in Cmd
    PROVE  /\ cmd.slot \in Slots
           /\ cmd.op \in StoreOps => /\ cmd.file \in File
                                     /\ cmd.file.id \in Writes
                                     /\ cmd.file.chunks \in Lengths
                                     /\ HeaderOf(cmd.file) \in Header
           /\ cmd.op \notin StoreOps => cmd.op = "delete" /\ cmd.file = Blank
           /\ NewFat \in [Slots -> FatEntry \cup {Blank, Torn}]
           /\ [cmd EXCEPT !.failed = TRUE] \in Cmd \/ cmd.op = "delete"
<1>1. CASE cmd \in [op : {"write", "receive"}, slot : Slots, file : File, failed : BOOLEAN]
    BY <1>1 DEF TypeOK, Cmd, File, Header, HeaderOf, NewFat, NewFatEntry, FatEntry, StoreOps
<1>2. CASE cmd \in [op : {"delete"}, slot : Slots, file : {Blank}, failed : {FALSE}]
    BY <1>2 DEF TypeOK, Cmd, NewFat, NewFatEntry, StoreOps
<1> QED BY <1>1, <1>2 DEF Cmd

LEMMA InitInv == Init => Inv
BY BoundsAssumption, BlankAssumption
   DEF Init, Inv, TypeOK, EraseProgress, FillProgress, PagesErased, HeaderComplete,
       Filling, Readable, BlankPage, Labels, Cmd, Slots, Chunks
-----------------------------------------------------------------------------
(* The flash part of the invariant, by itself.                             *)
FlashTypeOK ==
    /\ nameF \in [Slots -> NameEntry \cup {Blank, Torn}]
    /\ fatF \in [Slots -> FatEntry \cup {Blank, Torn}]
    /\ hdr \in [Slots -> Header \cup {Blank, Torn}]
    /\ ct \in [Slots -> [Chunks -> Writes \cup {Blank, Torn}]]
    /\ tag \in [Slots -> [Chunks -> Writes \cup {Blank, Torn}]]

(* Erasing the next page of a slot never uncovers a header: its page is    *)
(* the first one erased.                                                   *)
LEMMA EraseCellsSafe ==
    ASSUME Inv, pc = "eraseSlot", EraseSlotPageCells(cmd.slot, idx)
    PROVE  /\ hdr' \in [Slots -> Header \cup {Blank, Torn}]
           /\ ct' \in [Slots -> [Chunks -> Writes \cup {Blank, Torn}]]
           /\ tag' \in [Slots -> [Chunks -> Writes \cup {Blank, Torn}]]
           /\ hdr'[cmd.slot] = Blank
           /\ \A i \in Chunks : PageOf(i) <= idx => ct'[cmd.slot][i] = Blank
           /\ idx = LastPage => \A i \in Chunks : tag'[cmd.slot][i] = Blank
           /\ HeaderComplete'
<1>1. cmd \in Cmd /\ cmd.slot \in Slots
    BY CommandTypes DEF Inv, TypeOK
<1>2. /\ hdr' \in [Slots -> Header \cup {Blank, Torn}]
      /\ ct' \in [Slots -> [Chunks -> Writes \cup {Blank, Torn}]]
      /\ tag' \in [Slots -> [Chunks -> Writes \cup {Blank, Torn}]]
    BY <1>1 DEF Inv, TypeOK, EraseSlotPageCells
<1>3. hdr'[cmd.slot] = Blank
    BY <1>1 DEF Inv, TypeOK, EraseSlotPageCells, EraseProgress
<1>4. \A i \in Chunks : PageOf(i) <= idx => ct'[cmd.slot][i] = Blank
    BY <1>1 DEF Inv, TypeOK, EraseSlotPageCells, EraseProgress, PageOf, Chunks
<1>5. idx = LastPage => \A i \in Chunks : tag'[cmd.slot][i] = Blank
    BY <1>1 DEF Inv, TypeOK, EraseSlotPageCells
<1>6. \A s \in Slots \ {cmd.slot} : hdr'[s] = hdr[s] /\ ct'[s] = ct[s] /\ tag'[s] = tag[s]
    BY <1>1 DEF Inv, TypeOK, EraseSlotPageCells
<1>7. HeaderComplete'
    BY <1>3, <1>6 DEF Inv, HeaderComplete, Readable, blob_verifies
<1> QED BY <1>2, <1>3, <1>4, <1>5, <1>7

(* Programming a chunk or a tag, whole or in part, disturbs no complete    *)
(* blob: the header of the slot in work is still erased.                   *)
LEMMA ProgramCellsSafe ==
    ASSUME Inv, pc \in {"programChunk", "programTag"},
           NEW v \in {Torn, cmd.file.id},
           \/ ct' = [ct EXCEPT ![cmd.slot][idx] = Programmed(@, v)] /\ tag' = tag
           \/ tag' = [tag EXCEPT ![cmd.slot][idx] = Programmed(@, v)] /\ ct' = ct,
           hdr' = hdr
    PROVE  /\ ct' \in [Slots -> [Chunks -> Writes \cup {Blank, Torn}]]
           /\ tag' \in [Slots -> [Chunks -> Writes \cup {Blank, Torn}]]
           /\ HeaderComplete'
<1>1. cmd \in Cmd /\ cmd.slot \in Slots /\ cmd.file.id \in Writes /\ hdr[cmd.slot] = Blank
    BY CommandTypes DEF Inv, TypeOK, FillProgress, Filling
<1>2. v \in Writes \cup {Blank, Torn}
    BY <1>1
<1>3. /\ ct' \in [Slots -> [Chunks -> Writes \cup {Blank, Torn}]]
      /\ tag' \in [Slots -> [Chunks -> Writes \cup {Blank, Torn}]]
    <2>1. /\ Programmed(ct[cmd.slot][idx], v) \in Writes \cup {Blank, Torn}
          /\ Programmed(tag[cmd.slot][idx], v) \in Writes \cup {Blank, Torn}
        <3>1. idx \in Chunks
            BY <1>1, CommandTypes, BoundsAssumption
               DEF Inv, FillProgress, Filling, Chunks, Lengths
        <3> QED BY <1>1, <1>2, <3>1 DEF Inv, TypeOK, Programmed
    <2>2. ct \in [Slots -> [Chunks -> Writes \cup {Blank, Torn}]]
          /\ tag \in [Slots -> [Chunks -> Writes \cup {Blank, Torn}]]
        BY DEF Inv, TypeOK
    <2>3. CASE ct' = [ct EXCEPT ![cmd.slot][idx] = Programmed(@, v)] /\ tag' = tag
        BY <1>1, <2>1, <2>2, <2>3, UpdateCellType, ZenonT(60)
    <2>4. CASE tag' = [tag EXCEPT ![cmd.slot][idx] = Programmed(@, v)] /\ ct' = ct
        BY <1>1, <2>1, <2>2, <2>4, UpdateCellType, ZenonT(60)
    <2> QED BY <2>3, <2>4
<1>4. \A s \in Slots \ {cmd.slot} : ct'[s] = ct[s] /\ tag'[s] = tag[s]
    BY <1>1 DEF Inv, TypeOK
<1>5. HeaderComplete'
    BY <1>1, <1>4 DEF Inv, HeaderComplete, Readable, blob_verifies
<1> QED BY <1>3, <1>5

(* Programming the header, whole or in part, completes a blob whose chunks *)
(* and tags are all there.                                                 *)
LEMMA ProgramHeaderSafe ==
    ASSUME Inv, pc = "programHeader",
           NEW v \in {Torn, HeaderOf(cmd.file)},
           hdr' = [hdr EXCEPT ![cmd.slot] = Programmed(@, v)],
           ct' = ct, tag' = tag
    PROVE  /\ hdr' \in [Slots -> Header \cup {Blank, Torn}]
           /\ HeaderComplete'
<1>1. /\ cmd \in Cmd /\ cmd.slot \in Slots /\ HeaderOf(cmd.file) \in Header
      /\ hdr[cmd.slot] = Blank
    BY CommandTypes DEF Inv, TypeOK, FillProgress, Filling
<1>2. hdr' \in [Slots -> Header \cup {Blank, Torn}]
    BY <1>1 DEF Inv, TypeOK, Programmed
<1>3. \A s \in Slots \ {cmd.slot} : hdr'[s] = hdr[s]
    BY <1>1 DEF Inv, TypeOK
<1>4. hdr'[cmd.slot] = v
    BY <1>1, BlankAssumption DEF Inv, TypeOK, Programmed
<1>5. Readable(v) => /\ v.nonce = cmd.file.id
                     /\ v.chunks = cmd.file.chunks
    BY <1>1 DEF Readable, HeaderOf
<1>6. HeaderComplete'
    BY <1>1, <1>3, <1>4, <1>5 DEF Inv, HeaderComplete, Readable, blob_verifies, FillProgress
<1> QED BY <1>2, <1>6

(* However a flash operation stops, the flash is well-formed and every     *)
(* header on it is complete.                                               *)
LEMMA InterruptedSafe ==
    ASSUME Inv, Interrupted
    PROVE  FlashTypeOK' /\ HeaderComplete'
<1> USE DEF FlashTypeOK
<1>1. CASE UNCHANGED flash
    BY <1>1 DEF Inv, TypeOK, flash, slotCells, HeaderComplete, Readable, blob_verifies
<1>2. CASE pc = "eraseNames" /\ nameF' = BlankPage /\ UNCHANGED <<fatF, slotCells>>
    BY <1>2 DEF Inv, TypeOK, slotCells, HeaderComplete, Readable, blob_verifies, BlankPage
<1>3. CASE pc = "eraseFat" /\ fatF' = BlankPage /\ UNCHANGED <<nameF, slotCells>>
    BY <1>3 DEF Inv, TypeOK, slotCells, HeaderComplete, Readable, blob_verifies, BlankPage
<1>4. CASE /\ pc = "eraseSlot" /\ EraseSlotPageCells(cmd.slot, idx)
           /\ UNCHANGED <<nameF, fatF>>
    BY <1>4, EraseCellsSafe DEF Inv, TypeOK
<1>5. CASE /\ pc = "programNames"
           /\ \E n \in 1 .. NSlots : nameF' = ProgrammedPage(nameF, names, n)
           /\ UNCHANGED <<fatF, slotCells>>
    <2>1. nameF' \in [Slots -> NameEntry \cup {Blank, Torn}]
        BY <1>5 DEF Inv, TypeOK, ProgrammedPage, Programmed
    <2> QED BY <1>5, <2>1 DEF Inv, TypeOK, slotCells, HeaderComplete, Readable, blob_verifies
<1>6. CASE /\ pc = "programFat"
           /\ \E n \in 1 .. NSlots : fatF' = ProgrammedPage(fatF, NewFat, n)
           /\ UNCHANGED <<nameF, slotCells>>
    <2>1. NewFat \in [Slots -> FatEntry \cup {Blank, Torn}]
        BY <1>6, CommandTypes DEF Inv, TypeOK
    <2>2. fatF' \in [Slots -> FatEntry \cup {Blank, Torn}]
        BY <1>6, <2>1 DEF Inv, TypeOK, ProgrammedPage, Programmed
    <2> QED BY <1>6, <2>2 DEF Inv, TypeOK, slotCells, HeaderComplete, Readable, blob_verifies
<1>7. CASE /\ pc = "programChunk"
           /\ \E v \in {Torn, cmd.file.id} :
                  ct' = [ct EXCEPT ![cmd.slot][idx] = Programmed(@, v)]
           /\ UNCHANGED <<nameF, fatF, hdr, tag>>
    BY <1>7, ProgramCellsSafe DEF Inv, TypeOK
<1>8. CASE /\ pc = "programTag"
           /\ \E v \in {Torn, cmd.file.id} :
                  tag' = [tag EXCEPT ![cmd.slot][idx] = Programmed(@, v)]
           /\ UNCHANGED <<nameF, fatF, hdr, ct>>
    BY <1>8, ProgramCellsSafe DEF Inv, TypeOK
<1>9. CASE /\ pc = "programHeader"
           /\ \E v \in {Torn, HeaderOf(cmd.file)} :
                  hdr' = [hdr EXCEPT ![cmd.slot] = Programmed(@, v)]
           /\ UNCHANGED <<nameF, fatF, ct, tag>>
    BY <1>9, ProgramHeaderSafe DEF Inv, TypeOK
<1> QED BY <1>1, <1>2, <1>3, <1>4, <1>5, <1>6, <1>7, <1>8, <1>9 DEF Interrupted

-----------------------------------------------------------------------------
(* Every step keeps the invariant.                                         *)
LEMMA NextInv == Inv /\ [Next]_vars => Inv'
<1> SUFFICES ASSUME Inv, [Next]_vars PROVE Inv'
    OBVIOUS
<1> USE BoundsAssumption DEF Labels
<1>0. cmd # NoCmd => cmd \in Cmd /\ cmd.slot \in Slots
    BY CommandTypes DEF Inv, TypeOK
<1>a. NoCmd \notin Cmd
    BY BlankAssumption
<1>1. ASSUME NEW op \in StoreOps, NEW s \in Slots, NEW n \in Names, NEW g \in Groups,
             NEW len \in Lengths, BeginStore(op, s, n, g, len)
      PROVE  Inv'
    <2>1. cmd' \in Cmd
        BY <1>1 DEF BeginStore, Inv, TypeOK, Cmd, File, StoreOps, Writes
    <2>2. names' \in [Slots -> NameEntry \cup {Blank, Torn}]
        BY <1>1 DEF BeginStore, Inv, TypeOK, NameEntry
    <2>u. UNCHANGED <<nameF, fatF, hdr, ct, tag, fat, resets>>
        BY <1>1 DEF BeginStore, flash, slotCells
    <2>p. pc' = "eraseNames" /\ idx' = 0 /\ cmd' # NoCmd
        BY <1>1, <1>a, <2>1 DEF BeginStore, Goto
    <2>w. writes' \in 0 .. MaxWrites
        <3>1. writes \in 0 .. MaxWrites /\ writes < MaxWrites /\ writes' = writes + 1
            BY <1>1 DEF BeginStore, Inv, TypeOK
        <3> QED BY <3>1
    <2>3. TypeOK'
        BY <2>u, <2>p, <2>w, <2>1, <2>2 DEF Inv, TypeOK
    <2>4. HeaderComplete'
        BY <1>1 DEF BeginStore, Inv, flash, slotCells, HeaderComplete, Readable, blob_verifies
    <2> QED BY <1>1, <2>3, <2>4
            DEF BeginStore, Goto, Inv, EraseProgress, FillProgress, PagesErased, Filling
<1>2. ASSUME NEW s \in Slots, BeginDelete(s)
      PROVE  Inv'
    <2>1. cmd' \in Cmd
        BY <1>2 DEF BeginDelete, Cmd
    <2>u. /\ UNCHANGED <<nameF, fatF, hdr, ct, tag, names, fat, writes, resets>>
          /\ pc' = "eraseSlot" /\ idx' = 0 /\ cmd' # NoCmd
        BY <1>2, <1>a, <2>1 DEF BeginDelete, Goto, flash, slotCells, shadow
    <2>2. TypeOK'
        BY <2>u, <2>1 DEF Inv, TypeOK
    <2>3. HeaderComplete'
        BY <1>2 DEF BeginDelete, Inv, flash, slotCells, HeaderComplete, Readable, blob_verifies
    <2> QED BY <1>2, <2>2, <2>3
            DEF BeginDelete, Goto, Inv, EraseProgress, FillProgress, PagesErased, Filling,
                PageOf, Chunks
<1>3. ASSUME UNCHANGED <<flash, shadow, pc, cmd, idx, writes, resets>>
      PROVE  Inv'
    BY <1>3 DEF Inv, TypeOK, EraseProgress, FillProgress, PagesErased, HeaderComplete,
                Readable, blob_verifies, Filling, flash, slotCells, shadow
<1>4. CASE EraseNames
    <2>1. TypeOK'
        BY <1>4 DEF EraseNames, Goto, Inv, TypeOK, slotCells, shadow, BlankPage
    <2>2. HeaderComplete'
        BY <1>4 DEF EraseNames, Inv, slotCells, HeaderComplete, Readable, blob_verifies
    <2> QED BY <1>4, <2>1, <2>2
            DEF EraseNames, Goto, Inv, EraseProgress, FillProgress, PagesErased, Filling
<1>5. CASE ProgramNames
    <2>1. nameF' = names
        BY <1>5, ProgramErasedPage DEF ProgramNames, Inv, TypeOK, PagesErased
    <2>2. TypeOK'
        BY <1>5, <2>1 DEF ProgramNames, Finish, Goto, Inv, TypeOK, slotCells, shadow
    <2>3. HeaderComplete'
        BY <1>5 DEF ProgramNames, Inv, slotCells, HeaderComplete, Readable, blob_verifies
    <2> QED BY <1>5, <2>2, <2>3
            DEF ProgramNames, Finish, Goto, Inv, EraseProgress, FillProgress, PagesErased,
                Filling, PageOf, Chunks
<1>6. CASE EraseSlot
    <2>1. /\ pc = "eraseSlot" /\ cmd' = cmd /\ cmd \in Cmd /\ cmd.slot \in Slots
          /\ EraseSlotPageCells(cmd.slot, idx)
          /\ idx \in 0 .. MaxChunks
        BY <1>6, <1>0 DEF EraseSlot, Inv, TypeOK
    <2>2. /\ cmd.op \in StoreOps => cmd.file.chunks \in 0 .. MaxChunks
          /\ cmd.op \notin StoreOps => cmd.op = "delete"
        BY <2>1, CommandTypes DEF Inv, Lengths
    <2>3. idx # LastPage => pc' = "eraseSlot" /\ idx' = idx + 1
        BY <1>6 DEF EraseSlot, Goto
    <2>4. idx = LastPage =>
             \/ pc' = "eraseFat" /\ idx' = 0
             \/ pc' = "programHeader" /\ cmd.op \in StoreOps /\ cmd.file.chunks = 0 /\ idx' = 0
             \/ /\ pc' = "programChunk" /\ cmd.op \in StoreOps /\ idx' = 1
                /\ cmd.file.chunks \in 1 .. MaxChunks
        BY <1>6, <2>2 DEF EraseSlot, AfterErase, Goto, StoreOps
    <2>5. TypeOK'
        <3>1. /\ idx' \in 0 .. MaxChunks
              /\ pc' \in {"eraseSlot", "eraseFat", "programHeader", "programChunk"}
            BY BoundsAssumption, <2>1, <2>3, <2>4 DEF LastPage
        <3>2. pc' \in Labels /\ pc' \notin {"idle", "boot"}
            BY <3>1 DEF Labels
        <3>3. FlashTypeOK'
            BY <2>1, EraseCellsSafe, <1>6 DEF EraseSlot, Inv, TypeOK, FlashTypeOK
        <3>4. cmd' # NoCmd /\ cmd' \in Cmd
            BY <1>a, <2>1
        <3> QED BY <1>6, <3>1, <3>2, <3>3, <3>4
                DEF EraseSlot, Inv, TypeOK, FlashTypeOK, shadow
    <2>6. EraseProgress'
        BY <2>1, <2>3, <2>4, EraseCellsSafe DEF Inv, EraseProgress, PageOf, Chunks
    <2>7. FillProgress'
        BY <2>1, <2>3, <2>4, EraseCellsSafe
           DEF FillProgress, Filling, PageOf, Chunks, LastPage
    <2>8. PagesErased'
        BY <2>3, <2>4 DEF PagesErased
    <2> QED BY <2>1, <2>5, <2>6, <2>7, <2>8, EraseCellsSafe DEF Inv
<1>7. CASE ProgramChunk
    <2>1. /\ pc = "programChunk" /\ cmd' = cmd /\ cmd.slot \in Slots
          /\ cmd.file.chunks \in Lengths /\ cmd.file.id \in Writes
          /\ idx \in 1 .. cmd.file.chunks
        BY <1>7, CommandTypes DEF ProgramChunk, Inv, TypeOK, FillProgress, Filling
    <2>2. idx \in Chunks
        BY <2>1 DEF Lengths, Chunks
    <2>3. /\ ct'[cmd.slot][idx] = cmd.file.id
          /\ \A i \in Chunks \ {idx} : ct'[cmd.slot][i] = ct[cmd.slot][i]
        BY <1>7, <2>1, <2>2, BlankAssumption
           DEF ProgramChunk, Programmed, Inv, TypeOK, FillProgress
    <2>4. TypeOK' /\ HeaderComplete'
        BY <1>7, <2>1, ProgramCellsSafe DEF ProgramChunk, Goto, Inv, TypeOK, shadow
    <2>5. FillProgress'
        BY <1>7, <2>1, <2>3 DEF ProgramChunk, Goto, Inv, FillProgress, Filling, Chunks
    <2> QED BY <1>7, <2>4, <2>5 DEF ProgramChunk, Goto, Inv, EraseProgress, PagesErased
<1>8. CASE ProgramTag
    <2>1. /\ pc = "programTag" /\ cmd' = cmd /\ cmd.slot \in Slots
          /\ cmd.file.chunks \in Lengths /\ cmd.file.id \in Writes
          /\ idx \in 1 .. cmd.file.chunks
        BY <1>8, CommandTypes DEF ProgramTag, Inv, TypeOK, FillProgress, Filling
    <2>2. idx \in Chunks /\ cmd.file.chunks \in 0 .. MaxChunks
        BY <2>1 DEF Lengths, Chunks
    <2>3. /\ tag'[cmd.slot][idx] = cmd.file.id
          /\ \A i \in Chunks \ {idx} : tag'[cmd.slot][i] = tag[cmd.slot][i]
        BY <1>8, <2>1, <2>2, BlankAssumption
           DEF ProgramTag, Programmed, Inv, TypeOK, FillProgress
    <2>4. \/ pc' = "programHeader" /\ idx' = 0 /\ idx = cmd.file.chunks
          \/ pc' = "programChunk" /\ idx' = idx + 1 /\ idx' \in 1 .. cmd.file.chunks
        BY <1>8, <2>1, <2>2, SMTT(60) DEF ProgramTag, Goto
    <2>5. TypeOK' /\ HeaderComplete'
        BY <1>8, <2>1, <2>2, <2>4, ProgramCellsSafe DEF ProgramTag, Inv, TypeOK, shadow
    <2>6. FillProgress'
        BY <1>8, <2>1, <2>2, <2>3, <2>4
           DEF ProgramTag, Inv, FillProgress, Filling, Chunks
    <2> QED BY <1>8, <2>4, <2>5, <2>6 DEF ProgramTag, Inv, EraseProgress, PagesErased
<1>9. CASE ProgramHeader
    <2>1. TypeOK' /\ HeaderComplete'
        BY <1>9, ProgramHeaderSafe DEF ProgramHeader, Goto, Inv, TypeOK, shadow
    <2> QED BY <1>9, <2>1
            DEF ProgramHeader, Goto, Inv, EraseProgress, FillProgress, Filling, PagesErased
<1>10. CASE EraseFat
    <2>1. TypeOK'
        BY <1>10 DEF EraseFat, Goto, Inv, TypeOK, slotCells, shadow, BlankPage
    <2>2. HeaderComplete'
        BY <1>10 DEF EraseFat, Inv, slotCells, HeaderComplete, Readable, blob_verifies
    <2> QED BY <1>10, <2>1, <2>2
            DEF EraseFat, Goto, Inv, EraseProgress, FillProgress, PagesErased, Filling
<1>11. CASE ProgramFat
    <2>1. NewFat \in [Slots -> FatEntry \cup {Blank, Torn}] /\ cmd.slot \in Slots
        BY <1>11, CommandTypes DEF ProgramFat, Inv, TypeOK
    <2>2. fatF' = NewFat /\ fat' = NewFat
        BY <1>11, <2>1, ProgramErasedPage DEF ProgramFat, Inv, PagesErased
    <2>3. TypeOK'
        BY <1>11, <2>1, <2>2, SMTT(60) DEF ProgramFat, Finish, Goto, Inv, TypeOK, slotCells
    <2>4. HeaderComplete'
        BY <1>11 DEF ProgramFat, Inv, slotCells, HeaderComplete, Readable, blob_verifies
    <2> QED BY <1>11, <2>3, <2>4
            DEF ProgramFat, Finish, Goto, Inv, EraseProgress, FillProgress, PagesErased,
                Filling
<1>12. CASE NamesFail
    <2>1. TypeOK' /\ HeaderComplete'
        BY <1>12, InterruptedSafe DEF NamesFail, Finish, Inv, TypeOK, FlashTypeOK, shadow
    <2> QED BY <1>12, <2>1
            DEF NamesFail, Finish, Inv, EraseProgress, FillProgress, PagesErased, Filling
<1>13. CASE BlobWriteFails
    <2>1. cmd \in Cmd /\ cmd' \in Cmd /\ cmd.slot \in Slots
        BY <1>13, CommandTypes DEF BlobWriteFails, Storing, Inv, TypeOK, StoreOps
    <2>u. /\ UNCHANGED <<fat, writes, resets>>
          /\ pc' = "eraseNames" /\ idx' = 0 /\ cmd' # NoCmd
          /\ names' \in [Slots -> NameEntry \cup {Blank, Torn}]
        BY <1>13, <1>a, <2>1 DEF BlobWriteFails, Goto, Inv, TypeOK
    <2>2. TypeOK' /\ HeaderComplete'
        <3>1. FlashTypeOK' /\ HeaderComplete'
            BY <1>13, InterruptedSafe DEF BlobWriteFails
        <3> QED BY <2>1, <2>u, <3>1 DEF Inv, TypeOK, FlashTypeOK
    <2> QED BY <1>13, <2>2
            DEF BlobWriteFails, Goto, Inv, EraseProgress, FillProgress, PagesErased, Filling
<1>14. CASE BlobDeleteFails
    <2>1. TypeOK' /\ HeaderComplete'
        BY <1>14, InterruptedSafe
           DEF BlobDeleteFails, Finish, Inv, TypeOK, FlashTypeOK, shadow
    <2> QED BY <1>14, <2>1
            DEF BlobDeleteFails, Finish, Inv, EraseProgress, FillProgress, PagesErased, Filling
<1>15. CASE Reset
    <2>1. TypeOK' /\ HeaderComplete'
        BY <1>15, InterruptedSafe DEF Reset, Inv, TypeOK, FlashTypeOK, BlankPage
    <2> QED BY <1>15, <2>1
            DEF Reset, Inv, EraseProgress, FillProgress, PagesErased, Filling
<1>16. CASE Boot
    <2>1. TypeOK' /\ HeaderComplete'
        BY <1>16 DEF Boot, Inv, TypeOK, flash, slotCells, HeaderComplete, Readable,
                     blob_verifies
    <2> QED BY <1>16, <2>1
            DEF Boot, Inv, EraseProgress, FillProgress, PagesErased, Filling
<1>17. CASE UNCHANGED vars
    BY <1>3, <1>17 DEF vars
<1>18. CASE HostCommand
    BY <1>1, <1>2, <1>3, <1>18 DEF HostCommand, RefuseStore, RefuseDelete, Read, ListFiles
<1> QED BY <1>4, <1>5, <1>6, <1>7, <1>8, <1>9, <1>10, <1>11, <1>12, <1>13, <1>14, <1>15,
           <1>16, <1>17, <1>18 DEF Next, FlashStep, FlashFailure

-----------------------------------------------------------------------------
(* What a command has done so far, in the table entries and the header of  *)
(* its slot.                                                               *)
FlushingNames == {"eraseNames", "programNames"}
Committing == {"eraseFat", "programFat"}

NameOf(f) == [name |-> f.name, group |-> f.group]

StoreProgress ==
    cmd \in Cmd /\ Storing =>
        /\ IF cmd.failed THEN pc \in FlushingNames /\ names[cmd.slot] = Blank
           ELSE names[cmd.slot] = NameOf(cmd.file)
        /\ pc \in Committing => hdr[cmd.slot] = HeaderOf(cmd.file)

DeleteProgress ==
    cmd \in Cmd /\ ~ Storing =>
        /\ pc # "eraseSlot" => hdr[cmd.slot] = Blank
        /\ pc \in FlushingNames =>
              names[cmd.slot] = Blank /\ fat[cmd.slot] = Blank /\ fatF[cmd.slot] = Blank

CommandInv == StoreProgress /\ DeleteProgress

(* An operation that goes through is one that was interrupted at its end.  *)
LEMMA FlashStepWhole == FlashStep => Interrupted
<1>1. NSlots \in 1 .. NSlots
    BY BoundsAssumption
<1> QED BY <1>1 DEF FlashStep, Interrupted, EraseNames, ProgramNames, EraseSlot, ProgramChunk,
                    ProgramTag, ProgramHeader, EraseFat, ProgramFat, slotCells

(* An operation that is interrupted changes the cells of the slot in work  *)
(* only, but may blank an entry of the page it is rewriting, or leave the  *)
(* one it is to get.                                                       *)
LEMMA InterruptedCells ==
    ASSUME Inv, Interrupted, NEW s \in Slots
    PROVE  /\ cmd = NoCmd \/ s # cmd.slot => hdr'[s] = hdr[s]
           /\ nameF'[s] \in {nameF[s], Blank, names[s]}
           /\ pc \notin FlushingNames => nameF' = nameF
           /\ cmd = NoCmd \/ s # cmd.slot => fatF'[s] \in {fatF[s], Blank, fat[s]}
           /\ pc \notin Committing => fatF' = fatF
<1> USE DEF FlushingNames, Committing
<1>0. /\ cmd = NoCmd <=> pc \in {"idle", "boot"}
      /\ cmd # NoCmd => cmd \in Cmd /\ cmd.slot \in Slots
    BY CommandTypes DEF Inv, TypeOK
<1>t. /\ hdr \in [Slots -> Header \cup {Blank, Torn}]
      /\ fat \in [Slots -> FatEntry \cup {Blank, Torn}]
    BY DEF Inv, TypeOK
<1>1. CASE UNCHANGED flash
    BY <1>1 DEF flash, slotCells
<1>2. CASE pc = "eraseNames" /\ nameF' = BlankPage /\ UNCHANGED <<fatF, slotCells>>
    BY <1>2 DEF slotCells, BlankPage
<1>3. CASE pc = "eraseFat" /\ fatF' = BlankPage /\ UNCHANGED <<nameF, slotCells>>
    BY <1>3 DEF slotCells, BlankPage
<1>4. CASE pc = "eraseSlot" /\ EraseSlotPageCells(cmd.slot, idx) /\ UNCHANGED <<nameF, fatF>>
    BY <1>0, <1>t, <1>4 DEF EraseSlotPageCells
<1>5. CASE /\ pc = "programNames"
           /\ \E n \in 1 .. NSlots : nameF' = ProgrammedPage(nameF, names, n)
           /\ UNCHANGED <<fatF, slotCells>>
    BY <1>5 DEF slotCells, ProgrammedPage, Programmed, Inv, PagesErased, BlankPage
<1>6. CASE /\ pc = "programFat"
           /\ \E n \in 1 .. NSlots : fatF' = ProgrammedPage(fatF, NewFat, n)
           /\ UNCHANGED <<nameF, slotCells>>
    <2>1. s # cmd.slot => NewFat[s] = fat[s]
        BY <1>t DEF NewFat
    <2> QED BY <1>0, <1>6, <2>1
            DEF slotCells, ProgrammedPage, Programmed, Inv, PagesErased, BlankPage
<1>7. CASE \/ pc = "programChunk" /\ UNCHANGED <<nameF, fatF, hdr, tag>>
           \/ pc = "programTag" /\ UNCHANGED <<nameF, fatF, hdr, ct>>
    BY <1>7
<1>8. CASE /\ pc = "programHeader"
           /\ \E v \in {Torn, HeaderOf(cmd.file)} :
                  hdr' = [hdr EXCEPT ![cmd.slot] = Programmed(@, v)]
           /\ UNCHANGED <<nameF, fatF, ct, tag>>
    BY <1>0, <1>t, <1>8
<1> QED BY <1>1, <1>2, <1>3, <1>4, <1>5, <1>6, <1>7, <1>8 DEF Interrupted

LEMMA NextCommandInv ==
    ASSUME Inv, CommandInv, [Next]_vars
    PROVE  CommandInv'
<1> USE DEF CommandInv, StoreProgress, DeleteProgress, FlushingNames, Committing, Storing
<1>0. /\ cmd = NoCmd <=> pc \in {"idle", "boot"}
      /\ cmd # NoCmd => cmd \in Cmd /\ cmd.slot \in Slots
    BY CommandTypes DEF Inv, TypeOK
<1>a. NoCmd \notin Cmd
    BY BlankAssumption
<1>t. /\ names \in [Slots -> NameEntry \cup {Blank, Torn}]
      /\ hdr \in [Slots -> Header \cup {Blank, Torn}]
    BY DEF Inv, TypeOK
<1>1. ASSUME cmd' = NoCmd PROVE CommandInv'
    BY <1>1, <1>a
<1>2. ASSUME NEW op \in StoreOps, NEW s \in Slots, NEW n \in Names, NEW g \in Groups,
             NEW len \in Lengths, BeginStore(op, s, n, g, len)
      PROVE  CommandInv'
    <2>1. /\ cmd'.op = op /\ cmd'.slot = s /\ ~ cmd'.failed /\ pc' = "eraseNames"
          /\ cmd'.file.name = n /\ cmd'.file.group = g
          /\ names'[s] = [name |-> n, group |-> g]
        BY <1>2, <1>t DEF BeginStore, Goto
    <2> QED BY <2>1 DEF NameOf
<1>3. ASSUME NEW s \in Slots, BeginDelete(s) PROVE CommandInv'
    <2>1. cmd'.op = "delete" /\ pc' = "eraseSlot"
        BY <1>3 DEF BeginDelete, Goto
    <2> QED BY <2>1 DEF StoreOps
<1>4. ASSUME UNCHANGED <<flash, shadow, pc, cmd, idx, writes, resets>> PROVE CommandInv'
    BY <1>4 DEF flash, slotCells, shadow
<1>5. CASE EraseNames
    BY <1>5, <1>0 DEF EraseNames, Goto, slotCells, shadow
<1>6. CASE ProgramNames
    <2>1. CASE cmd' = NoCmd
        BY <1>1, <2>1
    <2>2. CASE cmd' # NoCmd
        <3>1. cmd' = cmd /\ cmd.op # "delete" /\ ~ cmd.failed /\ pc' = "eraseSlot"
            BY <1>6, <2>2 DEF ProgramNames, Finish, Goto
        <3> QED BY <1>6, <1>0, <3>1, CommandTypes
                DEF ProgramNames, slotCells, shadow, Inv
    <2> QED BY <2>1, <2>2
<1>7. CASE EraseSlot
    <2>1. hdr'[cmd.slot] = Blank /\ cmd \in Cmd
        BY <1>7, <1>0, EraseCellsSafe DEF EraseSlot
    <2>2. UNCHANGED <<names, fat, fatF, cmd>> /\ pc = "eraseSlot"
        BY <1>7 DEF EraseSlot, shadow
    <2>3. /\ pc' \in {"eraseSlot", "eraseFat", "programHeader", "programChunk"}
          /\ pc' = "eraseFat" => cmd.op = "delete"
        BY <1>7 DEF EraseSlot, AfterErase, Goto
    <2> QED BY <2>1, <2>2, <2>3 DEF StoreOps
<1>8. CASE ProgramChunk \/ ProgramTag
    <2>1. /\ cmd.op \in StoreOps /\ cmd \in Cmd
          /\ UNCHANGED <<names, cmd>>
          /\ pc' \in {"programTag", "programChunk", "programHeader"}
          /\ pc \in {"programChunk", "programTag"}
        BY <1>8, <1>0 DEF ProgramChunk, ProgramTag, Goto, shadow, Inv, FillProgress, Filling
    <2> QED BY <2>1
<1>9. CASE ProgramHeader
    <2>1. /\ cmd.op \in StoreOps /\ cmd \in Cmd /\ cmd.slot \in Slots
          /\ hdr[cmd.slot] = Blank /\ HeaderOf(cmd.file) \in Header
        BY <1>9, <1>0, CommandTypes DEF ProgramHeader, Inv, FillProgress, Filling
    <2>2. hdr'[cmd.slot] = HeaderOf(cmd.file)
        BY <1>9, <1>t, <2>1, BlankAssumption DEF ProgramHeader, Programmed
    <2> QED BY <1>9, <2>1, <2>2 DEF ProgramHeader, Goto, shadow, HeaderOf
<1>10. CASE EraseFat
    BY <1>10, <1>0 DEF EraseFat, Goto, slotCells, shadow, HeaderOf
<1>11. CASE ProgramFat
    <2>1. CASE cmd' = NoCmd
        BY <1>1, <2>1
    <2>2. CASE cmd' # NoCmd
        <3>1. /\ cmd' = cmd /\ cmd.op = "delete" /\ pc' = "eraseNames" /\ hdr' = hdr
              /\ names' = [names EXCEPT ![cmd.slot] = Blank]
            BY <1>11, <2>2 DEF ProgramFat, Finish, Goto, slotCells
        <3>2. cmd \in Cmd /\ cmd.slot \in Slots /\ pc = "programFat"
            BY <1>11, <1>0 DEF ProgramFat
        <3>3. NewFat \in [Slots -> FatEntry \cup {Blank, Torn}] /\ NewFat[cmd.slot] = Blank
            BY <3>1, <3>2, CommandTypes DEF Inv, TypeOK, NewFat, NewFatEntry
        <3>4. fat' = NewFat /\ fatF' = NewFat
            BY <1>11, <3>3, ProgramErasedPage DEF ProgramFat, Inv, PagesErased
        <3> QED BY <1>t, <3>1, <3>2, <3>3, <3>4 DEF StoreOps
    <2> QED BY <2>1, <2>2
<1>12. CASE NamesFail \/ BlobDeleteFails \/ Reset
    BY <1>1, <1>12 DEF NamesFail, BlobDeleteFails, Reset, Finish
<1>13. CASE BlobWriteFails
    <2>1. cmd \in Cmd /\ cmd.slot \in Slots /\ cmd.op \in StoreOps
        BY <1>13, <1>0 DEF BlobWriteFails
    <2>2. cmd'.failed /\ cmd'.slot = cmd.slot /\ cmd'.op = cmd.op
        BY <1>13, <2>1 DEF BlobWriteFails, Cmd, StoreOps
    <2>3. pc' = "eraseNames" /\ names'[cmd.slot] = Blank
        BY <1>13, <1>t, <2>1 DEF BlobWriteFails, Goto
    <2> QED BY <2>1, <2>2, <2>3
<1>14. CASE Boot
    BY <1>14, <1>0, <1>1 DEF Boot
<1>15. CASE UNCHANGED vars
    BY <1>4, <1>15 DEF vars
<1>16. CASE HostCommand
    BY <1>2, <1>3, <1>4, <1>16
       DEF HostCommand, RefuseStore, RefuseDelete, Read, ListFiles
<1> QED BY <1>5, <1>6, <1>7, <1>8, <1>9, <1>10, <1>11, <1>12, <1>13, <1>14, <1>15, <1>16
        DEF Next, FlashStep, FlashFailure

-----------------------------------------------------------------------------
(* Every reachable state is well-typed, whatever the flash does.           *)
THEOREM TypeCorrect == Spec => []TypeOK
<1>1. Inv => TypeOK
    BY DEF Inv
<1> QED BY InitInv, NextInv, <1>1, PTL DEF Spec

(* The commit order holds up: no interruption, failure or reset of any     *)
(* sequence of commands leaves a readable header over an incomplete blob.  *)
THEOREM HeadersComplete == Spec => []HeaderComplete
<1>1. Inv => HeaderComplete
    BY DEF Inv
<1> QED BY InitInv, NextInv, <1>1, PTL DEF Spec

(* No command programs flash that is not erased.                           *)
THEOREM FlashErasedFirst == Spec => []ProgramsErasedFlash
<1>1. Inv => ProgramsErasedFlash
    <2> SUFFICES ASSUME Inv PROVE ProgramsErasedFlash
        OBVIOUS
    <2>1. pc = "programTag" => idx \in Chunks
        BY CommandTypes, BoundsAssumption
           DEF Inv, TypeOK, FillProgress, Filling, Chunks, Lengths
    <2> QED BY <2>1 DEF Inv, PagesErased, FillProgress, Filling, ProgramsErasedFlash
<1> QED BY InitInv, NextInv, <1>1, PTL DEF Spec

-----------------------------------------------------------------------------
(* How many flash operations a command has left.                           *)

(* The count is positive while a command is in progress, and at least 3    *)
(* where a failed blob_write goes on to the two operations of its clean-up.*)
LEMMA OperationsLeftType ==
    ASSUME Inv, CommandInv, pc \notin {"idle", "boot"}
    PROVE  /\ OperationsLeft \in Nat \ {0}
           /\ Storing /\ pc \notin FlushingNames => OperationsLeft >= 3
           /\ cmd \in Cmd /\ (Storing => cmd.file.chunks \in Nat)
           /\ Storing <=> cmd.op # "delete"
           /\ idx \in 0 .. LastPage /\ LastPage \in Nat
<1>1. /\ cmd \in Cmd /\ pc \in Labels /\ idx \in 0 .. LastPage
      /\ pc \in {"programChunk", "programTag"} => idx \in 1 .. cmd.file.chunks
      /\ pc \in Filling => Storing
    BY DEF Inv, TypeOK, FillProgress, LastPage, Storing, Filling
<1>2. (Storing => cmd.file.chunks \in Nat) /\ (Storing <=> cmd.op # "delete")
    BY <1>1, CommandTypes DEF Inv, Storing, StoreOps, Lengths
<1>3. LastPage \in Nat
    BY BoundsAssumption DEF LastPage
<1>4. cmd.op = "delete" => FlushIsLast
    BY DEF FlushIsLast
<1>5. Storing => BlobOperations \in Nat /\ BlobOperations >= LastPage + 6
    BY <1>2, <1>3 DEF BlobOperations
<1> DEFINE Positive == /\ OperationsLeft \in Nat \ {0}
                       /\ Storing /\ pc \notin FlushingNames => OperationsLeft >= 3
<1>6. ASSUME pc \in FlushingNames PROVE Positive
    <2>1. FlushIsLast \/ BlobOperations \in Nat
        BY <1>2, <1>4, <1>5
    <2>2. OperationsLeft = (IF pc = "programNames" THEN 1 ELSE 2)
                           + IF FlushIsLast THEN 0 ELSE BlobOperations
        BY <1>6 DEF OperationsLeft, FlushingNames
    <2>3. OperationsLeft \in Nat \ {0}
        <3>1. CASE FlushIsLast
            BY <2>2, <3>1
        <3>2. CASE ~ FlushIsLast
            BY <2>1, <2>2, <3>2
        <3> QED BY <3>1, <3>2
    <2> QED BY <1>6, <2>3, Zenon
<1>7. ASSUME pc = "eraseSlot" PROVE Positive
    <2>1. OperationsLeft = IF cmd.op = "delete" THEN 5 + LastPage - idx ELSE BlobOperations - idx
        BY <1>7 DEF OperationsLeft
    <2> QED BY <1>1, <1>2, <1>3, <1>5, <2>1
<1>8. ASSUME pc \in {"programChunk", "programTag"} PROVE Positive
    <2>1. OperationsLeft = (IF pc = "programTag" THEN 6 ELSE 7) + 2 * (cmd.file.chunks - idx)
        BY <1>8 DEF OperationsLeft
    <2> QED BY <1>1, <1>2, <1>8, <2>1 DEF Filling
<1>9. ASSUME pc \in {"programHeader", "eraseFat", "programFat"} PROVE Positive
    BY <1>9 DEF OperationsLeft
<1>10. Positive
    BY <1>1, <1>6, <1>7, <1>8, <1>9 DEF Labels, FlushingNames
<1>11. Storing <=> cmd.op # "delete"
    BY <1>2
<1> QED BY <1>1, <1>2, <1>3, <1>10, <1>11

LEMMA NextOperationsLeft ==
    ASSUME Inv, CommandInv, Next, pc \notin {"idle", "boot"}, resets' = resets
    PROVE  OperationsLeft' \in 0 .. OperationsLeft - 1
<1>0. /\ OperationsLeft \in Nat \ {0}
      /\ Storing /\ pc \notin FlushingNames => OperationsLeft >= 3
      /\ cmd \in Cmd /\ (Storing => cmd.file.chunks \in Nat)
      /\ Storing <=> cmd.op # "delete"
      /\ idx \in 0 .. LastPage /\ LastPage \in Nat
    BY OperationsLeftType
<1>1. ASSUME pc' = "idle" PROVE OperationsLeft' \in 0 .. OperationsLeft - 1
    <2>1. OperationsLeft' = 0
        BY <1>1 DEF OperationsLeft
    <2> QED BY <1>0, <2>1
<1>2. ASSUME OperationsLeft' \in Nat, OperationsLeft' < OperationsLeft
      PROVE  OperationsLeft' \in 0 .. OperationsLeft - 1
    BY <1>0, <1>2
<1>b. Storing => BlobOperations \in Nat /\ BlobOperations = 2 * cmd.file.chunks + LastPage + 6
    BY <1>0 DEF BlobOperations
<1>3. CASE EraseNames
    <2>1. pc = "eraseNames" /\ pc' = "programNames" /\ cmd' = cmd
        BY <1>3 DEF EraseNames, Goto
    <2>2. FlushIsLast' = FlushIsLast /\ BlobOperations' = BlobOperations
        BY <2>1 DEF FlushIsLast, BlobOperations
    <2>3. ~ FlushIsLast => BlobOperations \in Nat
        BY <1>0, <1>b DEF FlushIsLast
    <2> QED BY <1>2, <2>1, <2>2, <2>3 DEF OperationsLeft
<1>4. CASE ProgramNames
    <2>1. CASE FlushIsLast
        BY <1>1, <1>4, <2>1 DEF ProgramNames, Finish, FlushIsLast
    <2>2. CASE ~ FlushIsLast
        <3>1. /\ pc = "programNames" /\ pc' = "eraseSlot" /\ cmd' = cmd /\ idx' = 0
              /\ cmd.op # "delete" /\ Storing
            BY <1>0, <1>4, <2>2 DEF ProgramNames, Goto, FlushIsLast
        <3>2. BlobOperations' = BlobOperations
            BY <3>1 DEF BlobOperations
        <3>3. OperationsLeft = 1 + BlobOperations /\ OperationsLeft' = BlobOperations - 0
            BY <2>2, <3>1, <3>2 DEF OperationsLeft
        <3> QED BY <1>2, <1>b, <3>1, <3>3
    <2> QED BY <2>1, <2>2
<1>5. CASE EraseSlot
    <2>1. pc = "eraseSlot" /\ cmd' = cmd
        BY <1>5 DEF EraseSlot
    <2>2. OperationsLeft = IF cmd.op = "delete" THEN 5 + LastPage - idx ELSE BlobOperations - idx
        BY <2>1 DEF OperationsLeft
    <2>3. CASE idx # LastPage
        <3>1. pc' = "eraseSlot" /\ idx' = idx + 1 /\ BlobOperations' = BlobOperations
            BY <1>5, <2>1, <2>3 DEF EraseSlot, Goto, BlobOperations
        <3>2. OperationsLeft' = IF cmd.op = "delete" THEN 5 + LastPage - idx'
                                ELSE BlobOperations - idx'
            BY <2>1, <3>1 DEF OperationsLeft, LastPage
        <3> QED BY <1>0, <1>2, <1>b, <2>2, <2>3, <3>1, <3>2
    <2>4. CASE idx = LastPage
        <3>1. CASE cmd.op = "delete"
            <4>1. pc' = "eraseFat"
                BY <1>5, <2>4, <3>1 DEF EraseSlot, AfterErase, Goto
            <4>2. OperationsLeft' = 4
                BY <4>1 DEF OperationsLeft
            <4> QED BY <1>0, <1>2, <2>2, <2>4, <3>1, <4>2
        <3>2. CASE cmd.op # "delete" /\ cmd.file.chunks = 0
            <4>1. pc' = "programHeader"
                BY <1>5, <2>4, <3>2 DEF EraseSlot, AfterErase, Goto
            <4>2. OperationsLeft' = 5
                BY <4>1 DEF OperationsLeft
            <4> QED BY <1>0, <1>2, <1>b, <2>2, <2>4, <3>2, <4>2
        <3>3. CASE cmd.op # "delete" /\ cmd.file.chunks # 0
            <4>1. pc' = "programChunk" /\ idx' = 1
                BY <1>5, <2>4, <3>3 DEF EraseSlot, AfterErase, Goto
            <4>2. OperationsLeft' = 7 + 2 * (cmd.file.chunks - 1)
                BY <2>1, <4>1 DEF OperationsLeft
            <4> QED BY <1>0, <1>2, <1>b, <2>2, <2>4, <3>3, <4>2
        <3> QED BY <3>1, <3>2, <3>3
    <2> QED BY <2>3, <2>4
<1>6. ASSUME pc \in {"programChunk", "programTag"}
      PROVE  /\ Storing /\ idx \in 1 .. cmd.file.chunks
             /\ OperationsLeft = (IF pc = "programTag" THEN 6 ELSE 7)
                                 + 2 * (cmd.file.chunks - idx)
    BY <1>6 DEF Inv, FillProgress, Filling, Storing, OperationsLeft
<1>7. CASE ProgramChunk
    <2>1. pc = "programChunk" /\ pc' = "programTag" /\ idx' = idx /\ cmd' = cmd
        BY <1>7 DEF ProgramChunk, Goto
    <2>2. OperationsLeft' = 6 + 2 * (cmd.file.chunks - idx)
        BY <2>1 DEF OperationsLeft
    <2> QED BY <1>0, <1>2, <1>6, <2>1, <2>2
<1>8. CASE ProgramTag
    <2>1. pc = "programTag" /\ cmd' = cmd
        BY <1>8 DEF ProgramTag
    <2>2. CASE idx = cmd.file.chunks
        <3>1. pc' = "programHeader"
            BY <1>8, <2>2 DEF ProgramTag, Goto
        <3>2. OperationsLeft' = 5
            BY <3>1 DEF OperationsLeft
        <3> QED BY <1>0, <1>2, <1>6, <2>1, <2>2, <3>2
    <2>3. CASE idx # cmd.file.chunks
        <3>1. pc' = "programChunk" /\ idx' = idx + 1
            BY <1>8, <2>3 DEF ProgramTag, Goto
        <3>2. OperationsLeft' = 7 + 2 * (cmd.file.chunks - (idx + 1))
            BY <2>1, <3>1 DEF OperationsLeft
        <3> QED BY <1>0, <1>2, <1>6, <2>1, <2>3, <3>2
    <2> QED BY <2>2, <2>3
<1>9. CASE ProgramHeader \/ EraseFat
    <2>1. \/ pc = "programHeader" /\ pc' = "eraseFat"
          \/ pc = "eraseFat" /\ pc' = "programFat"
        BY <1>9 DEF ProgramHeader, EraseFat, Goto
    <2>2. \/ OperationsLeft = 5 /\ OperationsLeft' = 4
          \/ OperationsLeft = 4 /\ OperationsLeft' = 3
        BY <2>1 DEF OperationsLeft
    <2> QED BY <1>2, <2>2
<1>10. CASE ProgramFat
    <2>1. CASE cmd.op = "delete"
        <3>1. pc = "programFat" /\ pc' = "eraseNames" /\ cmd' = cmd
            BY <1>10, <2>1 DEF ProgramFat, Goto
        <3>2. OperationsLeft = 3 /\ OperationsLeft' = 2
            BY <2>1, <3>1 DEF OperationsLeft, FlushIsLast
        <3> QED BY <1>2, <3>2
    <2>2. CASE cmd.op # "delete"
        BY <1>1, <1>10, <2>2 DEF ProgramFat, Finish
    <2> QED BY <2>1, <2>2
<1>11. CASE NamesFail \/ BlobDeleteFails
    BY <1>1, <1>11 DEF NamesFail, BlobDeleteFails, Finish
<1>12. CASE BlobWriteFails
    <2>1. Storing /\ pc \notin FlushingNames /\ pc' = "eraseNames"
        BY <1>12 DEF BlobWriteFails, Goto, FlushingNames
    <2>2. cmd'.failed
        BY <1>0, <1>12, <2>1 DEF BlobWriteFails, Cmd, Storing, StoreOps
    <2>3. OperationsLeft' = 2
        BY <2>1, <2>2 DEF OperationsLeft, FlushIsLast
    <2> QED BY <1>0, <1>2, <2>1, <2>3
<1>13. ~ (HostCommand \/ Boot)
    BY DEF HostCommand, BeginStore, BeginDelete, RefuseStore, RefuseDelete, Read, ListFiles, Boot
<1>14. ~ Reset
    BY DEF Reset, Inv, TypeOK
<1> QED BY <1>3, <1>4, <1>5, <1>7, <1>8, <1>9, <1>10, <1>11, <1>12, <1>13, <1>14
        DEF Next, FlashStep, FlashFailure

(* Every command asks for a bounded number of flash operations, whichever  *)
(* of them fail.                                                           *)
THEOREM WorkBounded == Spec => BoundedFlashWork
<1>1. Init => CommandInv
    BY BlankAssumption DEF Init, CommandInv, StoreProgress, DeleteProgress
<1>2. Inv /\ CommandInv /\ [Next]_vars
         => [pc \notin {"idle", "boot"} /\ resets' = resets
               => OperationsLeft' \in 0 .. OperationsLeft - 1]_vars
    BY NextOperationsLeft
<1>3. Inv /\ CommandInv /\ [Next]_vars => CommandInv'
    BY NextCommandInv
<1> QED BY InitInv, NextInv, <1>1, <1>2, <1>3, PTL DEF Spec, BoundedFlashWork

=============================================================================
