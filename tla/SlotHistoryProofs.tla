------------------------- MODULE SlotHistoryProofs -------------------------
(***************************************************************************)
(* RAM and flash between commands, whatever has failed before.             *)
(***************************************************************************)
EXTENDS SlotHistory, SlotStoreProofs

Settled == doubt = Directory!Certain

(* The first two of ShadowInv say that the tables agree once nothing is in *)
(* doubt; the last two, whatever is in doubt, that a command which has     *)
(* flushed a table of its own has set it right.                            *)
NamesMatch == Settled /\ pc \notin FlushingNames \cup {"boot"} => names = nameF
FatMatches ==
    Settled /\ pc \notin {"programFat", "boot"} /\ (cmd = NoCmd \/ ~ cmd.failed)
        => fat = fatF
NamesFlushed == cmd # NoCmd /\ cmd.op # "delete" /\ pc \notin FlushingNames => names = nameF
FatCommitted == cmd # NoCmd /\ cmd.op = "delete" /\ pc \in FlushingNames => fat = fatF

ShadowInv == NamesMatch /\ FatMatches /\ NamesFlushed /\ FatCommitted

(* A failure leaves every slot in doubt.                                   *)
LEMMA FailureDoubts ==
    ASSUME Remember, Ends(Error), pc' = "idle"
    PROVE  ~ Settled'
<1>1. doubt' = [s \in Slots |-> doubt[s] \cup Directory!Outcomes(s)]
    <2>1. Ack # Error
        BY DEF Ack, Error
    <2>2. ~ Ends(Ack)
        BY <2>1 DEF Ends
    <2> QED BY <2>2 DEF Remember
<1>2. 0 \in Slots
    BY BoundsAssumption DEF Slots
<1>3. Blank \in doubt'[0]
    BY <1>1, <1>2 DEF Directory!Outcomes
<1>4. Directory!Certain[0] = {}
    BY <1>2 DEF Directory!Certain
<1>5. Directory!Certain' = Directory!Certain
    BY DEF Directory!Certain
<1> QED BY <1>3, <1>4, <1>5 DEF Settled

(* A step that ends no command leaves the doubt as it is.                  *)
LEMMA DoubtKept ==
    ASSUME Remember, pc' # "boot", cmd = NoCmd \/ cmd' # NoCmd, Settled'
    PROVE  Settled
BY DEF Remember, Ends, Settled, Directory!Certain

LEMMA NextShadowInv == Inv /\ ShadowInv /\ [HistoryNext]_historyVars => ShadowInv'
<1> SUFFICES ASSUME Inv, ShadowInv, [HistoryNext]_historyVars PROVE ShadowInv'
    OBVIOUS
<1> USE DEF ShadowInv, NamesMatch, FatMatches, NamesFlushed, FatCommitted, FlushingNames
<1>0. CASE UNCHANGED historyVars
    BY <1>0 DEF historyVars, vars, flash, shadow, Settled, Directory!Certain
<1> SUFFICES ASSUME Next, Remember PROVE ShadowInv'
    BY <1>0 DEF HistoryNext
<1>a. /\ cmd = NoCmd <=> pc \in {"idle", "boot"}
      /\ cmd \in Cmd \cup {NoCmd}
      /\ cmd # NoCmd => cmd.op \in StoreOps \cup {"delete"}
    BY CommandTypes DEF Inv, TypeOK
<1>1. CASE HostCommand
    <2>1. CASE pc' = "idle"
        BY <1>1, <2>1, <1>a, DoubtKept
           DEF HostCommand, BeginStore, BeginDelete, RefuseStore, RefuseDelete, Read,
               ListFiles, Goto, flash, shadow
    <2>2. CASE pc' = "eraseNames"
        BY <1>1, <2>2, <1>a, DoubtKept
           DEF HostCommand, BeginStore, BeginDelete, RefuseStore, RefuseDelete, Read,
               ListFiles, Goto, flash, shadow, StoreOps
    <2>3. CASE pc' = "eraseSlot"
        BY <1>1, <2>3, <1>a, DoubtKept
           DEF HostCommand, BeginStore, BeginDelete, RefuseStore, RefuseDelete, Read,
               ListFiles, Goto, flash, shadow
    <2> QED BY <1>1, <2>1, <2>2, <2>3
               DEF HostCommand, BeginStore, BeginDelete, RefuseStore, RefuseDelete, Read,
                   ListFiles, Goto
<1>2. CASE EraseNames
    BY <1>2, <1>a, DoubtKept DEF EraseNames, Goto, shadow
<1>3. CASE ProgramNames
    <2>1. nameF' = names
        BY <1>3, ProgramErasedPage DEF ProgramNames, Inv, TypeOK, PagesErased
    <2>2. CASE cmd.op = "delete"
        BY <1>3, <2>1, <2>2, <1>a DEF ProgramNames, Finish, shadow
    <2>3. CASE cmd.op # "delete" /\ cmd.failed
        BY <1>3, <2>1, <2>3, <1>a, FailureDoubts DEF ProgramNames, Finish, shadow, Ends
    <2>4. CASE cmd.op # "delete" /\ ~ cmd.failed
        BY <1>3, <2>1, <2>4, <1>a, DoubtKept DEF ProgramNames, Goto, shadow
    <2> QED BY <2>2, <2>3, <2>4
<1>4. CASE EraseSlot \/ ProgramChunk \/ ProgramTag \/ ProgramHeader
    BY <1>4, <1>a, DoubtKept
       DEF EraseSlot, AfterErase, ProgramChunk, ProgramTag, ProgramHeader, Goto, shadow
<1>5. CASE EraseFat
    BY <1>5, <1>a, DoubtKept DEF EraseFat, Goto, shadow
<1>6. CASE ProgramFat
    <2>1. NewFat \in [Slots -> FatEntry \cup {Blank, Torn}]
        BY <1>6, <1>a, CommandTypes DEF ProgramFat, Inv
    <2>2. fatF' = NewFat /\ fat' = NewFat
        BY <1>6, <2>1, ProgramErasedPage DEF ProgramFat, Inv, PagesErased
    <2>3. CASE cmd.op = "delete"
        BY <1>6, <2>2, <2>3, <1>a, DoubtKept DEF ProgramFat, Goto
    <2>4. CASE cmd.op # "delete"
        BY <1>6, <2>2, <2>4, <1>a DEF ProgramFat, Finish
    <2> QED BY <2>3, <2>4
<1>7. CASE NamesFail \/ BlobDeleteFails
    <2>1. pc' = "idle" /\ cmd' = NoCmd /\ Ends(Error)
        BY <1>7, <1>a DEF NamesFail, BlobDeleteFails, Finish, Ends
    <2> QED BY <2>1, FailureDoubts
<1>8. CASE BlobWriteFails
    <2>1. cmd \in Cmd /\ cmd.op \in StoreOps
        BY <1>8, <1>a DEF BlobWriteFails, Storing
    <2>2. cmd' \in Cmd /\ cmd'.op = cmd.op /\ cmd'.failed
        BY <1>8, <2>1 DEF BlobWriteFails, Cmd, StoreOps
    <2>3. cmd' # NoCmd
        BY <2>2, BlankAssumption
    <2> QED BY <1>8, <2>1, <2>2, <2>3 DEF BlobWriteFails, Goto, StoreOps
<1>9. CASE Reset
    BY <1>9 DEF Reset
<1>10. CASE Boot
    BY <1>10, <1>a DEF Boot, flash
<1> QED BY <1>1, <1>2, <1>3, <1>4, <1>5, <1>6, <1>7, <1>8, <1>9, <1>10
        DEF Next, FlashStep, FlashFailure

(* However often operations have failed, once a command has completed, or  *)
(* the device has booted, RAM holds what a reset would reload.             *)
THEOREM ShadowsMatchUnlessFailed == HistorySpec => []ShadowMatchesUnlessFailed
<1>1. HistoryInit => Inv /\ ShadowInv
    BY InitInv DEF HistoryInit, Init, ShadowInv, NamesMatch, FatMatches, NamesFlushed,
                   FatCommitted
<1>2. Inv /\ [HistoryNext]_historyVars => Inv'
    BY NextInv DEF HistoryNext, historyVars
<1>3. Inv /\ ShadowInv => ShadowMatchesUnlessFailed
    BY DEF ShadowInv, NamesMatch, FatMatches, Settled, FlushingNames, Inv, TypeOK,
           ShadowMatchesUnlessFailed
<1> QED BY <1>1, <1>2, <1>3, NextShadowInv, PTL DEF HistorySpec
-----------------------------------------------------------------------------
(* The refinement.  What can be read through a name entry, a FAT entry and *)
(* a header, given that headers are only found over complete blobs.        *)
Seen(n, f, h) ==
    IF Readable(n) /\ Readable(f) /\ Readable(h) /\ f.chunks = h.chunks /\ h.group # 0
    THEN [name |-> n.name, group |-> n.group, content |-> h.nonce, sealed |-> h.group,
          uuid |-> f.uuid]
    ELSE Blank

Current(s) == IF pc = "boot" THEN Seen(nameF[s], fatF[s], hdr[s])
              ELSE Seen(names[s], fat[s], hdr[s])

(* SlotDirectory's variables and operators, spelled out.                   *)
AtWork(s) == cmd # NoCmd /\ s = cmd.slot
Old(s) == IF AtWork(s) THEN was ELSE View(s)

Renamed ==
    IF cmd = NoCmd \/ cmd.op = "delete" THEN {}
    ELSE {[name |-> cmd.file.name, group |-> cmd.file.group, uuid |-> u.uuid,
           content |-> f.content, sealed |-> f.sealed] : f, u \in past[cmd.slot]}

Left(s) == {Blank, Old(s)} \cup (IF AtWork(s) THEN Renamed ELSE {})
Possible(s) == doubt[s] \cup (IF cmd = NoCmd THEN {Old(s)} ELSE Left(s))

LEMMA ViewIsCurrent == Inv => \A s \in Slots : View(s) = Current(s)
BY DEF Inv, HeaderComplete, View, ViewThrough, Current, Seen, MaskAdmits

LEMMA ViewIsCurrentNext == Inv' => \A s \in Slots : View(s)' = Current(s)'
BY DEF Inv, HeaderComplete, View, ViewThrough, Current, Seen, MaskAdmits

(* A command in progress has a slot and a file that is one.                *)
LEMMA AtWorkSlot ==
    ASSUME Inv
    PROVE  /\ cmd # NoCmd => cmd \in Cmd /\ cmd.slot \in Slots
           /\ InWork(cmd) = NoSlot <=> cmd = NoCmd
           /\ \A s \in Slots : s = InWork(cmd) <=> AtWork(s)
           /\ Intended(cmd) \in FileView \cup {Blank}
           /\ Intended(cmd) = Blank <=> cmd = NoCmd \/ cmd.op = "delete"
           /\ cmd # NoCmd => (cmd.op = "delete" <=> ~ Storing)
<1>1. cmd # NoCmd => cmd \in Cmd /\ cmd.slot \in Slots
    BY CommandTypes DEF Inv, TypeOK
<1>2. cmd # NoCmd /\ cmd.op # "delete" => Stored(cmd.file) \in FileView /\ Storing
    <2>1. cmd # NoCmd /\ cmd.op # "delete" => cmd.file \in File /\ Storing
        BY <1>1, CommandTypes DEF Inv, Storing
    <2> QED BY <2>1 DEF File, Stored, FileView
<1>3. \A f \in FileView : f # Blank
    BY BlankAssumption
<1>4. Intended(cmd) = Blank <=> cmd = NoCmd \/ cmd.op = "delete"
    BY <1>2, <1>3 DEF Intended
<1>5. Intended(cmd) \in FileView \cup {Blank}
    BY <1>2 DEF Intended
<1>6. cmd # NoCmd => (cmd.op = "delete" <=> ~ Storing)
    BY <1>2 DEF Storing, StoreOps
<1> QED BY <1>1, <1>4, <1>5, <1>6, NoSlotAssumption DEF InWork, AtWork

LEMMA OutcomesAreLeft ==
    ASSUME Inv, NEW s \in Slots
    PROVE  /\ Directory!Outcomes(s) = Left(s)
           /\ Directory!Revealed(s) = Possible(s)
<1>1. Directory!UnderNewName = Renamed
    <2>1. CASE cmd = NoCmd \/ cmd.op = "delete"
        BY <2>1, AtWorkSlot DEF Directory!UnderNewName, Renamed
    <2>2. CASE cmd # NoCmd /\ cmd.op # "delete"
        BY <2>2, AtWorkSlot DEF Directory!UnderNewName, Renamed, Intended, InWork, Stored
    <2> QED BY <2>1, <2>2
<1>2. Directory!Outcomes(s) = Left(s)
    BY <1>1, AtWorkSlot DEF Directory!Outcomes, Left, Old
<1> QED BY <1>2, AtWorkSlot DEF Directory!Revealed, Possible, Old
-----------------------------------------------------------------------------
(* Every header and every uuid in a slot comes from a store to that slot.  *)
KnownHeader(h, s) ==
    Readable(h) => \E f \in past[s] : f.content = h.nonce /\ f.sealed = h.group
KnownEntry(e, s) == Readable(e) => \E u \in past[s] : u.uuid = e.uuid

PastInv ==
    /\ past \in [Slots -> SUBSET FileView]
    /\ \A s \in Slots :
          KnownHeader(hdr[s], s) /\ KnownEntry(fat[s], s) /\ KnownEntry(fatF[s], s)
    /\ cmd # NoCmd /\ Storing => Stored(cmd.file) \in past[cmd.slot]

(* What a reset may reveal is in doubt or what a command may leave; and    *)
(* what the tables in RAM say of the slot in work is what it may leave.    *)
ViewsInv ==
    pc # "boot" =>
        \A s \in Slots : \A n \in {names[s], nameF[s]}, f \in {fat[s], fatF[s]} :
            Seen(n, f, hdr[s]) \in Possible(s)

CurrentInv ==
    cmd # NoCmd =>
        Seen(names[cmd.slot], fat[cmd.slot], hdr[cmd.slot]) \in Left(cmd.slot)

BootInv == pc = "boot" => Settled

HistoryInv ==
    /\ Inv /\ CommandInv /\ ShadowInv
    /\ PastInv /\ ViewsInv /\ CurrentInv /\ BootInv

-----------------------------------------------------------------------------
(* Nothing can be read through a cell that is erased or torn.              *)
LEMMA SeenNothing ==
    ASSUME NEW n, NEW f, NEW h, ~ Readable(n) \/ ~ Readable(f) \/ ~ Readable(h)
    PROVE  Seen(n, f, h) = Blank
BY DEF Seen

(* Under the new name of a store, only known uuids and contents show.      *)
LEMMA NewNameView ==
    ASSUME cmd # NoCmd, cmd.op # "delete", NEW f, NEW h,
           KnownEntry(f, cmd.slot), KnownHeader(h, cmd.slot)
    PROVE  Seen(NameOf(cmd.file), f, h) \in Left(cmd.slot)
<1>1. CASE Seen(NameOf(cmd.file), f, h) = Blank
    BY <1>1 DEF Left
<1>2. CASE Seen(NameOf(cmd.file), f, h) # Blank
    <2>1. /\ Readable(f) /\ Readable(h)
          /\ Seen(NameOf(cmd.file), f, h) =
                [name |-> cmd.file.name, group |-> cmd.file.group, content |-> h.nonce,
                 sealed |-> h.group, uuid |-> f.uuid]
        BY <1>2 DEF Seen, NameOf
    <2>2. PICK g \in past[cmd.slot] : g.content = h.nonce /\ g.sealed = h.group
        BY <2>1 DEF KnownHeader
    <2>3. PICK u \in past[cmd.slot] : u.uuid = f.uuid
        BY <2>1 DEF KnownEntry
    <2>4. Seen(NameOf(cmd.file), f, h) =
             [name |-> cmd.file.name, group |-> cmd.file.group, uuid |-> u.uuid,
              content |-> g.content, sealed |-> g.sealed]
        BY <2>1, <2>2, <2>3
    <2>5. Seen(NameOf(cmd.file), f, h) \in Renamed
        BY <2>2, <2>3, <2>4 DEF Renamed
    <2> QED BY <2>5 DEF Left, AtWork
<1> QED BY <1>1, <1>2

(* What an interrupted operation makes of the slot in work.                *)
LEMMA InterruptedSlot ==
    ASSUME Inv, cmd # NoCmd, Interrupted
    PROVE  LET s == cmd.slot IN
           \/ hdr'[s] = hdr[s] /\ fatF'[s] \in {fatF[s], Blank}
           \/ ~ Readable(hdr'[s]) /\ fatF' = fatF
           \/ pc = "programHeader" /\ hdr'[s] = HeaderOf(cmd.file) /\ fatF' = fatF
           \/ pc = "programFat" /\ hdr'[s] = hdr[s] /\ fatF'[s] = NewFatEntry
<1>0. cmd \in Cmd /\ cmd.slot \in Slots
    BY AtWorkSlot
<1>t. /\ hdr \in [Slots -> Header \cup {Blank, Torn}]
      /\ fat \in [Slots -> FatEntry \cup {Blank, Torn}]
    BY DEF Inv, TypeOK
<1>1. CASE pc \notin {"eraseSlot", "programHeader", "eraseFat", "programFat"}
    BY <1>1 DEF Interrupted, flash, slotCells
<1>2. CASE UNCHANGED flash
    BY <1>2 DEF flash, slotCells
<1>3. CASE pc = "eraseSlot" /\ EraseSlotPageCells(cmd.slot, idx) /\ UNCHANGED <<nameF, fatF>>
    BY <1>3, EraseCellsSafe DEF Readable
<1>4. CASE pc = "eraseFat" /\ fatF' = BlankPage /\ UNCHANGED <<nameF, slotCells>>
    BY <1>0, <1>4 DEF slotCells, BlankPage
<1>5. CASE /\ pc = "programFat"
           /\ \E n \in 1 .. NSlots : fatF' = ProgrammedPage(fatF, NewFat, n)
           /\ UNCHANGED <<nameF, slotCells>>
    <2>1. NewFat[cmd.slot] = NewFatEntry
        BY <1>0, <1>t DEF NewFat
    <2> QED BY <1>0, <1>5, <2>1
            DEF slotCells, ProgrammedPage, Programmed, Inv, PagesErased, BlankPage
<1>6. CASE /\ pc = "programHeader"
           /\ \E v \in {Torn, HeaderOf(cmd.file)} :
                  hdr' = [hdr EXCEPT ![cmd.slot] = Programmed(@, v)]
           /\ UNCHANGED <<nameF, fatF, ct, tag>>
    <2>1. hdr[cmd.slot] = Blank
        BY <1>6 DEF Inv, FillProgress, Filling
    <2>2. hdr'[cmd.slot] \in {Blank, Torn, HeaderOf(cmd.file)}
        BY <1>0, <1>6, <1>t, <2>1 DEF Programmed
    <2> QED BY <1>6, <2>2 DEF Readable
<1> QED BY <1>1, <1>2, <1>3, <1>4, <1>5, <1>6 DEF Interrupted

(* What a reset may find after it: for the slot in work one of its         *)
(* outcomes, for every other slot what it held, nothing, or what was in    *)
(* doubt.                                                                  *)
LEMMA InterruptedViews ==
    ASSUME HistoryInv, cmd # NoCmd, Interrupted, NEW s \in Slots,
           NEW n \in {names[s], nameF'[s]}, NEW f \in {fat[s], fatF'[s]}
    PROVE  Seen(n, f, hdr'[s]) \in Possible(s)
<1>0. /\ cmd \in Cmd /\ cmd.slot \in Slots /\ Inv /\ pc # "boot"
      /\ Left(s) \subseteq Possible(s) /\ Blank \in Possible(s)
    BY AtWorkSlot DEF HistoryInv, Inv, TypeOK, Possible, Left
<1>1. ASSUME Seen(n, f, hdr'[s]) # Blank, hdr'[s] = hdr[s], f \in {fat[s], fatF[s], Blank}
      PROVE  Seen(n, f, hdr'[s]) \in Possible(s)
    <2>1. n \in {names[s], nameF[s], Blank}
        BY <1>0, InterruptedCells
    <2>2. n # Blank /\ f # Blank
        BY <1>1, SeenNothing DEF Readable
    <2> QED BY <1>0, <1>1, <2>1, <2>2 DEF HistoryInv, ViewsInv
<1>2. CASE s # cmd.slot
    <2>1. hdr'[s] = hdr[s] /\ f \in {fat[s], fatF[s], Blank}
        BY <1>0, <1>2, InterruptedCells
    <2> QED BY <1>0, <1>1, <2>1
<1>3. ASSUME s = cmd.slot, pc \in {"programHeader", "programFat"}, Storing,
             KnownHeader(hdr'[s], s), KnownEntry(f, s)
      PROVE  Seen(n, f, hdr'[s]) \in Possible(s)
    <2>1. /\ ~ cmd.failed /\ names[s] = NameOf(cmd.file) /\ cmd.op # "delete"
        BY <1>0, <1>3, AtWorkSlot
           DEF HistoryInv, CommandInv, StoreProgress, FlushingNames
    <2>2. nameF' = nameF /\ nameF = names
        BY <1>0, <1>3, <2>1, InterruptedCells
           DEF HistoryInv, ShadowInv, NamesFlushed, FlushingNames
    <2> QED BY <1>0, <1>3, <2>1, <2>2, NewNameView
<1>4. CASE s = cmd.slot
    <2>p. /\ KnownHeader(hdr[s], s) /\ KnownEntry(fat[s], s) /\ KnownEntry(fatF[s], s)
          /\ Storing => Stored(cmd.file) \in past[s]
        BY <1>4 DEF HistoryInv, PastInv
    <2>1. CASE hdr'[s] = hdr[s] /\ fatF'[s] \in {fatF[s], Blank}
        BY <1>0, <1>1, <2>1
    <2>2. CASE ~ Readable(hdr'[s])
        BY <1>0, <2>2, SeenNothing
    <2>3. CASE pc = "programHeader" /\ hdr'[s] = HeaderOf(cmd.file) /\ fatF' = fatF
        <3>1. Storing
            BY <1>0, <2>3 DEF Inv, FillProgress, Filling, Storing
        <3>2. KnownHeader(hdr'[s], s)
            BY <2>3, <2>p, <3>1 DEF KnownHeader, HeaderOf, Stored
        <3> QED BY <1>3, <1>4, <2>3, <2>p, <3>1, <3>2
    <2>4. CASE pc = "programFat" /\ hdr'[s] = hdr[s] /\ fatF'[s] = NewFatEntry
        <3>1. CASE f = fat[s] \/ ~ Storing
            <4>1. ~ Storing => NewFatEntry = Blank
                BY <1>0, AtWorkSlot DEF NewFatEntry
            <4> QED BY <1>0, <1>1, <2>4, <3>1, <4>1
        <3>2. CASE f = NewFatEntry /\ Storing
            <4>1. KnownEntry(f, s)
                BY <2>p, <3>2 DEF KnownEntry, NewFatEntry, Stored, Storing, StoreOps
            <4> QED BY <1>3, <1>4, <2>4, <2>p, <3>2, <4>1
        <3> QED BY <2>4, <3>1, <3>2
    <2> QED BY <1>0, <1>4, <2>1, <2>2, <2>3, <2>4, InterruptedSlot
<1> QED BY <1>2, <1>4

(* The same of what RAM says, which is never in doubt.                     *)
LEMMA InterruptedCurrent ==
    ASSUME HistoryInv, cmd # NoCmd, Interrupted
    PROVE  Seen(names[cmd.slot], fat[cmd.slot], hdr'[cmd.slot]) \in Left(cmd.slot)
<1> DEFINE s == cmd.slot
<1>0. cmd \in Cmd /\ s \in Slots /\ Inv /\ Blank \in Left(s)
    BY AtWorkSlot DEF HistoryInv, Left
<1>1. CASE hdr'[s] = hdr[s]
    BY <1>1 DEF HistoryInv, CurrentInv
<1>2. CASE ~ Readable(hdr'[s])
    BY <1>0, <1>2, SeenNothing
<1>3. CASE pc = "programHeader" /\ hdr'[s] = HeaderOf(cmd.file)
    <2>1. Storing
        BY <1>0, <1>3 DEF Inv, FillProgress, Filling, Storing
    <2>2. KnownHeader(hdr'[s], s) /\ KnownEntry(fat[s], s)
        BY <1>0, <1>3, <2>1 DEF HistoryInv, PastInv, KnownHeader, HeaderOf, Stored
    <2>3. names[s] = NameOf(cmd.file) /\ cmd.op # "delete"
        BY <1>0, <1>3, <2>1, AtWorkSlot
           DEF HistoryInv, CommandInv, StoreProgress, FlushingNames
    <2> QED BY <2>2, <2>3, NewNameView
<1> QED BY <1>0, <1>1, <1>2, <1>3, InterruptedSlot

(* An interrupted operation puts nothing unknown on flash.                 *)
LEMMA InterruptedKnown ==
    ASSUME HistoryInv, cmd # NoCmd, Interrupted, NEW s \in Slots
    PROVE  KnownHeader(hdr'[s], s) /\ KnownEntry(fatF'[s], s)
<1>0. cmd \in Cmd /\ cmd.slot \in Slots /\ Inv
    BY AtWorkSlot DEF HistoryInv
<1>p. /\ KnownHeader(hdr[s], s) /\ KnownEntry(fat[s], s) /\ KnownEntry(fatF[s], s)
      /\ s = cmd.slot /\ Storing => Stored(cmd.file) \in past[s]
    BY DEF HistoryInv, PastInv
<1>1. CASE s # cmd.slot
    <2>1. hdr'[s] = hdr[s] /\ fatF'[s] \in {fatF[s], Blank, fat[s]}
        BY <1>0, <1>1, InterruptedCells
    <2> QED BY <1>p, <2>1 DEF KnownHeader, KnownEntry, Readable
<1>2. CASE s = cmd.slot
    <2>1. pc = "programHeader" => KnownHeader(HeaderOf(cmd.file), s)
        <3>1. pc = "programHeader" => Storing
            BY <1>0 DEF Inv, FillProgress, Filling, Storing
        <3> QED BY <1>2, <1>p, <3>1 DEF KnownHeader, HeaderOf, Stored
    <2>2. KnownEntry(NewFatEntry, s)
        BY <1>0, <1>2, <1>p, AtWorkSlot DEF KnownEntry, NewFatEntry, Stored, Readable
    <2>3. KnownEntry(Blank, s) /\ (~ Readable(hdr'[s]) => KnownHeader(hdr'[s], s))
        BY DEF KnownEntry, KnownHeader, Readable
    <2> QED BY <1>0, <1>2, <1>p, <2>1, <2>2, <2>3, InterruptedSlot
<1> QED BY <1>1, <1>2
-----------------------------------------------------------------------------
(* SlotDirectory's actions, recognised by what they do to the mapped       *)
(* variables.                                                              *)
LEMMA WorkSlot ==
    /\ InWork(NoCmd) = NoSlot /\ NoSlot \notin Slots
    /\ \A c : c # NoCmd => InWork(c) = c.slot
BY NoSlotAssumption DEF InWork

LEMMA DirQuiet ==
    ASSUME UNCHANGED <<past, doubt>>,
           InWork(cmd') = InWork(cmd), Intended(cmd') = Intended(cmd),
           was' = was \/ cmd = NoCmd,
           \A s \in Slots : s # InWork(cmd) => View(s)' = View(s)
    PROVE  UNCHANGED Directory!dirVars
<1>1. \A s \in Slots : (IF s = InWork(cmd) THEN was ELSE View(s))' =
                        (IF s = InWork(cmd) THEN was ELSE View(s))
    BY WorkSlot
<1> QED BY <1>1 DEF Directory!dirVars

LEMMA DirBegin ==
    ASSUME cmd = NoCmd, cmd' # NoCmd, cmd'.slot \in Slots,
           Intended(cmd') \in FileView \cup {Blank},
           was' = View(cmd'.slot), doubt' = doubt,
           past' = [past EXCEPT ![cmd'.slot] = @ \cup ({Intended(cmd')} \ {Blank})],
           \A s \in Slots \ {cmd'.slot} : View(s)' = View(s)
    PROVE  Directory!Next
<1>1. InWork(cmd) = NoSlot /\ InWork(cmd') = cmd'.slot /\ NoSlot \notin Slots
    BY WorkSlot
<1>2. \A s \in Slots : (IF s = InWork(cmd) THEN was ELSE View(s))' =
                        (IF s = InWork(cmd) THEN was ELSE View(s))
    BY <1>1
<1>3. Directory!Begin(cmd'.slot, Intended(cmd'))
    BY <1>1, <1>2 DEF Directory!Begin
<1> QED BY <1>3 DEF Directory!Next

(* Where a command has ended, the directory is what can be seen.           *)
LEMMA DirEnded ==
    ASSUME cmd' = NoCmd, past' = past
    PROVE  /\ Directory!End
           /\ [s \in Slots |-> IF s = InWork(cmd) THEN was ELSE View(s)]' =
                  [s \in Slots |-> View(s)']
<1>1. InWork(cmd') = NoSlot /\ Intended(cmd') = Blank /\ NoSlot \notin Slots
    BY WorkSlot DEF Intended
<1> QED BY <1>1 DEF Directory!End

LEMMA DirEnd ==
    ASSUME Inv, cmd # NoCmd, NEW w \in Slots, w = cmd.slot, cmd' = NoCmd, past' = past,
           \A s \in Slots \ {w} : View(s)' = View(s),
           \/ /\ doubt' = Directory!Certain
              /\ View(w)' = Directory!Held(Intended(cmd))
           \/ /\ doubt' = [s \in Slots |-> doubt[s] \cup Directory!Outcomes(s)]
              /\ View(w)' \in Left(w)
    PROVE  Directory!Next
<1> DEFINE dir == [s \in Slots |-> IF s = InWork(cmd) THEN was ELSE View(s)]
<1>1. InWork(cmd) = w /\ InWork(cmd) # NoSlot
    BY AtWorkSlot, WorkSlot
<1>2. Directory!End /\ dir' = [s \in Slots |-> View(s)']
    BY DirEnded
<1>3. dir' = [dir EXCEPT ![w] = View(w)']
    BY <1>1, <1>2
<1>4. CASE /\ doubt' = Directory!Certain
           /\ View(w)' = Directory!Held(Intended(cmd))
    <2>1. Directory!Complete
        BY <1>1, <1>2, <1>3, <1>4 DEF Directory!Complete
    <2> QED BY <2>1 DEF Directory!Next
<1>5. CASE /\ doubt' = [s \in Slots |-> doubt[s] \cup Directory!Outcomes(s)]
           /\ View(w)' \in Left(w)
    <2>1. View(w)' \in Directory!Outcomes(InWork(cmd))
        BY <1>1, <1>5, OutcomesAreLeft
    <2>2. Directory!Fail
        BY <1>1, <1>2, <1>3, <1>5, <2>1 DEF Directory!Fail
    <2> QED BY <2>2 DEF Directory!Next
<1> QED BY <1>4, <1>5

LEMMA DirCrash ==
    ASSUME Inv, cmd' = NoCmd, past' = past, doubt' = Directory!Certain,
           \A s \in Slots : View(s)' \in Possible(s)
    PROVE  Directory!Next
<1>1. Directory!End
      /\ [s \in Slots |-> IF s = InWork(cmd) THEN was ELSE View(s)]' =
             [s \in Slots |-> View(s)']
    BY DirEnded
<1>2. \A s \in Slots : View(s)' \in Directory!Revealed(s)
    BY OutcomesAreLeft
<1>3. Directory!Crash
    BY <1>1, <1>2 DEF Directory!Crash
<1> QED BY <1>3 DEF Directory!Next

Implements == Directory!Next \/ UNCHANGED Directory!dirVars

-----------------------------------------------------------------------------
(* Steps inside a command: nothing is remembered, and nothing can be seen  *)
(* of them in other slots.                                                 *)
LEMMA InsideStep ==
    ASSUME HistoryInv, Inv', Remember, cmd # NoCmd, cmd' # NoCmd,
           pc \notin {"idle", "boot"}, pc' \notin {"idle", "boot"},
           cmd'.slot = cmd.slot, cmd'.op = cmd.op, cmd'.file = cmd.file,
           \A s \in Slots \ {cmd.slot} :
              names'[s] = names[s] /\ fat'[s] = fat[s] /\ hdr'[s] = hdr[s],
           \A s \in Slots : /\ KnownHeader(hdr'[s], s)
                            /\ KnownEntry(fat'[s], s) /\ KnownEntry(fatF'[s], s),
           \A s \in Slots : \A n \in {names'[s], nameF'[s]}, f \in {fat'[s], fatF'[s]} :
              Seen(n, f, hdr'[s]) \in Possible(s),
           Seen(names'[cmd.slot], fat'[cmd.slot], hdr'[cmd.slot]) \in Left(cmd.slot)
    PROVE  PastInv' /\ ViewsInv' /\ CurrentInv' /\ BootInv' /\ Implements
<1>0. Inv /\ cmd.slot \in Slots
    BY AtWorkSlot DEF HistoryInv
<1>1. was' = was /\ past' = past /\ doubt' = doubt
    BY DEF Remember, Ends
<1>2. \A s \in Slots \ {cmd.slot} : View(s)' = View(s)
    BY <1>0, ViewIsCurrent, ViewIsCurrentNext DEF Current
<1>3. \A s \in Slots : Old(s)' = Old(s)
    BY <1>1, <1>2 DEF Old, AtWork
<1>4. \A s \in Slots : Left(s)' = Left(s) /\ Possible(s)' = Possible(s)
    <2>1. Renamed' = Renamed
        BY <1>1 DEF Renamed
    <2> QED BY <1>1, <1>3, <2>1 DEF Left, Possible, AtWork
<1>5. PastInv'
    BY <1>1 DEF HistoryInv, PastInv, KnownHeader, KnownEntry, Storing
<1>6. ViewsInv'
    BY <1>4 DEF ViewsInv
<1>7. CurrentInv'
    BY <1>0, <1>4 DEF CurrentInv
<1>8. Implements
    <2>1. InWork(cmd') = InWork(cmd) /\ Intended(cmd') = Intended(cmd)
        BY DEF InWork, Intended
    <2> QED BY <1>1, <1>2, <2>1, WorkSlot, DirQuiet DEF Implements
<1> QED BY <1>5, <1>6, <1>7, <1>8 DEF BootInv

(* A command fails, its tables in RAM as they are.                         *)
LEMMA FailStep ==
    ASSUME HistoryInv, Inv', Remember, cmd # NoCmd, Interrupted, Finish(Error), UNCHANGED shadow
    PROVE  PastInv' /\ ViewsInv' /\ CurrentInv' /\ BootInv' /\ Implements
<1>0. Inv /\ cmd.slot \in Slots /\ pc # "boot" /\ cmd' = NoCmd /\ pc' = "idle"
    BY AtWorkSlot DEF HistoryInv, Inv, TypeOK, Finish
<1>1. past' = past /\ doubt' = [s \in Slots |-> doubt[s] \cup Directory!Outcomes(s)]
    <2>1. Ends(Error) /\ ~ Ends(Ack)
        BY <1>0 DEF Ends, Finish, Ack, Error
    <2> QED BY <1>0, <2>1 DEF Remember
<1>2. \A s \in Slots : Possible(s) \subseteq Possible(s)'
    <2>1. \A s \in Slots : Possible(s) = doubt[s] \cup Left(s)
        BY DEF Possible
    <2>2. \A s \in Slots : doubt'[s] = doubt[s] \cup Left(s)
        BY <1>0, <1>1, OutcomesAreLeft
    <2> QED BY <2>1, <2>2 DEF Possible
<1>3. ViewsInv'
    BY <1>2, InterruptedViews DEF ViewsInv, shadow
<1>4. PastInv'
    <2>1. \A s \in Slots : KnownEntry(fat'[s], s)
        BY DEF shadow, HistoryInv, PastInv
    <2> QED BY <1>0, <1>1, <2>1, InterruptedKnown
            DEF HistoryInv, PastInv, KnownHeader, KnownEntry
<1>5. Implements
    <2>1. \A s \in Slots : View(s)' = Seen(names[s], fat[s], hdr'[s])
        BY <1>0, ViewIsCurrentNext DEF Current, shadow
    <2>2. \A s \in Slots : View(s) = Seen(names[s], fat[s], hdr[s])
        BY <1>0, ViewIsCurrent DEF Current
    <2>3. \A s \in Slots \ {cmd.slot} : View(s)' = View(s)
        BY <1>0, <2>1, <2>2, InterruptedCells
    <2>4. \A s \in Slots : s = cmd.slot => View(s)' \in Left(s)
        BY <1>0, <2>1, InterruptedCurrent
    <2> QED BY <1>0, <1>1, <2>3, <2>4, DirEnd DEF Implements
<1> QED BY <1>0, <1>3, <1>4, <1>5 DEF CurrentInv, BootInv

(* A command completes: by then RAM and flash agree.                       *)
LEMMA CompleteStep ==
    ASSUME HistoryInv, Inv', ShadowInv', Remember, cmd # NoCmd, Finish(Ack),
           \A s \in Slots \ {cmd.slot} :
              names'[s] = names[s] /\ fat'[s] = fat[s] /\ hdr'[s] = hdr[s],
           \A s \in Slots : /\ KnownHeader(hdr'[s], s)
                            /\ KnownEntry(fat'[s], s) /\ KnownEntry(fatF'[s], s),
           Seen(names'[cmd.slot], fat'[cmd.slot], hdr'[cmd.slot])
               = Directory!Held(Intended(cmd))
    PROVE  PastInv' /\ ViewsInv' /\ CurrentInv' /\ BootInv' /\ Implements
<1>0. Inv /\ cmd.slot \in Slots /\ pc # "boot" /\ cmd' = NoCmd /\ pc' = "idle"
    BY AtWorkSlot DEF HistoryInv, Inv, TypeOK, Finish
<1>1. past' = past /\ doubt' = Directory!Certain
    <2>1. Ends(Ack)
        BY <1>0 DEF Ends, Finish
    <2> QED BY <1>0, <2>1 DEF Remember
<1>2. \A s \in Slots : View(s)' = Seen(names'[s], fat'[s], hdr'[s])
    BY <1>0, ViewIsCurrentNext DEF Current
<1>3. ViewsInv'
    <2>1. names' = nameF' /\ fat' = fatF'
        <3>1. Settled'
            BY <1>1 DEF Settled, Directory!Certain
        <3> QED BY <1>0, <3>1 DEF ShadowInv, NamesMatch, FatMatches, FlushingNames
    <2>2. \A s \in Slots : View(s)' \in Possible(s)'
        BY <1>0 DEF Possible, Old, AtWork
    <2> QED BY <1>2, <2>1, <2>2 DEF ViewsInv
<1>4. PastInv'
    BY <1>0, <1>1 DEF HistoryInv, PastInv, KnownHeader, KnownEntry
<1>5. Implements
    <2>1. \A s \in Slots \ {cmd.slot} : View(s)' = View(s)
        BY <1>0, <1>2, ViewIsCurrent DEF Current
    <2> QED BY <1>0, <1>1, <1>2, <2>1, DirEnd DEF Implements
<1> QED BY <1>0, <1>3, <1>4, <1>5 DEF CurrentInv, BootInv
-----------------------------------------------------------------------------
(* The host's commands, the boot and resets.                               *)
LEMMA BeginStep ==
    ASSUME HistoryInv, Inv', Remember, pc = "idle", pc' \notin {"idle", "boot"},
           UNCHANGED <<flash, fat>>,
           \A s \in Slots \ {cmd'.slot} : names'[s] = names[s],
           \/ cmd'.op # "delete" /\ names'[cmd'.slot] = NameOf(cmd'.file)
           \/ cmd'.op = "delete" /\ names' = names
    PROVE  PastInv' /\ ViewsInv' /\ CurrentInv' /\ BootInv' /\ Implements
<1>0. /\ Inv /\ cmd = NoCmd /\ cmd' # NoCmd /\ cmd' \in Cmd /\ cmd'.slot \in Slots
      /\ cmd'.op = "delete" \/ (cmd'.op \in StoreOps /\ cmd'.file \in File)
    <2>1. cmd = NoCmd /\ cmd' \in Cmd
        BY DEF HistoryInv, Inv, TypeOK
    <2>2. CASE cmd' \in [op : {"write", "receive"}, slot : Slots, file : File,
                         failed : BOOLEAN]
        BY <2>1, <2>2, BlankAssumption DEF StoreOps, HistoryInv
    <2>3. CASE cmd' \in [op : {"delete"}, slot : Slots, file : {Blank}, failed : {FALSE}]
        BY <2>1, <2>3, BlankAssumption DEF HistoryInv
    <2> QED BY <2>1, <2>2, <2>3 DEF Cmd
<1>1. PICK w \in Slots : w = cmd'.slot
    BY <1>0
<1>2. /\ was' = View(w) /\ doubt' = doubt
      /\ past' = [past EXCEPT ![w] = @ \cup ({Intended(cmd')} \ {Blank})]
    <2>1. was' = View(cmd'.slot)
        BY <1>0 DEF Remember
    <2>2. doubt' = doubt
        BY <1>0 DEF Remember, Ends
    <2> QED BY <1>0, <1>1, <2>1, <2>2 DEF Remember
<1>3. Intended(cmd') \in FileView \cup {Blank}
    BY <1>0 DEF Intended, Stored, File, FileView
<1>4. /\ past' \in [Slots -> SUBSET FileView]
      /\ \A s \in Slots : past[s] \subseteq past'[s]
      /\ cmd'.op # "delete" => Stored(cmd'.file) \in past'[w]
    <2>1. past \in [Slots -> SUBSET FileView]
        BY DEF HistoryInv, PastInv
    <2>2. cmd'.op # "delete" => Intended(cmd') = Stored(cmd'.file) /\ Intended(cmd') # Blank
        <3>1. cmd'.op # "delete" => Stored(cmd'.file) \in FileView
            BY <1>0 DEF Stored, File, FileView
        <3> QED BY <1>0, <3>1, BlankAssumption DEF Intended
    <2> QED BY <1>1, <1>2, <1>3, <2>1, <2>2
<1>5. \A s \in Slots : /\ KnownHeader(hdr[s], s)' /\ KnownEntry(fat[s], s)'
                       /\ KnownEntry(fatF[s], s)'
    BY <1>4 DEF HistoryInv, PastInv, KnownHeader, KnownEntry, flash, slotCells
<1>6. PastInv'
    BY <1>0, <1>1, <1>4, <1>5 DEF PastInv, Storing, StoreOps
<1>v. \A s \in Slots \ {w} : View(s)' = View(s)
    BY <1>0, <1>1, ViewIsCurrent, ViewIsCurrentNext DEF Current, flash, slotCells
<1>o. \A s \in Slots : Old(s) = View(s) /\ Old(s)' = View(s)
    BY <1>0, <1>1, <1>2, <1>v DEF Old, AtWork
<1>7. \A s \in Slots : /\ Possible(s) \subseteq Possible(s)'
                       /\ Left(s)' \subseteq Possible(s)'
                       /\ Blank \in Left(s)' /\ View(s) \in Left(s)'
    BY <1>0, <1>2, <1>o DEF Possible, Left
<1>8. \A f, h : /\ cmd'.op # "delete" /\ KnownEntry(f, w)' /\ KnownHeader(h, w)'
                => Seen(NameOf(cmd'.file), f, h) \in Left(w)'
    <2> SUFFICES ASSUME NEW f, NEW h, cmd'.op # "delete", KnownEntry(f, w)',
                        KnownHeader(h, w)', Seen(NameOf(cmd'.file), f, h) # Blank
                 PROVE  Seen(NameOf(cmd'.file), f, h) \in Left(w)'
        BY <1>7
    <2>1. /\ Readable(f) /\ Readable(h)
          /\ Seen(NameOf(cmd'.file), f, h) =
                [name |-> cmd'.file.name, group |-> cmd'.file.group, content |-> h.nonce,
                 sealed |-> h.group, uuid |-> f.uuid]
        BY DEF Seen, NameOf
    <2>2. PICK g \in past'[w] : g.content = h.nonce /\ g.sealed = h.group
        BY <2>1 DEF KnownHeader
    <2>3. PICK u \in past'[w] : u.uuid = f.uuid
        BY <2>1 DEF KnownEntry
    <2>4. Seen(NameOf(cmd'.file), f, h) =
             [name |-> cmd'.file.name, group |-> cmd'.file.group, uuid |-> u.uuid,
              content |-> g.content, sealed |-> g.sealed]
        BY <2>1, <2>2, <2>3
    <2>5. Seen(NameOf(cmd'.file), f, h) \in Renamed'
        BY <1>0, <1>1, <2>2, <2>3, <2>4 DEF Renamed
    <2> QED BY <1>0, <1>1, <2>5 DEF Left, AtWork
<1>9. ViewsInv'
    <2> SUFFICES ASSUME NEW s \in Slots, NEW n \in {names'[s], nameF'[s]},
                        NEW f \in {fat'[s], fatF'[s]}
                 PROVE  Seen(n, f, hdr'[s]) \in Possible(s)'
        BY DEF ViewsInv
    <2>1. CASE n \in {names[s], nameF[s]}
        BY <1>7, <2>1 DEF HistoryInv, ViewsInv, flash, slotCells
    <2>2. CASE n \notin {names[s], nameF[s]}
        <3>1. s = w /\ cmd'.op # "delete" /\ n = NameOf(cmd'.file)
            BY <1>1, <2>2 DEF flash
        <3> QED BY <1>5, <1>7, <1>8, <3>1
    <2> QED BY <2>1, <2>2
<1>10. CurrentInv'
    <2>1. CASE cmd'.op # "delete"
        BY <1>1, <1>5, <1>8, <2>1 DEF CurrentInv
    <2>2. CASE cmd'.op = "delete"
        <3>1. View(w) = Seen(names'[w], fat'[w], hdr'[w])
            BY <1>0, <2>2, ViewIsCurrent DEF Current, flash, slotCells
        <3> QED BY <1>1, <1>7, <3>1 DEF CurrentInv
    <2> QED BY <2>1, <2>2
<1>11. Implements
    BY <1>0, <1>1, <1>2, <1>3, <1>v, DirBegin DEF Implements
<1> QED BY <1>6, <1>9, <1>10, <1>11 DEF BootInv

(* Nothing but the reply changes.                                          *)
LEMMA QuietStep ==
    ASSUME HistoryInv, Inv', Remember, UNCHANGED <<flash, shadow, pc, cmd>>, cmd = NoCmd,
           pc # "boot"
    PROVE  PastInv' /\ ViewsInv' /\ CurrentInv' /\ BootInv' /\ Implements
<1>1. past' = past /\ doubt' = doubt
    <2>1. pc' # "boot" /\ cmd' = NoCmd
        OBVIOUS
    <2> QED BY <2>1 DEF Remember, Ends
<1>2. \A s \in Slots : View(s)' = View(s)
    BY ViewIsCurrent, ViewIsCurrentNext DEF HistoryInv, Current, flash, shadow, slotCells
<1>3. \A s \in Slots : Possible(s)' = Possible(s)
    BY <1>1, <1>2 DEF Possible, Old, AtWork
<1>4. Implements
    BY <1>1, <1>2, DirQuiet DEF Implements
<1> QED BY <1>1, <1>3, <1>4 DEF HistoryInv, PastInv, ViewsInv, CurrentInv, BootInv,
           KnownHeader, KnownEntry, flash, shadow, slotCells, Storing

LEMMA BootStep ==
    ASSUME HistoryInv, Inv', Remember, Boot
    PROVE  PastInv' /\ ViewsInv' /\ CurrentInv' /\ BootInv' /\ Implements
<1>0. /\ cmd = NoCmd /\ cmd' = NoCmd /\ pc = "boot" /\ pc' = "idle"
      /\ names' = nameF /\ fat' = fatF /\ UNCHANGED <<nameF, fatF, hdr>>
    BY DEF Boot, HistoryInv, Inv, TypeOK, flash, slotCells
<1>1. past' = past /\ doubt' = doubt
    BY <1>0 DEF Remember, Ends
<1>2. \A s \in Slots : /\ View(s)' = View(s)
                       /\ View(s)' = Seen(nameF[s], fatF[s], hdr[s])
    BY <1>0, ViewIsCurrent, ViewIsCurrentNext DEF HistoryInv, Current
<1>3. ViewsInv'
    BY <1>0, <1>2 DEF ViewsInv, Possible, Old, AtWork
<1>4. Implements
    BY <1>0, <1>1, <1>2, DirQuiet DEF Implements
<1> QED BY <1>0, <1>1, <1>3, <1>4 DEF HistoryInv, PastInv, CurrentInv, BootInv,
           KnownHeader, KnownEntry

LEMMA ResetStep ==
    ASSUME HistoryInv, Inv', Remember, Reset
    PROVE  PastInv' /\ ViewsInv' /\ CurrentInv' /\ BootInv' /\ Implements
<1>0. /\ Inv /\ pc # "boot" /\ pc' = "boot" /\ cmd' = NoCmd /\ Interrupted
      /\ fat' = BlankPage
    BY DEF Reset, HistoryInv
<1>1. past' = past /\ doubt' = Directory!Certain
    BY <1>0 DEF Remember
<1>2. ASSUME NEW s \in Slots
      PROVE  /\ Seen(nameF'[s], fatF'[s], hdr'[s]) \in Possible(s)
             /\ KnownHeader(hdr'[s], s) /\ KnownEntry(fatF'[s], s)
    <2>1. CASE cmd # NoCmd
        BY <1>0, <2>1, InterruptedViews, InterruptedKnown
    <2>2. CASE cmd = NoCmd
        <3>1. UNCHANGED <<nameF, fatF, hdr>>
            BY <1>0, <2>2 DEF Interrupted, Inv, TypeOK, flash, slotCells
        <3> QED BY <1>0, <3>1 DEF HistoryInv, ViewsInv, PastInv
    <2> QED BY <2>1, <2>2
<1>3. PastInv'
    <2>1. \A s \in Slots : KnownEntry(fat'[s], s)
        BY <1>0 DEF KnownEntry, BlankPage, Readable
    <2> QED BY <1>0, <1>1, <1>2, <2>1 DEF HistoryInv, PastInv, KnownHeader, KnownEntry
<1>4. Implements
    <2>1. \A s \in Slots : View(s)' = Seen(nameF'[s], fatF'[s], hdr'[s])
        BY <1>0, ViewIsCurrentNext DEF Current
    <2> QED BY <1>0, <1>1, <1>2, <2>1, DirCrash DEF Implements
<1>5. Settled'
    BY <1>1 DEF Settled, Directory!Certain
<1> QED BY <1>0, <1>3, <1>4, <1>5 DEF ViewsInv, CurrentInv, BootInv

-----------------------------------------------------------------------------
(* The flash operations of a command.                                      *)
LEMMA CommandStep ==
    ASSUME HistoryInv, Inv', ShadowInv', Remember, FlashStep \/ FlashFailure
    PROVE  PastInv' /\ ViewsInv' /\ CurrentInv' /\ BootInv' /\ Implements
<1>0. /\ Inv /\ pc \notin {"idle", "boot"} /\ cmd # NoCmd /\ cmd \in Cmd
      /\ cmd.slot \in Slots
    <2>1. pc \notin {"idle", "boot"}
        BY DEF FlashStep, FlashFailure, EraseNames, ProgramNames, EraseSlot, ProgramChunk,
               ProgramTag, ProgramHeader, EraseFat, ProgramFat, NamesFail, BlobWriteFails,
               BlobDeleteFails
    <2> QED BY <2>1, AtWorkSlot DEF HistoryInv, Inv, TypeOK
<1>t. /\ names \in [Slots -> NameEntry \cup {Blank, Torn}]
      /\ fat \in [Slots -> FatEntry \cup {Blank, Torn}]
    BY <1>0 DEF Inv, TypeOK
<1>1. Interrupted
    BY FlashStepWhole DEF FlashFailure, NamesFail, BlobWriteFails, BlobDeleteFails
<1>2. \A s \in Slots : KnownHeader(hdr'[s], s) /\ KnownEntry(fatF'[s], s)
    BY <1>0, <1>1, InterruptedKnown
<1>3. \A s \in Slots \ {cmd.slot} : hdr'[s] = hdr[s]
    BY <1>0, <1>1, InterruptedCells
<1>4. ASSUME UNCHANGED <<shadow, cmd>>, pc' \notin {"idle", "boot"}
      PROVE  PastInv' /\ ViewsInv' /\ CurrentInv' /\ BootInv' /\ Implements
    <2>1. \A s \in Slots : KnownEntry(fat'[s], s)
        BY <1>4 DEF shadow, HistoryInv, PastInv
    <2>2. \A s \in Slots : \A n \in {names'[s], nameF'[s]}, f \in {fat'[s], fatF'[s]} :
             Seen(n, f, hdr'[s]) \in Possible(s)
        BY <1>0, <1>1, <1>4, InterruptedViews DEF shadow
    <2>3. Seen(names'[cmd.slot], fat'[cmd.slot], hdr'[cmd.slot]) \in Left(cmd.slot)
        BY <1>0, <1>1, <1>4, InterruptedCurrent DEF shadow
    <2> QED BY <1>0, <1>2, <1>3, <1>4, <2>1, <2>2, <2>3, InsideStep DEF shadow
<1>5. CASE EraseNames \/ EraseSlot \/ ProgramChunk \/ ProgramTag \/ ProgramHeader \/ EraseFat
    <2>1. pc' \notin {"idle", "boot"} /\ UNCHANGED <<shadow, cmd>>
        BY <1>5 DEF EraseNames, EraseSlot, AfterErase, ProgramChunk, ProgramTag,
                    ProgramHeader, EraseFat, Goto
    <2> QED BY <1>4, <2>1
<1>6. CASE ProgramNames
    <2>1. CASE cmd.op = "delete"
        <3>1. Finish(Ack) /\ UNCHANGED <<names, fat, fatF, hdr>>
            BY <1>6, <2>1 DEF ProgramNames, shadow, slotCells
        <3>2. names[cmd.slot] = Blank
            BY <1>0, <1>6, <2>1, AtWorkSlot
               DEF ProgramNames, HistoryInv, CommandInv, DeleteProgress, FlushingNames
        <3>3. Directory!Held(Intended(cmd)) = Blank
            BY <1>0, <2>1 DEF Intended, Directory!Held
        <3>4. Seen(names'[cmd.slot], fat'[cmd.slot], hdr'[cmd.slot]) = Blank
            BY <3>1, <3>2, SeenNothing DEF Readable
        <3>5. \A s \in Slots : KnownEntry(fat'[s], s)
            BY <3>1 DEF HistoryInv, PastInv
        <3> QED BY <1>0, <1>2, <3>1, <3>3, <3>4, <3>5, CompleteStep
    <2>2. CASE cmd.op # "delete" /\ cmd.failed
        BY <1>0, <1>1, <1>6, <2>2, FailStep DEF ProgramNames
    <2>3. CASE cmd.op # "delete" /\ ~ cmd.failed
        BY <1>4, <1>6, <2>3 DEF ProgramNames, Goto
    <2> QED BY <2>1, <2>2, <2>3
<1>7. CASE ProgramFat
    <2>1. /\ NewFat \in [Slots -> FatEntry \cup {Blank, Torn}]
          /\ NewFat[cmd.slot] = NewFatEntry
          /\ \A s \in Slots \ {cmd.slot} : NewFat[s] = fat[s]
        BY <1>0, <1>t, CommandTypes DEF Inv, NewFat
    <2>2. fat' = NewFat /\ fatF' = NewFat /\ UNCHANGED <<nameF, hdr>> /\ pc = "programFat"
        BY <1>0, <1>7, <2>1, ProgramErasedPage DEF ProgramFat, Inv, PagesErased, slotCells
    <2>3. CASE cmd.op = "delete"
        <3>1. /\ names' = [names EXCEPT ![cmd.slot] = Blank]
              /\ pc' = "eraseNames" /\ cmd' = cmd /\ NewFatEntry = Blank
            BY <1>7, <2>3 DEF ProgramFat, Goto, NewFatEntry
        <3>2. \A s \in Slots : \A n \in {names'[s], nameF'[s]}, f \in {fat'[s], fatF'[s]} :
                 Seen(n, f, hdr'[s]) \in Possible(s)
            <4> SUFFICES ASSUME NEW s \in Slots, NEW n \in {names'[s], nameF'[s]},
                                NEW f \in {fat'[s], fatF'[s]}
                         PROVE  Seen(n, f, hdr'[s]) \in Possible(s)
                OBVIOUS
            <4>1. CASE s = cmd.slot
                BY <1>0, <2>1, <2>2, <3>1, <4>1, SeenNothing DEF Readable, Possible, Left
            <4>2. CASE s # cmd.slot
                BY <1>0, <1>t, <2>1, <2>2, <3>1, <4>2 DEF HistoryInv, ViewsInv
            <4> QED BY <4>1, <4>2
        <3>3. Seen(names'[cmd.slot], fat'[cmd.slot], hdr'[cmd.slot]) \in Left(cmd.slot)
            BY <1>0, <2>1, <2>2, <3>1, SeenNothing DEF Readable, Left
        <3> QED BY <1>0, <1>2, <1>3, <1>t, <2>1, <2>2, <3>1, <3>2, <3>3, InsideStep
    <2>4. CASE cmd.op # "delete"
        <3>1. Finish(Ack) /\ UNCHANGED names
            BY <1>7, <2>4 DEF ProgramFat
        <3>2. Storing
            BY <1>0, <2>4, AtWorkSlot
        <3>3. /\ names[cmd.slot] = NameOf(cmd.file) /\ hdr[cmd.slot] = HeaderOf(cmd.file)
              /\ NewFatEntry = [uuid |-> cmd.file.id, chunks |-> cmd.file.chunks]
            BY <1>0, <2>2, <2>4, <3>2
               DEF HistoryInv, CommandInv, StoreProgress, FlushingNames, Committing,
                   NewFatEntry
        <3>4. Seen(names[cmd.slot], NewFatEntry, hdr[cmd.slot])
                 = Directory!Held(Intended(cmd))
            <4>1. /\ cmd.file \in File /\ HeaderOf(cmd.file) \in Header
                  /\ Stored(cmd.file) \in FileView
                BY <1>0, <3>2, CommandTypes DEF Inv, Storing, File, Stored, FileView
            <4>2. NameOf(cmd.file) \in NameEntry /\ NewFatEntry \in FatEntry
                BY <3>3, <4>1 DEF File, NameOf, NameEntry, FatEntry
            <4>3. /\ Readable(names[cmd.slot]) /\ Readable(NewFatEntry)
                  /\ Readable(hdr[cmd.slot]) /\ Stored(cmd.file) # Blank
                BY <3>3, <4>1, <4>2, BlankAssumption DEF Readable
            <4>4. Intended(cmd) = Stored(cmd.file)
                BY <1>0, <2>4 DEF Intended
            <4> QED BY <3>3, <4>3, <4>4
                    DEF Seen, Directory!Held, Stored, NameOf, HeaderOf
        <3> QED BY <1>0, <1>2, <2>1, <2>2, <3>1, <3>4, CompleteStep
    <2> QED BY <2>3, <2>4
<1>8. CASE NamesFail \/ BlobDeleteFails
    BY <1>0, <1>1, <1>8, FailStep DEF NamesFail, BlobDeleteFails
<1>9. CASE BlobWriteFails
    <2>1. /\ names' = [names EXCEPT ![cmd.slot] = Blank] /\ fat' = fat
          /\ pc' = "eraseNames" /\ cmd' = [cmd EXCEPT !.failed = TRUE] /\ Storing
        BY <1>9 DEF BlobWriteFails, Goto
    <2>2. /\ cmd' # NoCmd /\ cmd'.slot = cmd.slot /\ cmd'.op = cmd.op
          /\ cmd'.file = cmd.file
        <3>1. /\ cmd' \in Cmd /\ cmd'.slot = cmd.slot /\ cmd'.op = cmd.op
              /\ cmd'.file = cmd.file
            BY <1>0, <2>1 DEF Cmd, Storing, StoreOps
        <3> QED BY <3>1, BlankAssumption
    <2>3. \A s \in Slots : \A n \in {names'[s], nameF'[s]}, f \in {fat'[s], fatF'[s]} :
             Seen(n, f, hdr'[s]) \in Possible(s)
        <3> SUFFICES ASSUME NEW s \in Slots, NEW n \in {names'[s], nameF'[s]},
                            NEW f \in {fat'[s], fatF'[s]}
                     PROVE  Seen(n, f, hdr'[s]) \in Possible(s)
            OBVIOUS
        <3>1. CASE n = Blank
            BY <1>0, <3>1, SeenNothing DEF Readable, Possible, Left
        <3>2. CASE n # Blank
            <4>1. n \in {names[s], nameF'[s]}
                BY <1>0, <1>t, <2>1, <3>2
            <4> QED BY <1>0, <1>1, <2>1, <4>1, InterruptedViews
        <3> QED BY <3>1, <3>2
    <2>4. Seen(names'[cmd.slot], fat'[cmd.slot], hdr'[cmd.slot]) \in Left(cmd.slot)
        BY <1>0, <1>t, <2>1, SeenNothing DEF Readable, Left
    <2>5. \A s \in Slots : KnownEntry(fat'[s], s)
        BY <2>1 DEF HistoryInv, PastInv
    <2> QED BY <1>0, <1>2, <1>3, <1>t, <2>1, <2>2, <2>3, <2>4, <2>5, InsideStep
<1> QED BY <1>5, <1>6, <1>7, <1>8, <1>9 DEF FlashStep, FlashFailure

-----------------------------------------------------------------------------
LEMMA HistoryInitInv == HistoryInit => HistoryInv /\ Directory!Init
<1> SUFFICES ASSUME HistoryInit PROVE HistoryInv /\ Directory!Init
    OBVIOUS
<1>1. Inv /\ cmd = NoCmd /\ NoCmd \notin Cmd /\ pc = "boot"
    BY InitInv, BlankAssumption DEF HistoryInit, Init
<1>2. ShadowInv /\ BootInv
    BY <1>1 DEF HistoryInit, Init, ShadowInv, NamesMatch, FatMatches, NamesFlushed,
                FatCommitted, BootInv, Settled
<1>3. CommandInv /\ ViewsInv /\ CurrentInv
    BY <1>1 DEF CommandInv, StoreProgress, DeleteProgress, ViewsInv, CurrentInv
<1>4. PastInv
    <2>1. past \in [Slots -> SUBSET FileView]
        BY DEF HistoryInit, Directory!Certain
    <2> QED BY <1>1, <2>1
            DEF HistoryInit, Init, PastInv, KnownHeader, KnownEntry, Readable, BlankPage
<1>5. Directory!Init
    <2>1. \A s \in Slots : View(s) = Blank
        BY <1>1, ViewIsCurrent
           DEF HistoryInit, Init, Current, Seen, Readable, BlankPage
    <2> QED BY <1>1, <2>1, WorkSlot
            DEF Directory!Init, Directory!Certain, HistoryInit, Intended
<1> QED BY <1>1, <1>2, <1>3, <1>4, <1>5 DEF HistoryInv

LEMMA HistoryStep ==
    HistoryInv /\ [HistoryNext]_historyVars
        => HistoryInv' /\ [Directory!Next]_Directory!dirVars
<1> SUFFICES ASSUME HistoryInv, [HistoryNext]_historyVars
             PROVE  HistoryInv' /\ Implements
    BY DEF Implements
<1>1. Inv' /\ CommandInv' /\ ShadowInv'
    BY NextInv, NextCommandInv, NextShadowInv DEF HistoryInv, HistoryNext, historyVars
<1>a. NoCmd \notin Cmd
    BY BlankAssumption
<1> SUFFICES PastInv' /\ ViewsInv' /\ CurrentInv' /\ BootInv' /\ Implements
    BY <1>1 DEF HistoryInv
<1>2. CASE UNCHANGED historyVars
    <2>1. UNCHANGED <<nameF, fatF, hdr, ct, tag, names, fat, pc, cmd, was, past, doubt>>
        BY <1>2 DEF historyVars, vars, flash, shadow, slotCells
    <2>2. \A s \in Slots : View(s)' = View(s)
        BY <1>1, <2>1, ViewIsCurrent, ViewIsCurrentNext DEF HistoryInv, Current
    <2>3. \A s \in Slots : Left(s)' = Left(s) /\ Possible(s)' = Possible(s)
        BY <2>1, <2>2 DEF Left, Possible, Renamed, Old, AtWork
    <2>4. Implements
        BY <2>1, <2>2, DirQuiet DEF Implements
    <2>5. PastInv' /\ BootInv'
        BY <2>1 DEF HistoryInv, PastInv, BootInv, KnownHeader, KnownEntry, Settled, Storing,
                    Directory!Certain
    <2>6. ViewsInv'
        BY <2>1, <2>3 DEF HistoryInv, ViewsInv
    <2>7. CurrentInv'
        <3>1. cmd # NoCmd => cmd.slot \in Slots
            BY AtWorkSlot DEF HistoryInv
        <3> QED BY <2>1, <2>3, <3>1 DEF HistoryInv, CurrentInv
    <2> QED BY <2>4, <2>5, <2>6, <2>7
<1>3. CASE HistoryNext
    <2>1. Next /\ Remember
        BY <1>3 DEF HistoryNext
    <2>2. ASSUME NEW op \in StoreOps, NEW s \in Slots, NEW n \in Names, NEW g \in Groups,
                 NEW len \in Lengths, BeginStore(op, s, n, g, len)
          PROVE  PastInv' /\ ViewsInv' /\ CurrentInv' /\ BootInv' /\ Implements
        <3>1. /\ cmd'.op = op /\ cmd'.slot = s /\ cmd'.op # "delete"
              /\ cmd'.file.name = n /\ cmd'.file.group = g
              /\ names' = [names EXCEPT ![s] = [name |-> n, group |-> g]]
            BY <2>2 DEF BeginStore, StoreOps
        <3>2. /\ names'[s] = NameOf(cmd'.file)
              /\ \A r \in Slots \ {s} : names'[r] = names[r]
            BY <3>1 DEF NameOf, HistoryInv, Inv, TypeOK
        <3> QED BY <1>1, <2>1, <2>2, <3>1, <3>2, BeginStep DEF BeginStore, Goto
    <2>3. ASSUME NEW s \in Slots, BeginDelete(s)
          PROVE  PastInv' /\ ViewsInv' /\ CurrentInv' /\ BootInv' /\ Implements
        BY <1>1, <2>1, <2>3, BeginStep DEF BeginDelete, Goto, shadow
    <2>4. ASSUME pc = "idle", UNCHANGED <<flash, shadow, pc, cmd, idx, writes, resets>>
          PROVE  PastInv' /\ ViewsInv' /\ CurrentInv' /\ BootInv' /\ Implements
        <3>1. cmd = NoCmd
            BY <2>4 DEF HistoryInv, Inv, TypeOK
        <3> QED BY <1>1, <2>1, <2>4, <3>1, QuietStep
    <2>5. CASE HostCommand
        BY <2>2, <2>3, <2>4, <2>5
           DEF HostCommand, RefuseStore, RefuseDelete, Read, ListFiles
    <2> QED BY <1>1, <2>1, <2>5, CommandStep, ResetStep, BootStep DEF Next
<1> QED BY <1>2, <1>3

(* The file store is a directory of slots: a command, its failure or a     *)
(* reset inside it changes its own slot to one of the listed outcomes and  *)
(* another slot's file to nothing at worst, and what a reset may still     *)
(* reveal afterwards is only what a failed command has put in doubt.       *)
THEOREM StoreImplementsDirectory == HistorySpec => ImplementsDirectory
BY HistoryInitInv, HistoryStep, PTL DEF HistorySpec, ImplementsDirectory, Directory!Spec
=============================================================================
