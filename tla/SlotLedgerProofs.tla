-------------------------- MODULE SlotLedgerProofs --------------------------
(***************************************************************************)
(* What was acknowledged is what is there, and READ gives away nothing it  *)
(* may not, for every number of slots, commands and resets.                *)
(***************************************************************************)
EXTENDS SlotLedger, SlotStoreProofs

Entries == [last : FileView \cup {Blank}, sure : BOOLEAN]

(* The host is sure of no slot that a command is changing.                 *)
LedgerTypes ==
    /\ ledger \in [Slots -> Entries]
    /\ cmd \in Cmd => ~ ledger[cmd.slot].sure
    /\ \A s \in Slots : ledger[s].last # Blank => ledger[s].last.sealed = ledger[s].last.group

(* A slot that the host is sure is empty has no entry in any table, and    *)
(* so gets none when a page is rewritten or rewritten in part.             *)
EmptyKept ==
    \A s \in Slots : ledger[s].sure /\ ledger[s].last = Blank =>
        names[s] = Blank /\ nameF[s] = Blank /\ fat[s] = Blank /\ fatF[s] = Blank

(* Through the tables a device looks at, or will when it has booted.       *)
NameCell(s) == IF pc = "boot" THEN nameF[s] ELSE names[s]
FatCell(s) == IF pc = "boot" THEN fatF[s] ELSE fat[s]

Leads(s, f) ==
    /\ NameCell(s) = [name |-> f.name, group |-> f.group]
    /\ FatCell(s) = [uuid |-> f.uuid, chunks |-> hdr[s].chunks]
    /\ hdr[s] \in Header
    /\ hdr[s].nonce = f.content
    /\ hdr[s].group = f.sealed

StoredKept ==
    \A s \in Slots : ledger[s].sure /\ ledger[s].last # Blank => Leads(s, ledger[s].last)

FilesOnlyWhenIdle == reply.kind = "file" => pc = "idle"

LedgerInv ==
    /\ LedgerTypes
    /\ EmptyKept
    /\ StoredKept
    /\ FilesOnlyWhenIdle
    /\ ReadPermitted

All == Inv /\ CommandInv /\ LedgerInv

-----------------------------------------------------------------------------
(* What is observed of a step that neither starts nor ends anything.       *)
LEMMA ObserveOther ==
    ASSUME Observe, ~ Starts, ~ Acknowledged, ~ IsReset
    PROVE  ledger' = ledger
BY DEF Observe

LEMMA LedgerUnchanged ==
    ASSUME LedgerInv, ledger' = ledger,
           UNCHANGED <<names, nameF, fat, fatF, hdr, cmd, pc, reply>>
    PROVE  LedgerInv'
BY DEF LedgerInv, LedgerTypes, EmptyKept, StoredKept, Leads, NameCell, FatCell,
       FilesOnlyWhenIdle, ReadPermitted

(* Steps inside a command: the tables as the device sees them stay, as do  *)
(* the headers of other slots.                                             *)
LEMMA InsideCommand ==
    ASSUME All, ledger' = ledger, pc \notin {"idle", "boot"}, pc' # "boot",
           cmd' = NoCmd \/ (cmd' \in Cmd /\ cmd'.slot = cmd.slot),
           reply'.kind # "file",
           \A s \in Slots \ {cmd.slot} :
              /\ names'[s] = names[s] /\ fat'[s] = fat[s] /\ hdr'[s] = hdr[s]
              /\ nameF'[s] \in {nameF[s], Blank, names[s]}
              /\ fatF'[s] \in {fatF[s], Blank, fat[s]}
    PROVE  LedgerInv'
<1>1. cmd \in Cmd /\ cmd.slot \in Slots /\ ~ ledger[cmd.slot].sure
    BY CommandTypes DEF All, Inv, TypeOK, LedgerInv, LedgerTypes
<1>a. NoCmd \notin Cmd
    BY BlankAssumption
<1>2. LedgerTypes'
    BY <1>1, <1>a DEF All, LedgerInv, LedgerTypes
<1>3. EmptyKept'
    BY <1>1 DEF All, LedgerInv, EmptyKept
<1>4. StoredKept'
    <2> SUFFICES ASSUME NEW s \in Slots, ledger[s].sure, ledger[s].last # Blank
                 PROVE  Leads(s, ledger[s].last)'
        BY DEF StoredKept
    <2>1. s # cmd.slot /\ Leads(s, ledger[s].last)
        BY <1>1 DEF All, LedgerInv, StoredKept
    <2> QED BY <2>1 DEF Leads, NameCell, FatCell
<1> QED BY <1>2, <1>3, <1>4 DEF LedgerInv, FilesOnlyWhenIdle, ReadPermitted

-----------------------------------------------------------------------------
LEMMA StartStep ==
    ASSUME All, Observe, pc = "idle", pc' \notin {"idle", "boot"},
           cmd' \in Cmd, cmd'.slot \in Slots, reply' = NoReply, UNCHANGED <<flash, fat>>,
           \A s \in Slots \ {cmd'.slot} : names'[s] = names[s]
    PROVE  LedgerInv'
<1>1. ledger' = [ledger EXCEPT ![cmd'.slot].sure = FALSE]
    BY DEF Observe, Starts
<1>2. /\ ledger' \in [Slots -> Entries]
      /\ \A s \in Slots : ledger'[s].last = ledger[s].last
      /\ ~ ledger'[cmd'.slot].sure
      /\ \A s \in Slots \ {cmd'.slot} : ledger'[s] = ledger[s]
    BY <1>1, ZenonT(60) DEF All, LedgerInv, LedgerTypes, Entries
<1>3. LedgerTypes'
    BY <1>2 DEF All, LedgerInv, LedgerTypes
<1>4. EmptyKept'
    BY <1>2 DEF All, LedgerInv, EmptyKept, flash
<1>5. StoredKept'
    BY <1>2, SMTT(60) DEF All, LedgerInv, StoredKept, Leads, NameCell, FatCell, flash, slotCells
<1> QED BY <1>3, <1>4, <1>5 DEF LedgerInv, FilesOnlyWhenIdle, ReadPermitted, NoReply

(* READ: a slot the host is sure of holds what was sealed for the group    *)
(* whose permission is checked.                                            *)
LEMMA ReadStep ==
    ASSUME All, Observe, NEW s \in SlotArgs, NEW owner \in Owners, Read(s, owner)
    PROVE  LedgerInv'
<1>1. UNCHANGED <<names, nameF, fat, fatF, hdr, cmd, pc>> /\ pc = "idle"
    BY DEF Read, flash, shadow, slotCells
<1>2. ledger' = ledger
    BY <1>1, ObserveOther DEF Starts, Acknowledged, IsReset
<1>3. ReadPermitted'
    <2> SUFFICES ASSUME reply'.kind = "file", \A r \in Slots : ledger[r].sure
                 PROVE  reply'.body.sealed \in CanRead
        BY <1>2 DEF ReadPermitted
    <2>1. /\ slot_occupied(s) /\ names[s].group \in CanRead
          /\ reply' = [kind |-> "file", body |-> FileAt(s)]
        BY DEF Read, Error
    <2>2. s \in Slots /\ names[s] # Blank
        BY <2>1 DEF slot_occupied
    <2>3. ledger[s].sure /\ ledger[s].last # Blank
        BY <2>2 DEF All, LedgerInv, EmptyKept
    <2>4. Leads(s, ledger[s].last) /\ ledger[s].last.sealed = ledger[s].last.group
        BY <2>2, <2>3 DEF All, LedgerInv, LedgerTypes, StoredKept
    <2>5. hdr[s].group = names[s].group
        BY <1>1, <2>4 DEF Leads, NameCell
    <2> QED BY <2>1, <2>5 DEF FileAt
<1> QED BY <1>1, <1>2, <1>3
        DEF All, LedgerInv, LedgerTypes, EmptyKept, StoredKept, Leads, NameCell, FatCell,
            FilesOnlyWhenIdle

LEMMA HostStep == ASSUME All, Observe, HostCommand PROVE LedgerInv'
<1>a. NoCmd \notin Cmd
    BY BlankAssumption
<1>1. ASSUME NEW op \in StoreOps, NEW s \in Slots, NEW n \in Names, NEW g \in Groups,
             NEW len \in Lengths, BeginStore(op, s, n, g, len)
      PROVE  LedgerInv'
    <2>1. cmd' \in Cmd /\ cmd'.slot = s
        BY <1>1, BoundsAssumption DEF BeginStore, All, Inv, TypeOK, Cmd, File, StoreOps, Writes
    <2>2. \A r \in Slots \ {s} : names'[r] = names[r]
        BY <1>1 DEF BeginStore, All, Inv, TypeOK
    <2> QED BY <1>1, <2>1, <2>2, StartStep DEF BeginStore, Goto
<1>2. ASSUME NEW s \in Slots, BeginDelete(s)
      PROVE  LedgerInv'
    <2>1. cmd' \in Cmd /\ cmd'.slot = s
        BY <1>2 DEF BeginDelete, Cmd
    <2> QED BY <1>2, <2>1, StartStep DEF BeginDelete, Goto, shadow
<1>3. ASSUME pc = "idle", reply'.kind # "file",
             UNCHANGED <<flash, shadow, pc, cmd, idx, writes, resets>>
      PROVE  LedgerInv'
    <2>1. ledger' = ledger
        BY <1>3, ObserveOther DEF Starts, Acknowledged, IsReset
    <2> QED BY <1>3, <2>1
            DEF All, LedgerInv, LedgerTypes, EmptyKept, StoredKept, Leads, NameCell, FatCell,
                FilesOnlyWhenIdle, ReadPermitted, flash, shadow, slotCells
<1> QED BY <1>1, <1>2, <1>3, ReadStep
        DEF HostCommand, RefuseStore, RefuseDelete, ListFiles, Error

-----------------------------------------------------------------------------
(* Acknowledged: the slot holds the file, or no entry anywhere.            *)
LEMMA AckStep ==
    ASSUME All, Observe, Finish(Ack), pc \notin {"idle", "boot"},
           \A s \in Slots \ {cmd.slot} :
              /\ names'[s] = names[s] /\ fat'[s] = fat[s] /\ hdr'[s] = hdr[s]
              /\ nameF'[s] \in {nameF[s], Blank, names[s]}
              /\ fatF'[s] \in {fatF[s], Blank, fat[s]},
           IF Storing
           THEN /\ names'[cmd.slot] = NameOf(cmd.file)
                /\ fat'[cmd.slot] = [uuid |-> cmd.file.id, chunks |-> cmd.file.chunks]
                /\ hdr'[cmd.slot] = HeaderOf(cmd.file)
           ELSE /\ names'[cmd.slot] = Blank /\ nameF'[cmd.slot] = Blank
                /\ fat'[cmd.slot] = Blank /\ fatF'[cmd.slot] = Blank
    PROVE  LedgerInv'
<1> DEFINE e == [last |-> IF Storing THEN Stored(cmd.file) ELSE Blank, sure |-> TRUE]
<1>1. cmd \in Cmd /\ cmd.slot \in Slots /\ ~ ledger[cmd.slot].sure
    BY CommandTypes DEF All, Inv, TypeOK, LedgerInv, LedgerTypes
<1>2. cmd' = NoCmd /\ cmd' \notin Cmd /\ pc' = "idle" /\ reply' = Ack
    BY BlankAssumption DEF Finish
<1>3. ledger' = [ledger EXCEPT ![cmd.slot] = e]
    BY <1>2 DEF Observe, Starts, Acknowledged
<1>4. Storing => /\ Stored(cmd.file) \in FileView
                 /\ Stored(cmd.file) # Blank
                 /\ HeaderOf(cmd.file) \in Header
    <2>1. Storing => cmd.file \in File /\ HeaderOf(cmd.file) \in Header
        BY <1>1, CommandTypes DEF All, Inv, Storing
    <2>2. Storing => Stored(cmd.file) \in FileView
        BY <2>1 DEF Stored, File, FileView
    <2> QED BY <2>1, <2>2, BlankAssumption
<1>5. e \in Entries /\ (e.last # Blank => e.last.sealed = e.last.group)
    BY <1>4 DEF Entries, Stored
<1> HIDE DEF e
<1>6. /\ ledger' \in [Slots -> Entries]
      /\ ledger'[cmd.slot] = e
      /\ \A s \in Slots \ {cmd.slot} : ledger'[s] = ledger[s]
    BY <1>1, <1>3, <1>5 DEF All, LedgerInv, LedgerTypes
<1>7. LedgerTypes'
    BY <1>2, <1>5, <1>6 DEF All, LedgerInv, LedgerTypes
<1>8. EmptyKept'
    <2> SUFFICES ASSUME NEW s \in Slots, ledger'[s].sure, ledger'[s].last = Blank
                 PROVE  /\ names'[s] = Blank /\ nameF'[s] = Blank
                        /\ fat'[s] = Blank /\ fatF'[s] = Blank
        BY DEF EmptyKept
    <2>1. CASE s = cmd.slot
        BY <1>4, <1>6, <2>1 DEF e
    <2>2. CASE s # cmd.slot
        BY <1>6, <2>2 DEF All, LedgerInv, EmptyKept
    <2> QED BY <2>1, <2>2
<1>9. StoredKept'
    <2> SUFFICES ASSUME NEW s \in Slots, ledger'[s].sure, ledger'[s].last # Blank
                 PROVE  Leads(s, ledger[s].last)'
        BY DEF StoredKept
    <2>1. CASE s = cmd.slot
        <3>1. Storing /\ ledger'[s].last = Stored(cmd.file)
            BY <1>6, <2>1 DEF e
        <3> QED BY <1>2, <1>4, <2>1, <3>1
                DEF Leads, NameCell, FatCell, Stored, NameOf, HeaderOf
    <2>2. CASE s # cmd.slot
        <3>1. ledger'[s] = ledger[s] /\ Leads(s, ledger[s].last)
            BY <1>6, <2>2 DEF All, LedgerInv, StoredKept
        <3> QED BY <1>2, <2>2, <3>1 DEF Leads, NameCell, FatCell
    <2> QED BY <2>1, <2>2
<1> QED BY <1>2, <1>7, <1>8, <1>9 DEF LedgerInv, FilesOnlyWhenIdle, ReadPermitted, Ack

(* A step of a command that does not acknowledge it.                       *)
LEMMA Unacknowledged ==
    ASSUME All, Observe, pc \notin {"idle", "boot"}, pc' # "boot",
           pc' # "idle" \/ reply' = Error
    PROVE  ledger' = ledger
<1>1. ~ Starts /\ ~ IsReset
    BY DEF Starts, IsReset
<1>2. ~ Acknowledged
    BY DEF Acknowledged, Ack, Error
<1> QED BY <1>1, <1>2, ObserveOther

LEMMA CommandStep ==
    ASSUME All, Observe, FlashStep \/ FlashFailure
    PROVE  LedgerInv'
<1>0. /\ pc \notin {"idle", "boot"} /\ cmd \in Cmd /\ cmd.slot \in Slots
      /\ reply.kind # "file" /\ Error.kind # "file"
    <2>1. pc \notin {"idle", "boot"}
        BY DEF FlashStep, FlashFailure, EraseNames, ProgramNames, EraseSlot, ProgramChunk,
               ProgramTag, ProgramHeader, EraseFat, ProgramFat, NamesFail, BlobWriteFails,
               BlobDeleteFails
    <2>2. cmd \in Cmd /\ reply.kind # "file"
        BY <2>1 DEF All, Inv, TypeOK, LedgerInv, FilesOnlyWhenIdle
    <2> QED BY <2>1, <2>2, CommandTypes DEF All, Inv, Error
<1>t. /\ names \in [Slots -> NameEntry \cup {Blank, Torn}]
      /\ fat \in [Slots -> FatEntry \cup {Blank, Torn}]
    BY DEF All, Inv, TypeOK
<1>1. Interrupted
    BY FlashStepWhole DEF FlashFailure, NamesFail, BlobWriteFails, BlobDeleteFails
<1>2. ASSUME NEW s \in Slots \ {cmd.slot}
      PROVE  /\ hdr'[s] = hdr[s]
             /\ nameF'[s] \in {nameF[s], Blank, names[s]}
             /\ fatF'[s] \in {fatF[s], Blank, fat[s]}
    BY <1>0, <1>1, <1>2, InterruptedCells DEF All
<1>3. CASE ProgramNames
    <2>1. UNCHANGED shadow /\ Inv
        BY <1>3 DEF ProgramNames, All
    <2>2. nameF' = names /\ fatF' = fatF
        BY <1>3, <1>t, <2>1, ProgramErasedPage DEF ProgramNames, Inv, PagesErased
    <2>3. CASE Finish(Ack)
        <3>1. ~ Storing
            <4>1. Ack # Error /\ pc' = "idle"
                BY <2>3 DEF Ack, Error, Finish
            <4> QED BY <1>3, <2>3, <4>1 DEF ProgramNames, Finish, Goto, Storing, StoreOps
        <3>2. names[cmd.slot] = Blank /\ fat[cmd.slot] = Blank /\ fatF[cmd.slot] = Blank
            BY <1>0, <1>3, <3>1
               DEF ProgramNames, All, CommandInv, DeleteProgress, FlushingNames
        <3> QED BY <1>0, <1>2, <2>1, <2>2, <2>3, <3>1, <3>2, AckStep DEF shadow
    <2>4. CASE ~ Finish(Ack)
        <3>1. /\ pc' # "boot"
              /\ \/ pc' = "idle" /\ reply' = Error /\ cmd' = NoCmd
                 \/ pc' # "idle" /\ reply' = reply /\ cmd' = cmd
            BY <1>3, <2>4 DEF ProgramNames, Finish, Goto
        <3>2. ledger' = ledger
            BY <1>0, <3>1, Unacknowledged
        <3> QED BY <1>0, <1>2, <2>1, <3>1, <3>2, InsideCommand DEF shadow
    <2> QED BY <2>3, <2>4
<1>4. CASE ProgramFat
    <2>1. fat' = NewFat /\ fat'[cmd.slot] = NewFatEntry
          /\ \A s \in Slots \ {cmd.slot} : fat'[s] = fat[s] /\ names'[s] = names[s]
        BY <1>0, <1>4, <1>t DEF ProgramFat, NewFat, Finish
    <2>2. CASE Storing
        <3>1. /\ UNCHANGED <<names, hdr>> /\ Finish(Ack)
              /\ NewFatEntry = [uuid |-> cmd.file.id, chunks |-> cmd.file.chunks]
            BY <1>4, <2>2 DEF ProgramFat, Storing, StoreOps, slotCells, NewFatEntry
        <3>2. names[cmd.slot] = NameOf(cmd.file) /\ hdr[cmd.slot] = HeaderOf(cmd.file)
            BY <1>0, <1>4, <2>2
               DEF ProgramFat, All, CommandInv, StoreProgress, FlushingNames, Committing
        <3> QED BY <1>0, <1>2, <2>1, <2>2, <3>1, <3>2, AckStep
    <2>3. CASE ~ Storing
        <3>1. pc' = "eraseNames" /\ UNCHANGED <<cmd, reply>>
            BY <1>0, <1>4, <2>3, CommandTypes
               DEF ProgramFat, Goto, Storing, StoreOps, All, Inv
        <3>2. ledger' = ledger
            BY <1>0, <3>1, Unacknowledged
        <3> QED BY <1>0, <1>2, <2>1, <3>1, <3>2, InsideCommand
    <2> QED BY <2>2, <2>3
<1>5. CASE EraseNames \/ EraseSlot \/ ProgramChunk \/ ProgramTag \/ ProgramHeader \/ EraseFat
    <2>1. /\ pc' \notin {"idle", "boot"} /\ UNCHANGED <<shadow, cmd, reply>>
        BY <1>5 DEF EraseNames, EraseSlot, AfterErase, ProgramChunk, ProgramTag,
                    ProgramHeader, EraseFat, Goto
    <2>2. ledger' = ledger
        BY <1>0, <2>1, Unacknowledged
    <2> QED BY <1>0, <1>2, <2>1, <2>2, InsideCommand DEF shadow
<1>6. CASE NamesFail \/ BlobDeleteFails
    <2>1. /\ pc' = "idle" /\ reply' = Error /\ cmd' = NoCmd /\ UNCHANGED shadow
        BY <1>6 DEF NamesFail, BlobDeleteFails, Finish
    <2>2. ledger' = ledger
        BY <1>0, <2>1, Unacknowledged
    <2> QED BY <1>0, <1>2, <2>1, <2>2, InsideCommand DEF shadow
<1>7. CASE BlobWriteFails
    <2>1. /\ pc' = "eraseNames" /\ UNCHANGED <<fat, reply>>
          /\ names' = [names EXCEPT ![cmd.slot] = Blank]
          /\ cmd' = [cmd EXCEPT !.failed = TRUE] /\ cmd.op \in StoreOps
        BY <1>7 DEF BlobWriteFails, Goto, Storing
    <2>2. cmd' \in Cmd /\ cmd'.slot = cmd.slot
        BY <1>0, <2>1 DEF Cmd, StoreOps
    <2>3. ledger' = ledger
        BY <1>0, <2>1, Unacknowledged
    <2> QED BY <1>0, <1>2, <1>t, <2>1, <2>2, <2>3, InsideCommand
<1> QED BY <1>3, <1>4, <1>5, <1>6, <1>7 DEF FlashStep, FlashFailure

-----------------------------------------------------------------------------
(* A reset: with no shared page at risk, what the tables say in RAM is     *)
(* what they will say after the boot.                                      *)
LEMMA ResetStep == ASSUME All, Observe, Reset PROVE LedgerInv'
<1>1. /\ pc # "boot" /\ pc' = "boot" /\ cmd' = NoCmd /\ cmd' \notin Cmd /\ Interrupted
      /\ reply'.kind # "file" /\ names' = BlankPage /\ fat' = BlankPage
    BY BlankAssumption DEF Reset, NoReply
<1>2. IsReset /\ ~ Starts /\ ~ Acknowledged
    BY <1>1 DEF IsReset, Starts, Acknowledged
<1>3. /\ ledger \in [Slots -> Entries]
      /\ cmd = NoCmd \/ ~ ledger[cmd.slot].sure
    BY DEF All, Inv, TypeOK, LedgerInv, LedgerTypes
<1>4. ASSUME NEW s \in Slots, ledger[s].sure
      PROVE  /\ hdr'[s] = hdr[s]
             /\ nameF'[s] \in {nameF[s], Blank, names[s]}
             /\ fatF'[s] \in {fatF[s], Blank, fat[s]}
    BY <1>1, <1>3, <1>4, InterruptedCells DEF All
<1>5. /\ ledger' \in [Slots -> Entries]
      /\ \A s \in Slots : /\ ledger'[s].last = ledger[s].last
                          /\ ledger'[s].sure => ledger[s].sure
    <2>1. CASE SharedPageAtRisk
        <3>1. ledger' = [s \in Slots |->
                    [ledger[s] EXCEPT !.sure = ledger[s].sure /\ ledger[s].last = Blank]]
            BY <1>2, <2>1 DEF Observe
        <3>2. \A s \in Slots : ledger[s] \in Entries
            BY <1>3
        <3> QED BY <3>1, <3>2 DEF Entries
    <2>2. CASE ~ SharedPageAtRisk
        BY <1>2, <1>3, <2>2 DEF Observe
    <2> QED BY <2>1, <2>2
<1>6. LedgerTypes'
    BY <1>1, <1>5 DEF All, LedgerInv, LedgerTypes
<1>7. EmptyKept'
    BY <1>1, <1>4, <1>5 DEF All, LedgerInv, EmptyKept, BlankPage
<1>8. StoredKept'
    <2>1. CASE SharedPageAtRisk
        <3>1. ledger' = [s \in Slots |->
                    [ledger[s] EXCEPT !.sure = ledger[s].sure /\ ledger[s].last = Blank]]
            BY <1>2, <2>1 DEF Observe
        <3>2. \A s \in Slots : ledger'[s].sure => ledger'[s].last = Blank
            BY <1>3, <3>1 DEF Entries
        <3> QED BY <3>2 DEF StoredKept
    <2>2. CASE ~ SharedPageAtRisk
        <3>1. nameF' = names /\ fatF' = fat
            BY <1>1, <2>2, InterruptedCells, BoundsAssumption
               DEF SharedPageAtRisk, FlushingNames, Committing, All, Slots
        <3> QED BY <1>1, <1>4, <1>5, <3>1, SMTT(60)
                DEF All, LedgerInv, StoredKept, Leads, NameCell, FatCell
    <2> QED BY <2>1, <2>2
<1> QED BY <1>1, <1>6, <1>7, <1>8 DEF LedgerInv, FilesOnlyWhenIdle, ReadPermitted

LEMMA BootStep == ASSUME All, Observe, Boot PROVE LedgerInv'
<1>1. /\ pc = "boot" /\ pc' = "idle" /\ names' = nameF /\ fat' = fatF
      /\ UNCHANGED <<nameF, fatF, hdr, cmd, reply>> /\ reply.kind # "file"
    BY DEF Boot, flash, slotCells, All, LedgerInv, FilesOnlyWhenIdle
<1>2. ledger' = ledger
    BY <1>1, ObserveOther DEF Starts, Acknowledged, IsReset
<1> QED BY <1>1, <1>2
        DEF All, LedgerInv, LedgerTypes, EmptyKept, StoredKept, Leads, NameCell, FatCell,
            FilesOnlyWhenIdle, ReadPermitted

LEMMA LedgerInitAll == LedgerInit => All
<1> SUFFICES ASSUME LedgerInit PROVE All
    OBVIOUS
<1>1. Inv /\ cmd \notin Cmd
    BY InitInv, BlankAssumption DEF LedgerInit, Init
<1>2. LedgerInv
    BY <1>1 DEF LedgerInit, Init, LedgerInv, LedgerTypes, Entries, EmptyKept, StoredKept,
                FilesOnlyWhenIdle, ReadPermitted, NoReply, BlankPage
<1> QED BY <1>1, <1>2 DEF All, CommandInv, StoreProgress, DeleteProgress

LEMMA NextAll == All /\ [LedgerNext]_ledgerVars => All'
<1> SUFFICES ASSUME All, [LedgerNext]_ledgerVars PROVE All'
    OBVIOUS
<1>1. Inv' /\ CommandInv'
    BY NextInv, NextCommandInv DEF All, LedgerNext, ledgerVars
<1>2. LedgerInv'
    <2>1. CASE UNCHANGED ledgerVars
        BY <2>1, LedgerUnchanged DEF All, ledgerVars, vars, flash, shadow, slotCells
    <2>2. CASE LedgerNext
        BY <2>2, HostStep, CommandStep, ResetStep, BootStep DEF LedgerNext, Next
    <2> QED BY <2>1, <2>2
<1> QED BY <1>1, <1>2 DEF All

(* Between commands every slot the host is sure of reads back the file     *)
(* that was last acknowledged, or is empty, whatever failed and wherever   *)
(* the device was reset.                                                   *)
THEOREM AcknowledgedFilesKept == LedgerSpec => []AcknowledgedKept
<1>1. All => AcknowledgedKept
    <2> SUFFICES ASSUME All, pc = "idle", NEW s \in Slots, ledger[s].sure
                 PROVE  IF ledger[s].last = Blank THEN ~ slot_occupied(s)
                        ELSE ledger[s].last.group # 0 => Holds(s, ledger[s].last)
        BY DEF AcknowledgedKept
    <2>1. CASE ledger[s].last = Blank
        BY <2>1 DEF All, LedgerInv, EmptyKept, slot_occupied
    <2>2. ASSUME ledger[s].last # Blank, ledger[s].last.group # 0
          PROVE  Holds(s, ledger[s].last)
        <3> DEFINE f == ledger[s].last
        <3>1. f \in FileView /\ f.sealed = f.group /\ Leads(s, f)
            <4>1. ledger[s] \in Entries
                BY DEF All, LedgerInv, LedgerTypes
            <4> QED BY <2>2, <4>1 DEF Entries, All, LedgerInv, LedgerTypes, StoredKept
        <3> HIDE DEF f
        <3>2. /\ names[s] = [name |-> f.name, group |-> f.group]
              /\ fat[s] = [uuid |-> f.uuid, chunks |-> hdr[s].chunks]
              /\ hdr[s] \in Header /\ hdr[s].nonce = f.content /\ hdr[s].group = f.sealed
            BY <3>1 DEF Leads, NameCell, FatCell
        <3>3. names[s] \in NameEntry /\ fat[s] \in FatEntry
            BY <3>1, <3>2 DEF NameEntry, FatEntry, Header, FileView
        <3>4. /\ names[s] # Blank /\ Readable(fat[s]) /\ Readable(hdr[s])
              /\ hdr[s].chunks = fat[s].chunks /\ hdr[s].group # 0
            BY <2>2, <3>1, <3>2, <3>3, BlankAssumption DEF Readable, f
        <3>5. blob_verifies(s)
            BY <3>4 DEF All, Inv, HeaderComplete
        <3>6. FileAt(s) = f
            BY <3>1, <3>2 DEF FileAt, FileView
        <3> QED BY <3>4, <3>5, <3>6
                DEF Holds, slot_occupied, blob_read_all, load_header, MaskAdmits, Readable, f
    <2> QED BY <2>1, <2>2
<1> QED BY <1>1, LedgerInitAll, NextAll, PTL DEF LedgerSpec

(* READ returns only what was sealed for a group with the read permission, *)
(* as long as no command has been cut short.                               *)
THEOREM ReadsPermitted == LedgerSpec => []ReadPermitted
<1>1. All => ReadPermitted
    BY DEF All, LedgerInv
<1> QED BY <1>1, LedgerInitAll, NextAll, PTL DEF LedgerSpec
=============================================================================
