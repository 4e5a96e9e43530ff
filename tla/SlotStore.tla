----------------------------- MODULE SlotStore -----------------------------
(***************************************************************************)
(* The file store of the HSM: the encrypted blob slots and their FAT       *)
(* (secure_blob_store.c), the name table (commands.c) and the commands of  *)
(* commands.c that read and write them, over the flash driver              *)
(* (simple_flash.c).                                                       *)
(*                                                                         *)
(* The firmware is one thread.  A command that changes flash is a sequence *)
(* of page erases and programs, one action each, and a flash operation may *)
(* report a failure, or the device may lose power, inside any of them.     *)
(* The RAM shadows g_fat and g_name_table are reloaded at boot.            *)
(*                                                                         *)
(* Data is abstract.  A write is identified by the nonce drawn for it, and *)
(* a chunk of ciphertext or a tag is the nonce it was sealed under: the    *)
(* AEAD and the HMAC over the tags accept exactly the chunks sealed under  *)
(* the header's own nonce.  A length is a number of chunks.                *)
(***************************************************************************)
EXTENDS Naturals

CONSTANTS
    NSlots,      \* SECURE_BLOB_STORE_MAX_SLOTS
    Names,       \* file names
    Groups,      \* group ids
    CanRead,     \* groups of global_permissions with read
    CanWrite,    \* ... with write
    CanReceive,  \* ... with receive
    MaxChunks,   \* chunks of the longest file
    DebugBuild,  \* TRUE: the DELETE command is compiled in
    FlashFails,  \* TRUE: a flash operation may return -1
    MaxWrites,   \* bound: store commands that start in one behaviour
    MaxResets,   \* bound: resets in one behaviour
    Blank,       \* an erased flash cell
    Torn,        \* a cell that holds neither its erased nor an intended value
    NoCmd        \* no command is in progress

Slots == 0 .. NSlots - 1
Writes == 1 .. MaxWrites
Lengths == 0 .. MaxChunks
Chunks == 1 .. MaxChunks
SlotArgs == 0 .. NSlots     \* a slot byte of a packet: NSlots stands for any bad one

NameEntry == [name : Names, group : Groups]
FatEntry == [uuid : Writes, chunks : Lengths]
Header == [nonce : Writes, group : Groups, chunks : Lengths]
File == [id : Writes, name : Names, group : Groups, chunks : Lengths]
FileView == [name : Names, group : Groups, content : Writes, sealed : Groups,
             uuid : Writes]     \* a file as the host meets it
Cmd == [op : {"write", "receive"}, slot : Slots, file : File, failed : BOOLEAN]
       \cup [op : {"delete"}, slot : Slots, file : {Blank}, failed : {FALSE}]

ASSUME BoundsAssumption ==
    /\ NSlots \in Nat \ {0}
    /\ MaxChunks \in Nat \ {0}
    /\ MaxWrites \in Nat
    /\ MaxResets \in Nat
    /\ DebugBuild \in BOOLEAN
    /\ FlashFails \in BOOLEAN
    /\ Groups \subseteq Nat

ASSUME BlankAssumption ==
    /\ {Blank, Torn} \cap (NameEntry \cup FatEntry \cup Header \cup Writes \cup FileView) = {}
    /\ Blank # Torn
    /\ NoCmd \notin Cmd

VARIABLES
    nameF,    \* flash page 0x3A400: the name table
    fatF,     \* flash page 0x3A000: the FAT
    hdr,      \* per slot, its header at the slot's base
    ct, tag,  \* per slot and chunk, the ciphertext and the tag at the slot's end
    names,    \* RAM: g_name_table
    fat,      \* RAM: g_fat
    pc,       \* the flash operation the device is about to do
    cmd,      \* the command in progress
    idx,      \* its loop index: page of the slot being erased, or chunk
    reply,    \* the last packet sent to the host
    writes,   \* how many store commands have started; the last nonce
    resets    \* how many resets have happened

slotCells == <<hdr, ct, tag>>
flash == <<nameF, fatF, slotCells>>
shadow == <<names, fat>>
vars == <<flash, shadow, pc, cmd, idx, reply, writes, resets>>

-----------------------------------------------------------------------------
(* Flash.  Programming only clears bits: a cell that is not erased first   *)
(* ends up with neither value.                                             *)

BlankPage == [s \in Slots |-> Blank]

Programmed(cell, value) ==
    IF value = Blank THEN cell ELSE IF cell = Blank THEN value ELSE Torn

(* A page is programmed in ascending address order: its first n entries.   *)
ProgrammedPage(page, target, n) ==
    [s \in Slots |-> IF s < n THEN Programmed(page[s], target[s]) ELSE page[s]]

(* Page 0 of a slot holds its header and the first chunk, the last page    *)
(* the tags, the pages between them the other chunks.                      *)
LastPage == MaxChunks
PageOf(chunk) == chunk - 1

(* Mutation: one page too many, the first of the next slot.                *)
EraseSlotPagesOneMore(s, page) ==
    LET erased == IF page = LastPage /\ s + 1 \in Slots THEN s + 1 ELSE s IN
    /\ hdr' = IF page \in {0, LastPage} THEN [hdr EXCEPT ![erased] = Blank] ELSE hdr
    /\ ct' = [ct EXCEPT ![erased] =
                 [i \in Chunks |-> IF PageOf(i) \in {page, 0} THEN Blank ELSE ct[erased][i]]]
    /\ tag' = IF page = LastPage
              THEN [tag EXCEPT ![s] = [i \in Chunks |-> Blank]]
              ELSE tag

EraseSlotPageCells(s, page) ==
    /\ hdr' = IF page = 0 THEN [hdr EXCEPT ![s] = Blank] ELSE hdr
    /\ ct' = [ct EXCEPT ![s] =
                 [i \in Chunks |-> IF PageOf(i) = page THEN Blank ELSE ct[s][i]]]
    /\ tag' = IF page = LastPage
              THEN [tag EXCEPT ![s] = [i \in Chunks |-> Blank]]
              ELSE tag

-----------------------------------------------------------------------------
(* What the tables and the slots say                                       *)

slot_occupied(s) == s \in Slots /\ names[s] # Blank /\ fat[s] # Blank

Readable(cell) == cell \notin {Blank, Torn}

load_header(s) ==
    Readable(fat[s]) /\ Readable(hdr[s]) /\ hdr[s].chunks = fat[s].chunks

blob_verifies(s) ==
    \A i \in 1 .. hdr[s].chunks :
        ct[s][i] = hdr[s].nonce /\ tag[s][i] = hdr[s].nonce

(* (0xFFFFFFFF & header.group_mask) # 0                                    *)
MaskAdmits(s) == hdr[s].group # 0

(* Whether the caller's PIN has the hash in the header: it has, unless a   *)
(* CHANGE_PIN of a debug build came after the store.  When it came is not  *)
(* followed, so that either is possible for any blob.                      *)
Owners == IF DebugBuild THEN BOOLEAN ELSE {TRUE}

(* For its owner.                                                          *)
blob_read_all(s) == load_header(s) /\ MaskAdmits(s) /\ blob_verifies(s)

generate_list_files == {s \in Slots : slot_occupied(s)}

(* A stored file as the host meets it: READ returns the plaintext of write *)
(* "content", sealed for group "sealed", under the table's name; LIST and  *)
(* a transfer report the table's group and the FAT's uuid with it.         *)
FileAt(s) == [name |-> names[s].name, group |-> names[s].group,
              content |-> hdr[s].nonce, sealed |-> hdr[s].group,
              uuid |-> fat[s].uuid]

-----------------------------------------------------------------------------
(* Commands                                                                *)

NoReply == [kind |-> "none", body |-> Blank]
Ack == [kind |-> "ack", body |-> Blank]
Error == [kind |-> "error", body |-> Blank]

StoreOps == {"write", "receive"}
Permitted(op) == IF op = "write" THEN CanWrite ELSE CanReceive

Storing == cmd.op \in StoreOps

Finish(answer) ==
    /\ reply' = answer
    /\ pc' = "idle"
    /\ cmd' = NoCmd
    /\ idx' = 0

Goto(label, i) ==
    /\ pc' = label
    /\ idx' = i

(* WRITE, and the tail of RECEIVE: the checks, then save_name_entry up to  *)
(* its flush.                                                              *)
BeginStore(op, s, n, g, len) ==
    /\ pc = "idle"
    /\ writes < MaxWrites
    /\ g \in Permitted(op)
    /\ s \in Slots
    /\ writes' = writes + 1
    /\ cmd' = [op |-> op, slot |-> s, failed |-> FALSE,
               file |-> [id |-> writes + 1, name |-> n, group |-> g, chunks |-> len]]
    /\ names' = [names EXCEPT ![s] = [name |-> n, group |-> g]]
    /\ Goto("eraseNames", 0)
    /\ reply' = NoReply
    /\ UNCHANGED <<flash, fat, resets>>

(* DELETE: blob_delete starts by erasing the slot.                         *)
BeginDelete(s) ==
    /\ pc = "idle"
    /\ DebugBuild
    /\ slot_occupied(s)
    /\ cmd' = [op |-> "delete", slot |-> s, file |-> Blank, failed |-> FALSE]
    /\ Goto("eraseSlot", 0)
    /\ reply' = NoReply
    /\ UNCHANGED <<flash, shadow, writes, resets>>

(* A command its checks turn down before it touches anything.              *)
RefuseStore(op, s, g) ==
    /\ pc = "idle"
    /\ ~ (g \in Permitted(op) /\ s \in Slots)
    /\ reply' = Error
    /\ UNCHANGED <<flash, shadow, pc, cmd, idx, writes, resets>>

RefuseDelete(s) ==
    /\ pc = "idle"
    /\ DebugBuild
    /\ ~ slot_occupied(s)
    /\ reply' = Error
    /\ UNCHANGED <<flash, shadow, pc, cmd, idx, writes, resets>>

(* Mutation: no validate_permission.                                       *)
ReadUnchecked(s, owner) ==
    /\ pc = "idle"
    /\ reply' = IF slot_occupied(s) /\ Readable(names[s]) /\ owner /\ blob_read_all(s)
                THEN [kind |-> "file", body |-> FileAt(s)]
                ELSE Error
    /\ UNCHANGED <<flash, shadow, pc, cmd, idx, writes, resets>>

(* READ, once the PIN in force has been given.                             *)
Read(s, owner) ==
    /\ pc = "idle"
    /\ reply' = IF slot_occupied(s) /\ Readable(names[s])
                   /\ names[s].group \in CanRead /\ owner /\ blob_read_all(s)
                THEN [kind |-> "file", body |-> FileAt(s)]
                ELSE Error
    /\ UNCHANGED <<flash, shadow, pc, cmd, idx, writes, resets>>

ListFiles ==
    /\ pc = "idle"
    /\ reply' = [kind |-> "list", body |-> generate_list_files]
    /\ UNCHANGED <<flash, shadow, pc, cmd, idx, writes, resets>>

-----------------------------------------------------------------------------
(* The flash operations of a command, in the order the code does them      *)

EraseNames ==
    /\ pc = "eraseNames"
    /\ nameF' = BlankPage
    /\ Goto("programNames", 0)
    /\ UNCHANGED <<fatF, slotCells, shadow, cmd, reply, writes, resets>>

(* flush_name_table is the first step of a store, the last of a delete,    *)
(* and the last of a store whose blob_write failed.                        *)
ProgramNames ==
    /\ pc = "programNames"
    /\ nameF' = ProgrammedPage(nameF, names, NSlots)
    /\ IF cmd.op = "delete" THEN Finish(Ack)
       ELSE IF cmd.failed THEN Finish(Error)
       ELSE Goto("eraseSlot", 0) /\ UNCHANGED <<cmd, reply>>
    /\ UNCHANGED <<fatF, slotCells, shadow, writes, resets>>

(* Mutation: a loop that runs once for an empty file.                      *)
AfterEraseAtLeastOneChunk ==
    IF cmd.op = "delete" THEN Goto("eraseFat", 0) ELSE Goto("programChunk", 1)

AfterErase ==
    IF cmd.op = "delete" THEN Goto("eraseFat", 0)
    ELSE IF cmd.file.chunks = 0 THEN Goto("programHeader", 0)
    ELSE Goto("programChunk", 1)

(* Mutations: the last page first, so the header's page last; and a page   *)
(* too few.                                                                *)
EraseSlotBackwards ==
    /\ pc = "eraseSlot"
    /\ EraseSlotPageCells(cmd.slot, LastPage - idx)
    /\ IF idx = LastPage THEN AfterErase ELSE Goto("eraseSlot", idx + 1)
    /\ UNCHANGED <<nameF, fatF, shadow, cmd, reply, writes, resets>>

EraseSlotOneShort ==
    /\ pc = "eraseSlot"
    /\ EraseSlotPageCells(cmd.slot, idx)
    /\ IF idx = LastPage - 1 THEN AfterErase ELSE Goto("eraseSlot", idx + 1)
    /\ UNCHANGED <<nameF, fatF, shadow, cmd, reply, writes, resets>>

EraseSlot ==
    /\ pc = "eraseSlot"
    /\ EraseSlotPageCells(cmd.slot, idx)
    /\ IF idx = LastPage THEN AfterErase ELSE Goto("eraseSlot", idx + 1)
    /\ UNCHANGED <<nameF, fatF, shadow, cmd, reply, writes, resets>>

ProgramChunk ==
    /\ pc = "programChunk"
    /\ ct' = [ct EXCEPT ![cmd.slot][idx] = Programmed(@, cmd.file.id)]
    /\ Goto("programTag", idx)
    /\ UNCHANGED <<nameF, fatF, hdr, tag, shadow, cmd, reply, writes, resets>>

ProgramTag ==
    /\ pc = "programTag"
    /\ tag' = [tag EXCEPT ![cmd.slot][idx] = Programmed(@, cmd.file.id)]
    /\ IF idx = cmd.file.chunks THEN Goto("programHeader", 0)
       ELSE Goto("programChunk", idx + 1)
    /\ UNCHANGED <<nameF, fatF, hdr, ct, shadow, cmd, reply, writes, resets>>

HeaderOf(f) == [nonce |-> f.id, group |-> f.group, chunks |-> f.chunks]

ProgramHeader ==
    /\ pc = "programHeader"
    /\ hdr' = [hdr EXCEPT ![cmd.slot] = Programmed(@, HeaderOf(cmd.file))]
    /\ Goto("eraseFat", 0)
    /\ UNCHANGED <<nameF, fatF, ct, tag, shadow, cmd, reply, writes, resets>>

(* The table commit_fat_entry programs: g_fat with the slot's entry        *)
(* replaced.                                                               *)
NewFatEntry ==
    IF cmd.op = "delete" THEN Blank
    ELSE [uuid |-> cmd.file.id, chunks |-> cmd.file.chunks]
NewFat == [fat EXCEPT ![cmd.slot] = NewFatEntry]

EraseFat ==
    /\ pc = "eraseFat"
    /\ fatF' = BlankPage
    /\ Goto("programFat", 0)
    /\ UNCHANGED <<nameF, slotCells, shadow, cmd, reply, writes, resets>>

(* After the commit a store is acknowledged; a delete goes on to           *)
(* clear_name_entry.                                                       *)
ProgramFat ==
    /\ pc = "programFat"
    /\ fatF' = ProgrammedPage(fatF, NewFat, NSlots)
    /\ fat' = NewFat
    /\ IF cmd.op = "delete"
       THEN /\ names' = [names EXCEPT ![cmd.slot] = Blank]
            /\ Goto("eraseNames", 0)
            /\ UNCHANGED <<cmd, reply>>
       ELSE Finish(Ack) /\ UNCHANGED names
    /\ UNCHANGED <<nameF, slotCells, writes, resets>>

-----------------------------------------------------------------------------
(* Failures and resets                                                     *)

(* What the flash may hold after the operation at pc stopped half-way.     *)
Interrupted ==
    \/ UNCHANGED flash
    \/ pc = "eraseNames" /\ nameF' = BlankPage /\ UNCHANGED <<fatF, slotCells>>
    \/ pc = "eraseFat" /\ fatF' = BlankPage /\ UNCHANGED <<nameF, slotCells>>
    \/ pc = "eraseSlot" /\ EraseSlotPageCells(cmd.slot, idx)
       /\ UNCHANGED <<nameF, fatF>>
    \/ /\ pc = "programNames"
       /\ \E n \in 1 .. NSlots : nameF' = ProgrammedPage(nameF, names, n)
       /\ UNCHANGED <<fatF, slotCells>>
    \/ /\ pc = "programFat"
       /\ \E n \in 1 .. NSlots : fatF' = ProgrammedPage(fatF, NewFat, n)
       /\ UNCHANGED <<nameF, slotCells>>
    \/ /\ pc = "programChunk"
       /\ \E v \in {Torn, cmd.file.id} :
              ct' = [ct EXCEPT ![cmd.slot][idx] = Programmed(@, v)]
       /\ UNCHANGED <<nameF, fatF, hdr, tag>>
    \/ /\ pc = "programTag"
       /\ \E v \in {Torn, cmd.file.id} :
              tag' = [tag EXCEPT ![cmd.slot][idx] = Programmed(@, v)]
       /\ UNCHANGED <<nameF, fatF, hdr, ct>>
    \/ /\ pc = "programHeader"
       /\ \E v \in {Torn, HeaderOf(cmd.file)} :
              hdr' = [hdr EXCEPT ![cmd.slot] = Programmed(@, v)]
       /\ UNCHANGED <<nameF, fatF, ct, tag>>

(* A name-table flush that fails ends the command, whoever asked for it:   *)
(* its result is not looked at after a failed blob_write.  g_name_table    *)
(* keeps what it was set to.                                               *)
NamesFail ==
    /\ FlashFails
    /\ pc \in {"eraseNames", "programNames"}
    /\ Interrupted
    /\ Finish(Error)
    /\ UNCHANGED <<shadow, writes, resets>>

(* blob_write fails (in the flash or, before the first erase, in the       *)
(* crypto): the name entry is cleared.                                     *)
(* Mutations: the write is tried again; the undo clears the whole table.   *)
BlobWriteRetries ==
    /\ FlashFails
    /\ pc \notin {"idle", "boot", "eraseNames", "programNames"}
    /\ Storing
    /\ Interrupted
    /\ Goto("eraseSlot", 0)
    /\ UNCHANGED <<shadow, cmd, reply, writes, resets>>

BlobWriteFailsClearsTable ==
    /\ FlashFails
    /\ pc \notin {"idle", "boot", "eraseNames", "programNames"}
    /\ Storing
    /\ Interrupted
    /\ names' = BlankPage
    /\ cmd' = [cmd EXCEPT !.failed = TRUE]
    /\ Goto("eraseNames", 0)
    /\ UNCHANGED <<fat, reply, writes, resets>>

BlobWriteFails ==
    /\ FlashFails
    /\ pc \notin {"idle", "boot", "eraseNames", "programNames"}
    /\ Storing
    /\ Interrupted
    /\ names' = [names EXCEPT ![cmd.slot] = Blank]
    /\ cmd' = [cmd EXCEPT !.failed = TRUE]
    /\ Goto("eraseNames", 0)
    /\ UNCHANGED <<fat, reply, writes, resets>>

(* Mutation: blob_delete's result is not looked at.                        *)
BlobDeleteFailureIgnored ==
    /\ FlashFails
    /\ pc \in {"eraseSlot", "eraseFat", "programFat"}
    /\ ~ Storing
    /\ Interrupted
    /\ Finish(Ack)
    /\ UNCHANGED <<shadow, writes, resets>>

BlobDeleteFails ==
    /\ FlashFails
    /\ pc \in {"eraseSlot", "eraseFat", "programFat"}
    /\ ~ Storing
    /\ Interrupted
    /\ Finish(Error)
    /\ UNCHANGED <<shadow, writes, resets>>

(* Power loss or the watchdog, at any point.                               *)
Reset ==
    /\ resets < MaxResets
    /\ pc # "boot"
    /\ Interrupted
    /\ resets' = resets + 1
    /\ names' = BlankPage
    /\ fat' = BlankPage
    /\ pc' = "boot"
    /\ cmd' = NoCmd
    /\ idx' = 0
    /\ reply' = NoReply
    /\ UNCHANGED writes

(* Mutation: init_commands without blob_store_init.                        *)
BootWithoutFat ==
    /\ pc = "boot"
    /\ names' = nameF
    /\ pc' = "idle"
    /\ UNCHANGED <<flash, fat, cmd, idx, reply, writes, resets>>

(* init_commands: blob_store_init and load_name_table.                     *)
Boot ==
    /\ pc = "boot"
    /\ fat' = fatF
    /\ names' = nameF
    /\ pc' = "idle"
    /\ UNCHANGED <<flash, cmd, idx, reply, writes, resets>>

-----------------------------------------------------------------------------
Init ==
    /\ nameF = BlankPage
    /\ fatF = BlankPage
    /\ hdr = [s \in Slots |-> Blank]
    /\ ct = [s \in Slots |-> [i \in Chunks |-> Blank]]
    /\ tag = [s \in Slots |-> [i \in Chunks |-> Blank]]
    /\ names = BlankPage
    /\ fat = BlankPage
    /\ pc = "boot"
    /\ cmd = NoCmd
    /\ idx = 0
    /\ reply = NoReply
    /\ writes = 0
    /\ resets = 0

HostCommand ==
    \/ \E op \in StoreOps, s \in Slots, n \in Names, g \in Groups, len \in Lengths :
          BeginStore(op, s, n, g, len)
    \/ \E s \in Slots : BeginDelete(s)
    \/ \E op \in StoreOps, s \in SlotArgs, g \in Groups : RefuseStore(op, s, g)
    \/ \E s \in SlotArgs : RefuseDelete(s)
    \/ \E s \in SlotArgs, owner \in Owners : Read(s, owner)
    \/ ListFiles

FlashStep ==
    \/ EraseNames \/ ProgramNames \/ EraseSlot
    \/ ProgramChunk \/ ProgramTag \/ ProgramHeader
    \/ EraseFat \/ ProgramFat

FlashFailure == NamesFail \/ BlobWriteFails \/ BlobDeleteFails

Next == HostCommand \/ FlashStep \/ FlashFailure \/ Reset \/ Boot

(* The firmware does not block inside a command, and it boots.             *)
Fairness == WF_vars(FlashStep \/ FlashFailure) /\ WF_vars(Boot)

Spec == Init /\ [][Next]_vars /\ Fairness

-----------------------------------------------------------------------------
(* Properties                                                              *)

Labels == {"idle", "boot", "eraseNames", "programNames", "eraseSlot",
           "programChunk", "programTag", "programHeader", "eraseFat", "programFat"}

(* The variables have their types, and a command is in progress exactly when *)
(* the device is at one of its flash operations.                           *)
TypeOK ==
    /\ nameF \in [Slots -> NameEntry \cup {Blank, Torn}]
    /\ names \in [Slots -> NameEntry \cup {Blank, Torn}]
    /\ fatF \in [Slots -> FatEntry \cup {Blank, Torn}]
    /\ fat \in [Slots -> FatEntry \cup {Blank, Torn}]
    /\ hdr \in [Slots -> Header \cup {Blank, Torn}]
    /\ ct \in [Slots -> [Chunks -> Writes \cup {Blank, Torn}]]
    /\ tag \in [Slots -> [Chunks -> Writes \cup {Blank, Torn}]]
    /\ pc \in Labels
    /\ cmd \in Cmd \cup {NoCmd}
    /\ cmd = NoCmd <=> pc \in {"idle", "boot"}
    /\ idx \in 0 .. MaxChunks
    /\ writes \in 0 .. MaxWrites
    /\ resets \in 0 .. MaxResets

(* Commit order: a header is on flash only over a complete blob.  Whatever *)
(* interrupts a write or a delete, a slot whose header can be read has     *)
(* every chunk and tag that header counts, all sealed by the same write    *)
(* (blob_write programs chunk, tag, ..., header; erase_slot_pages starts   *)
(* with the header's page).                                                *)
HeaderComplete == \A s \in Slots : Readable(hdr[s]) => blob_verifies(s)

(* Flash is only ever programmed where it is erased: no command reaches a  *)
(* program over cells an earlier, interrupted command left behind.         *)
ProgramsErasedFlash ==
    /\ pc = "programNames" => nameF = BlankPage
    /\ pc = "programFat" => fatF = BlankPage
    /\ pc = "programChunk" => ct[cmd.slot][idx] = Blank
    /\ pc = "programTag" => tag[cmd.slot][idx] = Blank
    /\ pc = "programHeader" => hdr[cmd.slot] = Blank

(* The flash operations that the command in progress may still ask for.  A *)
(* flush of the name table is the last thing a delete does, or a store     *)
(* whose blob_write has failed; a flash failure on the way costs a store   *)
(* the two operations of that flush instead of those it had left.          *)
FlushIsLast == cmd.op = "delete" \/ cmd.failed

BlobOperations == 2 * cmd.file.chunks + LastPage + 6

OperationsLeft ==
    CASE pc \in {"idle", "boot"} -> 0
      [] pc = "programNames" -> 1 + IF FlushIsLast THEN 0 ELSE BlobOperations
      [] pc = "eraseNames" -> 2 + IF FlushIsLast THEN 0 ELSE BlobOperations
      [] pc = "programFat" -> 3
      [] pc = "eraseFat" -> 4
      [] pc = "programHeader" -> 5
      [] pc = "programTag" -> 6 + 2 * (cmd.file.chunks - idx)
      [] pc = "programChunk" -> 7 + 2 * (cmd.file.chunks - idx)
      [] pc = "eraseSlot" -> IF cmd.op = "delete" THEN 5 + LastPage - idx
                             ELSE BlobOperations - idx

(* A command asks for a bounded number of flash operations, whichever of   *)
(* them fail, and so has a bounded time between two restarts of the        *)
(* watchdog: nothing is tried again, and the clean-up of a failed          *)
(* blob_write is not cleaned up after in its turn.                         *)
BoundedFlashWork ==
    [][pc \notin {"idle", "boot"} /\ resets' = resets
         => OperationsLeft' \in 0 .. OperationsLeft - 1]_vars

(* Every command comes to an end, and a reset device boots.                *)
CommandsEnd == pc # "idle" ~> pc = "idle"

=============================================================================
