---------------------------- MODULE SlotHistory ----------------------------
(***************************************************************************)
(* SlotStore implements SlotDirectory.  Two history variables complete the *)
(* refinement mapping: what the slot in work held before its command       *)
(* erased it, and which files commands have been about to store where.     *)
(***************************************************************************)
EXTENDS SlotStore

CONSTANT NoSlot    \* no slot is in work

ASSUME NoSlotAssumption == NoSlot \notin Slots

VARIABLES
    was,      \* the file of the slot in work when its command began
    past,     \* per slot, the files store commands began to write there
    doubt     \* per slot, what a failed command has left open

historyVars == <<vars, was, past, doubt>>

(* What can be read of slot s given the two tables.                        *)
ViewThrough(nameTable, fatTable, s) ==
    IF /\ Readable(nameTable[s])
       /\ Readable(fatTable[s])
       /\ Readable(hdr[s])
       /\ fatTable[s].chunks = hdr[s].chunks
       /\ MaskAdmits(s)
       /\ blob_verifies(s)
    THEN [name |-> nameTable[s].name, group |-> nameTable[s].group,
          content |-> hdr[s].nonce, sealed |-> hdr[s].group, uuid |-> fatTable[s].uuid]
    ELSE Blank

(* A device that has lost power holds what it will find when it boots.     *)
View(s) == IF pc = "boot" THEN ViewThrough(nameF, fatF, s) ELSE ViewThrough(names, fat, s)

Stored(f) == [name |-> f.name, group |-> f.group, content |-> f.id,
              sealed |-> f.group, uuid |-> f.id]

InWork(c) == IF c = NoCmd THEN NoSlot ELSE c.slot
Intended(c) == IF c = NoCmd THEN Blank
               ELSE IF c.op = "delete" THEN Blank ELSE Stored(c.file)

Directory == INSTANCE SlotDirectory WITH
    Files <- FileView,
    Gone <- Blank,
    Unreadable <- {0},
    dir <- [s \in Slots |-> IF s = InWork(cmd) THEN was ELSE View(s)],
    busy <- InWork(cmd),
    next <- Intended(cmd)

HistoryInit == Init /\ was = Blank /\ past = Directory!Certain /\ doubt = Directory!Certain

Ends(answer) == cmd # NoCmd /\ cmd' = NoCmd /\ reply' = answer

Remember ==
    /\ IF cmd = NoCmd /\ cmd' # NoCmd
       THEN /\ was' = View(cmd'.slot)
            /\ past' = [past EXCEPT ![cmd'.slot] = @ \cup ({Intended(cmd')} \ {Blank})]
       ELSE was' = (IF cmd' = NoCmd THEN Blank ELSE was) /\ UNCHANGED past
    /\ doubt' = IF pc' = "boot" \/ Ends(Ack) THEN Directory!Certain
                ELSE IF Ends(Error) THEN [s \in Slots |-> doubt[s] \cup Directory!Outcomes(s)]
                ELSE doubt

HistoryNext == Next /\ Remember

HistorySpec == HistoryInit /\ [][HistoryNext]_historyVars

(* The commands of commands.c keep SlotDirectory's promise: a command, its *)
(* failure or a reset inside it never changes another slot's file into     *)
(* anything but no file, and leaves its own slot in one of the listed      *)
(* states, although all slots share the two pages they are found through.  *)
ImplementsDirectory == Directory!Spec

(* RAM and flash tell the same story between commands, unless a command    *)
(* has failed since the last one that completed, or the last boot.         *)
ShadowMatchesUnlessFailed ==
    pc = "idle" /\ doubt = Directory!Certain => names = nameF /\ fat = fatF
=============================================================================
