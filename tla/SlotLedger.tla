----------------------------- MODULE SlotLedger -----------------------------
(***************************************************************************)
(* What the host knows of the file store.  SlotStore with one observer     *)
(* variable: ledger[s].last is the file of the last acknowledged command   *)
(* on slot s (Blank: none, or it was deleted), and ledger[s].sure says     *)
(* whether anything has happened since that the store's users have to      *)
(* expect to disturb it.                                                   *)
(***************************************************************************)
EXTENDS SlotStore

VARIABLE ledger

ledgerVars == <<vars, ledger>>

LedgerInit == Init /\ ledger = [s \in Slots |-> [last |-> Blank, sure |-> TRUE]]

Stored(f) == [name |-> f.name, group |-> f.group, content |-> f.id,
              sealed |-> f.group, uuid |-> f.id]

Starts == pc = "idle" /\ pc' \notin {"idle", "boot"}
Acknowledged == pc \notin {"idle", "boot"} /\ pc' = "idle" /\ reply' = Ack
IsReset == pc # "boot" /\ pc' = "boot"

(* One of the two pages all slots share is being rewritten, or a failed    *)
(* rewrite has left it different from its shadow.                          *)
SharedPageAtRisk ==
    \/ pc \in {"eraseNames", "programNames", "eraseFat", "programFat"}
    \/ names # nameF
    \/ fat # fatF

(* A command makes its own slot unsure until it is acknowledged; a reset   *)
(* while a shared page is at risk makes every stored file unsure.          *)
Observe ==
    ledger' =
        IF Starts THEN [ledger EXCEPT ![cmd'.slot].sure = FALSE]
        ELSE IF Acknowledged
        THEN [ledger EXCEPT ![cmd.slot] =
                 [last |-> IF Storing THEN Stored(cmd.file) ELSE Blank, sure |-> TRUE]]
        ELSE IF IsReset /\ SharedPageAtRisk
        THEN [s \in Slots |->
                 [ledger[s] EXCEPT !.sure = ledger[s].sure /\ ledger[s].last = Blank]]
        ELSE ledger

LedgerNext == Next /\ Observe

LedgerSpec == LedgerInit /\ [][LedgerNext]_ledgerVars /\ Fairness

-----------------------------------------------------------------------------
(* Properties                                                              *)

Holds(s, f) == slot_occupied(s) /\ blob_read_all(s) /\ FileAt(s) = f

(* What was acknowledged is what is there.  Between commands, a slot whose *)
(* last command was acknowledged reads back that file, with its name,      *)
(* group, content and uuid, and a slot never written, or deleted, is       *)
(* empty, whatever operations fail and wherever the device resets, unless  *)
(* a later command on it is unacknowledged or a reset came while the name  *)
(* table's or the FAT's page was at risk.                                  *)
AcknowledgedKept ==
    pc = "idle" => \A s \in Slots : ledger[s].sure =>
        IF ledger[s].last = Blank THEN ~ slot_occupied(s)
        ELSE ledger[s].last.group # 0 => Holds(s, ledger[s].last)

(* READ checks the group of the name table and opens a blob sealed for the *)
(* group of its header, two values written at different times: as long as  *)
(* no command has been cut short, READ returns only what was sealed for a  *)
(* group with the read permission.                                         *)
ReadPermitted ==
    reply.kind = "file" /\ (\A s \in Slots : ledger[s].sure) =>
        reply.body.sealed \in CanRead

(* README.md:24: "Power interruption leaves previous slot state intact".   *)
PreviousSlotStateIntact ==
    pc = "idle" => \A s \in Slots :
        ledger[s].last # Blank => slot_occupied(s) /\ blob_read_all(s)
=============================================================================
