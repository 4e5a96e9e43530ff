--------------------------- MODULE SlotDirectory ---------------------------
(***************************************************************************)
(* What the file store promises, without flash: a directory of slots, one  *)
(* command at a time, each on one slot.                                    *)
(*                                                                         *)
(* A command that is not interrupted replaces its slot's file.  One that   *)
(* fails touches no other slot, and leaves its own with no file, with the  *)
(* file it had, or with a file under the new name whose content is that of *)
(* the interrupted store or of an earlier store to the same slot; and it   *)
(* leaves doubt: what a reset may still make of each slot.  A command that *)
(* completes ends all doubt.  A reset settles it; inside a command it may  *)
(* also lose other slots' files, but it never alters one.                  *)
(***************************************************************************)
CONSTANTS
    Slots,
    Files,    \* records with fields name, group, content, sealed, uuid
    Gone,     \* no file can be read
    Unreadable, \* the groups sealed for which a file cannot be read back
    NoSlot    \* no command is in progress

VARIABLES
    dir,      \* the file each slot holds
    busy,     \* the slot a command is changing
    next,     \* what that command is to leave there
    past,     \* per slot, the files commands were to leave there so far
    doubt     \* per slot, what else a reset may leave there

dirVars == <<dir, busy, next, past, doubt>>

Certain == [s \in Slots |-> {}]

Init ==
    /\ dir = [s \in Slots |-> Gone]
    /\ busy = NoSlot
    /\ next = Gone
    /\ past = [s \in Slots |-> {}]
    /\ doubt = Certain

Begin(s, f) ==
    /\ busy = NoSlot
    /\ busy' = s
    /\ next' = f
    /\ past' = [past EXCEPT ![s] = @ \cup ({f} \ {Gone})]
    /\ UNCHANGED <<dir, doubt>>

UnderNewName ==
    IF next = Gone THEN {}
    ELSE {[name |-> next.name, group |-> next.group, uuid |-> u.uuid,
           content |-> f.content, sealed |-> f.sealed] : f, u \in past[busy]}

(* What slot s may hold once the command has failed or was cut short.      *)
Outcomes(s) == {Gone, dir[s]} \cup (IF s = busy THEN UnderNewName ELSE {})

End == busy' = NoSlot /\ next' = Gone /\ UNCHANGED past

(* What can be read of a file once it is stored.                           *)
Held(f) == IF f # Gone /\ f.sealed \in Unreadable THEN Gone ELSE f

Complete ==
    /\ busy # NoSlot
    /\ dir' = [dir EXCEPT ![busy] = Held(next)]
    /\ doubt' = Certain
    /\ End

Fail ==
    /\ busy # NoSlot
    /\ \E f \in Outcomes(busy) : dir' = [dir EXCEPT ![busy] = f]
    /\ doubt' = [s \in Slots |-> doubt[s] \cup Outcomes(s)]
    /\ End

Revealed(s) == doubt[s] \cup (IF busy = NoSlot THEN {dir[s]} ELSE Outcomes(s))

Crash ==
    /\ dir' \in [Slots -> UNION {Revealed(s) : s \in Slots}]
    /\ \A s \in Slots : dir'[s] \in Revealed(s)
    /\ doubt' = Certain
    /\ End

Next ==
    \/ \E s \in Slots, f \in Files \cup {Gone} : Begin(s, f)
    \/ Complete
    \/ Fail
    \/ Crash

Spec == Init /\ [][Next]_dirVars
=============================================================================
