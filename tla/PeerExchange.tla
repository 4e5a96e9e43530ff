---------------------------- MODULE PeerExchange ----------------------------
(***************************************************************************)
(* What RECEIVE and INTERROGATE promise, without packets: a requester      *)
(* wants a slot of its peer, or a listing, takes what the peer has of it   *)
(* in one step, if its permissions allow, and then keeps it or not.        *)
(***************************************************************************)
EXTENDS Naturals

CONSTANTS
    Devices,
    Slots,
    CanReceive,   \* per device, the groups it may receive
    Requests,     \* [op |-> "receive", read, write] and [op |-> "interrogate"]
    Contents,     \* what hosts write or delete
    InitialFiles,
    NoFile,
    Unsealed,
    Nothing,
    Noise

VARIABLES
    files,   \* per device and slot: a file or NoFile
    want,    \* per device: [op, read, write] of its request, or Nothing
    held,    \* per device: what it took from its peer, or Nothing
    doubt,   \* per device and slot: what else a reset may leave there
    remains  \* per device and slot: files that may still be there, not listed

stored == <<doubt, remains>>
exchangeVars == <<files, want, held, stored>>

Peer(d) == CHOOSE e \in Devices : e # d

Init ==
    /\ files = InitialFiles
    /\ want = [d \in Devices |-> Nothing]
    /\ held = [d \in Devices |-> Nothing]
    /\ doubt = [d \in Devices |-> [s \in Slots |-> {}]]
    /\ remains = [d \in Devices |-> [s \in Slots |-> {}]]

Ask(d, c) ==
    /\ want[d] = Nothing
    /\ want' = [want EXCEPT ![d] = c]
    /\ UNCHANGED <<files, held, stored>>

(* The file in the slot asked for, and only if the device may receive it   *)
(* and its blob opens under its listed group.                              *)
TakeFile(d) ==
    /\ want[d] # Nothing /\ held[d] = Nothing
    /\ want[d].op = "receive"
    /\ want[d].read \in Slots
    /\ LET f == files[Peer(d)][want[d].read] IN
       /\ f # NoFile
       /\ f.group \in CanReceive[d]
       /\ f.sealed # Unsealed
       /\ held' = [held EXCEPT ![d] = f]
    /\ UNCHANGED <<files, want, stored>>

(* All the peer's files the device may receive, and no others.             *)
TakeListing(d) ==
    /\ want[d] # Nothing /\ held[d] = Nothing
    /\ want[d].op = "interrogate"
    /\ held' = [held EXCEPT ![d] =
          {[slot |-> s, group |-> files[Peer(d)][s].group] :
              s \in {t \in Slots : /\ files[Peer(d)][t] # NoFile
                                   /\ files[Peer(d)][t].group \in CanReceive[d]}}]
    /\ UNCHANGED <<files, want, stored>>

GiveUp(gone) == want' = [d \in Devices |-> IF d \in gone THEN Nothing ELSE want[d]]

(* The exception: the four bytes of a request from a peer that has given   *)
(* the exchange up are passed on as a listing.                             *)
TakeRequestForListing(d) ==
    /\ want[d] # Nothing /\ held[d] = Nothing
    /\ want[d].op = "interrogate"
    /\ want[Peer(d)] # Nothing
    /\ want[Peer(d)].op = "interrogate"
    /\ held' = [held EXCEPT ![d] = Noise]
    /\ GiveUp({}) \/ GiveUp({Peer(d)})
    /\ UNCHANGED <<files, stored>>

(* Commands that end before the store change no file.                      *)
Stop(gone) ==
    /\ gone # {}
    /\ \A d \in gone : want[d] # Nothing
    /\ GiveUp(gone)
    /\ held' = [d \in Devices |-> IF d \in gone THEN Nothing ELSE held[d]]
    /\ UNCHANGED <<files, stored>>

HasFile(d) == want[d] # Nothing /\ want[d].op = "receive" /\ held[d] # Nothing

Over(d) ==
    /\ want' = [want EXCEPT ![d] = Nothing]
    /\ held' = [held EXCEPT ![d] = Nothing]

(* Slot s is as its command says, and nothing of the device is in doubt.   *)
Settle(d, s) ==
    /\ doubt' = [doubt EXCEPT ![d] = [t \in Slots |-> {}]]
    /\ remains' = [remains EXCEPT ![d][s] = {}]

HostChange(d) ==
    /\ want[d] = Nothing
    /\ \E s \in Slots, f \in Contents : files' = [files EXCEPT ![d][s] = f] /\ Settle(d, s)
    /\ UNCHANGED <<want, held>>

Whole(d) == [held[d] EXCEPT !.sealed = held[d].group]

Keep(d) ==
    /\ HasFile(d)
    /\ files' = [files EXCEPT ![d][want[d].write] = Whole(d)]
    /\ Settle(d, want[d].write)
    /\ Over(d)

(* An earlier file of the slot under the new group, or the new one's       *)
(* entry without a blob: nothing a peer could take for the new file.       *)
Partial(d) ==
    LET earlier == (remains[d][want[d].write] \cup {files[d][want[d].write]}) \ {NoFile} IN
    {[f EXCEPT !.group = held[d].group] : f \in earlier}
        \cup IF earlier = {} THEN {} ELSE {[held[d] EXCEPT !.sealed = Unsealed]}

Possible(d, s) ==
    {NoFile, files[d][s]} \cup IF s = want[d].write THEN {Whole(d)} \cup Partial(d) ELSE {}

Leave(d) ==
    remains' = [remains EXCEPT ![d] =
       [s \in Slots |-> @[s] \cup {files[d][s]}
                            \cup IF s = want[d].write THEN {Whole(d)} ELSE {}]]

(* A store that fails touches its own slot, and leaves doubt.              *)
Spoil(d) ==
    /\ HasFile(d)
    /\ \E f \in {NoFile, files[d][want[d].write]} \cup Partial(d) :
          files' = [files EXCEPT ![d][want[d].write] = f]
    /\ doubt' = [doubt EXCEPT ![d] = [s \in Slots |-> @[s] \cup Possible(d, s)]]
    /\ Leave(d)
    /\ Over(d)

(* A reset changes a slot only if a store is cut short or left it in doubt.*)
Restart(d) ==
    LET may(s) == doubt[d][s] \cup IF HasFile(d) THEN Possible(d, s) ELSE {files[d][s]} IN
    /\ \E fs \in [Slots -> UNION {may(s) : s \in Slots}] :
          (\A s \in Slots : fs[s] \in may(s)) /\ files' = [files EXCEPT ![d] = fs]
    /\ doubt' = [doubt EXCEPT ![d] = [s \in Slots |-> {}]]
    /\ IF HasFile(d) THEN Leave(d) ELSE UNCHANGED remains
    /\ Over(d)

Next ==
    \/ \E gone \in SUBSET Devices : Stop(gone)
    \/ \E d \in Devices :
        \/ \E c \in Requests : Ask(d, c)
        \/ TakeFile(d)
        \/ TakeListing(d)
        \/ TakeRequestForListing(d)
        \/ Keep(d)
        \/ Spoil(d)
        \/ Restart(d)
        \/ HostChange(d)

Spec == Init /\ [][Next]_exchangeVars
=============================================================================
