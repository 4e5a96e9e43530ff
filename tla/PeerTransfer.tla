---------------------------- MODULE PeerTransfer ----------------------------
(***************************************************************************)
(* RECEIVE, INTERROGATE and LISTEN between two HSMs on UART1 (commands.c). *)
(*                                                                         *)
(* Each device runs one command at a time, chosen by its own host.  The    *)
(* requester's exchange is request, challenge, proof, answer; the listener *)
(* takes the other side of it.  write_packet returns MSG_OK only if the    *)
(* other device read the whole packet, and a packet is read whole or not   *)
(* at all, as UartFraming shows for calls that meet as pairs; packets that *)
(* overlap with a call that reads an earlier one are not modelled.  So a   *)
(* packet passes in one step from a device that sends to one that waits.   *)
(* Every other case is a failure of the sender, of the receiver, or of     *)
(* both on their own: a lost ACK, a lost byte, a peer that is not there.   *)
(* A wait may time out at any time, since how long the other device takes  *)
(* is not modelled.  A packet may also be read under a command that does   *)
(* not exist.                                                              *)
(*                                                                         *)
(* All devices of a deployment derive the proof keys from the same secret, *)
(* so a proof stands for the group it is made for; it verifies against the *)
(* challenge it was made over.                                             *)
(***************************************************************************)
EXTENDS ReplayCache, Sequences, FiniteSets

CONSTANTS
    Devices,       \* the two HSMs
    Slots,         \* file slots
    BadSlot,       \* any slot byte that names no slot
    Groups,        \* group ids, 0 not among them
    CanReceive,    \* per device, the groups of global_permissions with receive
    Overlapping,   \* pairs of groups whose ids have a bit in common
    Data,          \* names and contents of files
    InitialFiles,  \* per device and slot
    HostFiles,     \* what hosts write, or NoFile for delete, between transfers
    NoFile,        \* an empty slot
    Unsealed,      \* the header group of a slot that is listed but has no blob
    Nonces,        \* nonce values, 0 among them
    Nothing,       \* no command, no answer
    Noise,         \* bytes that are not a listing
    MaxCommands,   \* bound: commands in one behaviour
    MaxResets      \* bound: resets in one behaviour

(* A slot as the tables show it, and the group its blob was sealed for.    *)
Files == [group : Groups, data : Data, sealed : Groups \cup {Unsealed}]
Listings == SUBSET [slot : Slots, group : Groups]
Sessions == [slot : Slots \cup {BadSlot}, group : Groups \cup {0}, nr : Nonces, nt : Nonces]
Tuples == [nr : Nonces, nt : Nonces, group : Groups \cup {0}, op : {"receive", "interrogate"}]
Commands == [op : {"receive"}, read : Slots \cup {BadSlot}, write : Slots]
            \cup [op : {"interrogate", "listen"}]

ASSUME PeerAssumption ==
    /\ IsFiniteSet(Devices) /\ Cardinality(Devices) = 2
    /\ IsFiniteSet(Slots)
    /\ Groups \subseteq Nat \ {0}
    /\ BadSlot \notin Slots
    /\ CanReceive \in [Devices -> SUBSET Groups]
    /\ Overlapping \subseteq Groups \X Groups
    /\ InitialFiles \in [Devices -> [Slots -> Files \cup {NoFile}]]
    /\ HostFiles \subseteq Files \cup {NoFile}
    /\ NoFile \notin Files
    /\ Unsealed \notin Groups
    /\ Nonces \subseteq Nat /\ 0 \in Nonces
    /\ MaxCommands \in Nat
    /\ MaxResets \in Nat
    /\ Nothing \notin Commands \cup Files
    /\ Nothing # Noise /\ \A l \in Listings : l # Nothing

VARIABLES
    dev,     \* per device: pc, cmd, op and ses (the exchange), asks (groups of
             \* the peer's proofs), got (what the peer answered), says (the
             \* answer to the host), ring, files, and the history variable
             \* accepted, the tuples accepted since boot
    doubt,   \* per device and slot, what else a reset may leave there
    remains, \* per device and slot, the files whose blobs may still be there
    begun,   \* commands so far
    resets   \* resets so far

stored == <<doubt, remains>>
vars == <<dev, stored, begun, resets>>

Peer(d) == CHOOSE e \in Devices : e # d

Sending == {"sendRequest", "sendChallenge", "sendProof", "sendAnswer", "deny"}
Awaiting == {"awaitRequest", "awaitChallenge", "awaitProof", "awaitAnswer"}
Labels == Sending \cup Awaiting \cup {"idle", "store", "report"}
Replies == {"", "ok", "no response", "no request", "could not import", "mismatch",
            "invalid permission", "denied", "write failed", "bad type", "store failed"}

NoSession == [slot |-> BadSlot, group |-> 0, nr |-> 0, nt |-> 0]

Fail(v, why) == [v EXCEPT !.pc = "report", !.says = why]

-----------------------------------------------------------------------------
(* Packets.  Sizes are those of the packed structs of commands.h.          *)

RequestSize(op) == IF op = "receive" THEN 5 ELSE 4
ChallengeSize(op) == IF op = "receive" THEN 11 ELSE 8
ProofSize(op) == IF op = "receive" THEN 43 ELSE 281
ErrorSize(op) == IF op = "receive" THEN 21 ELSE 18
ListSize(n) == 4 + 35 * n
ResponseSize == 8276
MaxFiles == 8

(* Mutation: the listing is not filtered.                                  *)
ListingUnfiltered(v, groups) ==
    {[slot |-> s, group |-> v.files[s].group] : s \in {t \in Slots : v.files[t] # NoFile}}

ListingFor(v, groups) ==
    {[slot |-> s, group |-> v.files[s].group] :
        s \in {t \in Slots : v.files[t] # NoFile /\ v.files[t].group \in groups}}

Packet(op, size, v, groups, body) ==
    [cmd |-> op, size |-> size, ses |-> v.ses, groups |-> groups, body |-> body]

(* The packet device d is sending.  A request's 4 or 5 bytes are no file   *)
(* and no listing.                                                         *)
PacketOf(d) ==
    LET v == dev[d]
        listing == ListingFor(v, v.asks)
    IN  CASE v.pc = "sendRequest" -> Packet(v.op, RequestSize(v.op), v, {}, Noise)
          [] v.pc = "sendChallenge" -> Packet(v.op, ChallengeSize(v.op), v, {}, Noise)
          [] v.pc = "sendProof" ->
                Packet(v.op, ProofSize(v.op), v,
                       IF v.op = "receive" THEN {v.ses.group} ELSE CanReceive[d], Noise)
          [] v.pc = "sendAnswer" ->
                IF v.op = "receive"
                THEN Packet(v.op, ResponseSize, v, {}, v.files[v.ses.slot])
                ELSE Packet(v.op, ListSize(Cardinality(listing)), v, {}, listing)
          [] v.pc = "deny" -> Packet("error", ErrorSize(v.op), v, {}, Noise)

(* The longest packet a waiting device takes; a longer one is MSG_BAD_LEN. *)
Limit(v) ==
    CASE v.pc = "awaitRequest" -> ProofSize("interrogate")
      [] v.pc = "awaitChallenge" -> ChallengeSize(v.op)
      [] v.pc = "awaitProof" -> ProofSize(v.op)
      [] v.pc = "awaitAnswer" ->
            IF v.op = "receive" THEN ResponseSize ELSE ListSize(MaxFiles)

-----------------------------------------------------------------------------
(* The requester reads a packet: the next states of its device.            *)

OnChallenge(d, m) ==
    LET v == dev[d] IN
    IF m.size > Limit(v) THEN {Fail(v, "no response")}
    ELSE IF m.cmd = "error" /\ v.op = "receive" THEN {Fail(v, "could not import")}
    ELSE IF \/ m.cmd # v.op
            \/ m.size # ChallengeSize(v.op)
            \/ m.ses.nr # v.ses.nr
            \/ v.op = "receive" /\ m.ses.slot # v.ses.slot
         THEN {Fail(v, "mismatch")}
    ELSE IF v.op = "receive" /\ m.ses.group \notin CanReceive[d]
         THEN {Fail(v, "invalid permission")}
    ELSE {[v EXCEPT !.pc = "sendProof", !.ses = m.ses]}

OnAnswer(d, m) ==
    LET v == dev[d] IN
    IF m.size > Limit(v) THEN {Fail(v, "no response")}
    ELSE IF m.cmd = "error" /\ v.op = "receive" THEN {Fail(v, "could not import")}
    ELSE IF m.cmd # v.op \/ (v.op = "receive" /\ m.size # ResponseSize)
         THEN {Fail(v, "mismatch")}
    ELSE IF v.op = "receive" THEN {[v EXCEPT !.pc = "store", !.got = m.body]}
    ELSE {[v EXCEPT !.pc = "report", !.says = "ok", !.got = m.body]}

-----------------------------------------------------------------------------
(* The listener reads a packet.                                            *)

Deny(v, op) == [v EXCEPT !.pc = "deny", !.op = op, !.says = "denied"]

Occupied(v, s) == s \in Slots /\ v.files[s] # NoFile

(* A listing of no files is as long as a request, with nonce 0.            *)
NonceOf(m) == IF m.cmd = "interrogate" /\ m.body = {} THEN 0 ELSE m.ses.nr

OnRequest(d, m) ==
    LET v == dev[d]
        group == IF m.cmd = "receive" THEN v.files[m.ses.slot].group ELSE 0
    IN
    IF m.size > Limit(v) THEN {Fail(v, "no request")}
    ELSE IF m.cmd \notin {"receive", "interrogate"} THEN {Fail(v, "bad type")}
    ELSE IF \/ m.size # RequestSize(m.cmd)
            \/ m.cmd = "receive" /\ ~ Occupied(v, m.ses.slot)
         THEN {Deny(v, m.cmd)}
    ELSE {[v EXCEPT !.pc = "sendChallenge", !.op = m.cmd,
                    !.ses = [slot |-> m.ses.slot, group |-> group,
                             nr |-> NonceOf(m), nt |-> nt]] : nt \in Nonces}

TupleOf(v) == [nr |-> v.ses.nr, nt |-> v.ses.nt, group |-> v.ses.group, op |-> v.op]

(* blob_read_all_group_mask: the table's group as a mask over the header's. *)
Readable(f) == <<f.group, f.sealed>> \in Overlapping

OnProof(d, m) ==
    LET v == dev[d] IN
    IF \/ m.size > Limit(v)
       \/ m.cmd # v.op \/ m.size # ProofSize(v.op)
       \/ m.ses # v.ses
       \/ Seen(v.ring, TupleOf(v))
    THEN {Deny(v, v.op)}
    ELSE LET w == [v EXCEPT !.ring = Insert(@, TupleOf(v)), !.asks = m.groups,
                            !.accepted = Append(@, TupleOf(v))] IN
         {IF v.op = "receive" /\ ~ Readable(v.files[v.ses.slot])
          THEN Deny(w, v.op) ELSE [w EXCEPT !.pc = "sendAnswer"]}

-----------------------------------------------------------------------------
(* Packets pass, or do not.                                                *)

On(d, m) ==
    CASE dev[d].pc = "awaitRequest" -> OnRequest(d, m)
      [] dev[d].pc = "awaitChallenge" -> OnChallenge(d, m)
      [] dev[d].pc = "awaitProof" -> OnProof(d, m)
      [] dev[d].pc = "awaitAnswer" -> OnAnswer(d, m)

(* write_packet returned MSG_OK, or not.  ERROR packets are not ACKed.     *)
Sent(v) ==
    CASE v.pc = "sendRequest" -> [v EXCEPT !.pc = "awaitChallenge"]
      [] v.pc = "sendChallenge" -> [v EXCEPT !.pc = "awaitProof"]
      [] v.pc = "sendProof" -> [v EXCEPT !.pc = "awaitAnswer"]
      [] v.pc = "sendAnswer" -> [v EXCEPT !.pc = "report", !.says = "ok"]
      [] v.pc = "deny" -> [v EXCEPT !.pc = "report"]

NotSent(v) ==
    CASE v.pc \in {"sendRequest", "sendProof"} -> Fail(v, "no response")
      [] v.pc \in {"sendChallenge", "sendAnswer"} -> Fail(v, "write failed")
      [] v.pc = "deny" -> [v EXCEPT !.pc = "report"]

Deliver(d) ==
    LET e == Peer(d)
        m == PacketOf(d)
        tooLong == m.size > Limit(dev[e])
    IN  /\ dev[d].pc \in Sending
        /\ dev[e].pc \in Awaiting
        /\ \E w \in On(e, m) \cup On(e, [m EXCEPT !.cmd = "unknown"]), v \in {NotSent(dev[d])} \cup
                 IF tooLong THEN {} ELSE {Sent(dev[d])} :
              dev' = [dev EXCEPT ![d] = v, ![e] = w]
        /\ UNCHANGED <<stored, begun, resets>>

SendFails(d) ==
    /\ dev[d].pc \in Sending
    /\ dev' = [dev EXCEPT ![d] = NotSent(@)]
    /\ UNCHANGED <<stored, begun, resets>>

(* Mutations: a listener whose proof does not come waits for another       *)
(* request, or for the proof again.                                        *)
WaitFailsListens(d) ==
    /\ dev[d].pc \in Awaiting
    /\ dev' = [dev EXCEPT ![d] =
          CASE @.pc = "awaitRequest" -> Fail(@, "no request")
            [] @.pc = "awaitProof" -> [@ EXCEPT !.pc = "awaitRequest"]
            [] @.pc \in {"awaitChallenge", "awaitAnswer"} -> Fail(@, "no response")]
    /\ UNCHANGED <<stored, begun, resets>>

WaitFailsRetries(d) ==
    /\ dev[d].pc \in Awaiting
    /\ dev' = [dev EXCEPT ![d] =
          CASE @.pc = "awaitRequest" -> Fail(@, "no request")
            [] @.pc = "awaitProof" -> @
            [] @.pc \in {"awaitChallenge", "awaitAnswer"} -> Fail(@, "no response")]
    /\ UNCHANGED <<stored, begun, resets>>

(* MSG_TIMEOUT, in a gap or in the middle of a packet.                     *)
WaitFails(d) ==
    /\ dev[d].pc \in Awaiting
    /\ dev' = [dev EXCEPT ![d] =
          CASE @.pc = "awaitRequest" -> Fail(@, "no request")
            [] @.pc = "awaitProof" -> Deny(@, @.op)
            [] @.pc \in {"awaitChallenge", "awaitAnswer"} -> Fail(@, "no response")]
    /\ UNCHANGED <<stored, begun, resets>>

-----------------------------------------------------------------------------
(* Commands from and to the host, and the local store.                     *)

Begin(d, c) ==
    /\ dev[d].pc = "idle"
    /\ begun < MaxCommands
    /\ begun' = begun + 1
    /\ IF c.op = "listen"
       THEN dev' = [dev EXCEPT ![d] = [@ EXCEPT !.pc = "awaitRequest", !.cmd = c]]
       ELSE \E nr \in Nonces :
              dev' = [dev EXCEPT ![d] =
                 [@ EXCEPT !.pc = "sendRequest", !.cmd = c, !.op = c.op,
                           !.ses = [NoSession EXCEPT
                                      !.slot = IF c.op = "receive" THEN c.read ELSE BadSlot,
                                      !.nr = nr]]]
    /\ UNCHANGED <<stored, resets>>

Idle(v) == [v EXCEPT !.pc = "idle", !.cmd = Nothing, !.op = "receive", !.ses = NoSession,
                     !.asks = {}, !.got = Nothing, !.says = ""]

(* The answer to the host, after the listing if there is one.              *)
Report(d) ==
    /\ dev[d].pc = "report"
    /\ dev' = [dev EXCEPT ![d] = Idle(@)]
    /\ UNCHANGED <<stored, begun, resets>>

(* A store or a delete that completes leaves slot s of device d as it says *)
(* and rewrites both tables from RAM.                                      *)
Settle(d, s) ==
    /\ doubt' = [doubt EXCEPT ![d] = [t \in Slots |-> {}]]
    /\ remains' = [remains EXCEPT ![d][s] = {}]

Whole(v) == [v.got EXCEPT !.sealed = v.got.group]

(* store_received_blob.  What it does to flash, step by step, is SlotStore.*)
Store(d) ==
    LET v == dev[d] IN
    /\ v.pc = "store"
    /\ IF v.got.group \notin CanReceive[d]
       THEN dev' = [dev EXCEPT ![d] = Fail(v, "invalid permission")] /\ UNCHANGED stored
       ELSE /\ dev' = [dev EXCEPT ![d] = [v EXCEPT !.pc = "report", !.says = "ok",
                                                   !.files[v.cmd.write] = Whole(v)]]
            /\ Settle(d, v.cmd.write)
    /\ UNCHANGED <<begun, resets>>

(* A store that stopped half-way may have put its name and group to a blob *)
(* that was in its slot, or to none.                                       *)
UnderNewName(d) ==
    LET v == dev[d]
        blobs == (remains[d][v.cmd.write] \cup {v.files[v.cmd.write]}) \ {NoFile}
    IN  {[b EXCEPT !.group = v.got.group] : b \in blobs}
            \cup IF blobs = {} THEN {} ELSE {[v.got EXCEPT !.sealed = Unsealed]}

(* What the flash may then hold for slot s: RAM and flash may differ, and  *)
(* either table may have lost the entries of other slots.                  *)
Outcomes(d, s) ==
    {NoFile, dev[d].files[s]}
        \cup IF s = dev[d].cmd.write THEN {Whole(dev[d])} \cup UnderNewName(d) ELSE {}

Left(d, s) ==
    remains[d][s] \cup {dev[d].files[s]}
        \cup IF s = dev[d].cmd.write THEN {Whole(dev[d])} ELSE {}

(* Until a command completes, a reset may show any of it.                  *)
StoreFails(d) ==
    LET v == dev[d]
        w == v.cmd.write
    IN  /\ v.pc = "store"
        /\ \E f \in {NoFile, v.files[w]} \cup UnderNewName(d) :
              dev' = [dev EXCEPT ![d] = [Fail(v, "store failed") EXCEPT !.files[w] = f]]
        /\ doubt' = [doubt EXCEPT ![d] = [s \in Slots |-> @[s] \cup Outcomes(d, s)]]
        /\ remains' = [remains EXCEPT ![d] = [s \in Slots |-> Left(d, s)]]
        /\ UNCHANGED <<begun, resets>>

(* WRITE and DELETE that complete, as far as the other device can tell; an *)
(* empty slot is not deleted.                                              *)
HostChange(d, s, f) ==
    /\ dev[d].pc = "idle"
    /\ begun < MaxCommands
    /\ f # NoFile \/ dev[d].files[s] # NoFile
    /\ begun' = begun + 1
    /\ dev' = [dev EXCEPT ![d].files[s] = f]
    /\ Settle(d, s)
    /\ UNCHANGED resets

(* What a reset may make of slot s.                                        *)
Revealed(d, s) ==
    doubt[d][s] \cup IF dev[d].pc = "store" THEN Outcomes(d, s) ELSE {dev[d].files[s]}

(* At any time, of an idle device too.                                     *)
Reset(d) ==
    /\ resets < MaxResets
    /\ resets' = resets + 1
    /\ \E fs \in [Slots -> UNION {Revealed(d, s) : s \in Slots}] :
          /\ \A s \in Slots : fs[s] \in Revealed(d, s)
          /\ dev' = [dev EXCEPT ![d] = [Idle(@) EXCEPT !.ring = EmptyRing, !.accepted = <<>>,
                                                       !.files = fs]]
    /\ doubt' = [doubt EXCEPT ![d] = [s \in Slots |-> {}]]
    /\ remains' = IF dev[d].pc = "store"
                  THEN [remains EXCEPT ![d] = [s \in Slots |-> Left(d, s)]] ELSE remains
    /\ UNCHANGED begun

-----------------------------------------------------------------------------
Init ==
    /\ dev = [d \in Devices |->
                [pc |-> "idle", cmd |-> Nothing, op |-> "receive", ses |-> NoSession,
                 asks |-> {}, got |-> Nothing, says |-> "", ring |-> EmptyRing,
                 files |-> InitialFiles[d], accepted |-> <<>>]]
    /\ doubt = [d \in Devices |-> [s \in Slots |-> {}]]
    /\ remains = [d \in Devices |-> [s \in Slots |-> {}]]
    /\ begun = 0
    /\ resets = 0

Host(d) ==
    \/ \E c \in Commands : Begin(d, c)
    \/ \E s \in Slots, f \in HostFiles : HostChange(d, s, f)

(* What device d does with a command once it has begun.                    *)
Step(d) ==
    \/ Deliver(d)
    \/ SendFails(d)
    \/ WaitFails(d)
    \/ Store(d)
    \/ StoreFails(d)
    \/ Report(d)

Next == \E d \in Devices : Host(d) \/ Step(d) \/ Reset(d)

Spec == Init /\ [][Next]_vars /\ \A d \in Devices : WF_vars(Step(d))

-----------------------------------------------------------------------------
(* Properties                                                              *)

(* The variables have their types.                                         *)
TypeOK ==
    /\ begun \in 0 .. MaxCommands
    /\ resets \in 0 .. MaxResets
    /\ doubt \in [Devices -> [Slots -> SUBSET (Files \cup {NoFile})]]
    /\ remains \in [Devices -> [Slots -> SUBSET (Files \cup {NoFile})]]
    /\ \A d \in Devices :
        LET v == dev[d] IN
        /\ v.pc \in Labels
        /\ v.cmd \in Commands \cup {Nothing}
        /\ v.op \in {"receive", "interrogate", "error"}
        /\ v.ses \in Sessions
        /\ v.asks \in SUBSET Groups
        /\ v.got = Nothing \/ v.got = Noise
              \/ IF v.cmd.op = "receive" THEN v.got \in Files ELSE v.got \in Listings
        /\ v.says \in Replies
        /\ v.ring \in Rings(Tuples)
        /\ v.files \in [Slots -> Files \cup {NoFile}]

(* No tuple is accepted twice among the last RingSize + 1 accepted since   *)
(* boot: the ring remembers RingSize of them, across commands, and forgets *)
(* the oldest first.                                                       *)
NoReplayInWindow ==
    \A d \in Devices : \A i, j \in 1 .. Len(dev[d].accepted) :
        i < j /\ j - i <= RingSize => dev[d].accepted[i] # dev[d].accepted[j]

(* The packets and the local steps a command still has before it.          *)
StagesLeft(v) ==
    CASE v.pc = "idle" -> 0
      [] v.pc = "report" -> 1
      [] v.pc = "deny" -> 2
      [] v.pc = "store" -> 3
      [] v.pc \in {"awaitAnswer", "sendAnswer"} -> 4
      [] v.pc \in {"sendProof", "awaitProof"} -> 5
      [] v.pc \in {"awaitChallenge", "sendChallenge"} -> 6
      [] v.pc \in {"sendRequest", "awaitRequest"} -> 7

(* Whatever the other device sends, out of turn, of another exchange or    *)
(* garbled, and whatever is lost, a packet never takes a command back:     *)
(* nothing is asked or answered twice, and no two devices keep each other  *)
(* in an exchange.                                                         *)
CommandsAdvance ==
    [][\A d \in Devices :
          dev[d].pc # "idle" /\ dev'[d] # dev[d]
            => StagesLeft(dev'[d]) \in 0 .. StagesLeft(dev[d]) - 1]_vars

(* Every command ends, whatever the other device and the line do: no       *)
(* device waits for its peer for ever.                                     *)
CommandsEnd == \A d \in Devices : dev[d].pc # "idle" ~> dev[d].pc = "idle"

Requesting(v) ==
    \/ v.pc \in {"sendRequest", "awaitChallenge", "sendProof", "awaitAnswer", "store"}
       /\ v.cmd.op \in {"receive", "interrogate"}
    \/ v.pc = "report" /\ v.cmd.op = "interrogate" /\ v.got # Nothing

Exchange == INSTANCE PeerExchange WITH
    Requests <- Commands,
    Contents <- HostFiles,
    files <- [d \in Devices |-> dev[d].files],
    want <- [d \in Devices |-> IF Requesting(dev[d]) THEN dev[d].cmd ELSE Nothing],
    held <- [d \in Devices |-> IF Requesting(dev[d]) THEN dev[d].got ELSE Nothing]

(* The exchanges keep PeerExchange's promise: what a device stores is what *)
(* its peer had in the slot asked for, whole, and of a group the device    *)
(* may receive; a listing shows those files of the peer and no others; an  *)
(* exchange that fails anywhere before the store changes no file.          *)
ImplementsExchange == Exchange!Spec

(* commands.c:598: "Target explicitly denied the transfer; relay a useful  *)
(* message."                                                               *)
DenialRelayed ==
    [][\A d \in Devices :
        /\ dev[d].pc \in {"awaitChallenge", "awaitAnswer"} /\ dev[d].op = "receive"
        /\ dev[Peer(d)].pc = "deny"
        /\ dev'[d].pc = "report" /\ dev'[Peer(d)].pc = "report"
        => dev'[d].says = "could not import"]_vars
=============================================================================
