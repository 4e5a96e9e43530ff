------------------------- MODULE PeerTransferProofs -------------------------
(***************************************************************************)
(* PeerTransfer for every size of the ring, set of slots, groups and       *)
(* nonces, and number of commands and resets: the replay window, the types *)
(* and the refinement of PeerExchange.                                     *)
(***************************************************************************)
EXTENDS PeerTransfer, FiniteSetTheorems, TLAPS

IsSeq(s) == s \in Seq({s[i] : i \in DOMAIN s})

Fields == {"pc", "cmd", "op", "ses", "asks", "got", "says", "ring", "files", "accepted"}

(* A device is a function on its fields.                                   *)
IsDevice(v) == v = [f \in Fields |-> v[f]]

(* Where the ring holds the tuple inserted k insertions before the last.   *)
Position(next, k) == IF next > k THEN next - 1 - k ELSE next - 1 - k + RingSize

(* The ring holds the last RingSize tuples of those accepted.              *)
RingHoldsLast(ring, accepted) ==
    /\ ring.next \in 0 .. RingSize - 1
    /\ ring.entries = [i \in 0 .. RingSize - 1 |-> ring.entries[i]]
    /\ \A k \in 0 .. RingSize - 1 : k < Len(accepted) =>
          ring.entries[Position(ring.next, k)] = accepted[Len(accepted) - k]

DistinctInWindow(accepted) ==
    \A i, j \in 1 .. Len(accepted) :
        i < j /\ j - i <= RingSize => accepted[i] # accepted[j]

DeviceInv(v) ==
    /\ IsDevice(v)
    /\ IsSeq(v.accepted)
    /\ RingHoldsLast(v.ring, v.accepted)
    /\ DistinctInWindow(v.accepted)

IInv == /\ dev = [d \in Devices |-> dev[d]]
        /\ \A d \in Devices : DeviceInv(dev[d])

(* What a step may do to a device: nothing the ring depends on, accept a   *)
(* tuple the ring does not hold, or begin again.                           *)
Keeps(v, w) == IsDevice(w) /\ w.ring = v.ring /\ w.accepted = v.accepted

Accepts(v, w) ==
    /\ IsDevice(w)
    /\ \E t : /\ ~ Seen(v.ring, t)
              /\ w.ring = Insert(v.ring, t)
              /\ w.accepted = Append(v.accepted, t)

Restarts(w) == IsDevice(w) /\ w.ring = EmptyRing /\ w.accepted = <<>>

-----------------------------------------------------------------------------
(* Append on any sequence, whatever its elements.                          *)
LEMMA AppendAny ==
    ASSUME NEW s, IsSeq(s), NEW t
    PROVE  /\ IsSeq(Append(s, t))
           /\ Len(s) \in Nat /\ Len(Append(s, t)) = Len(s) + 1
           /\ \A i \in 1 .. Len(s) : Append(s, t)[i] = s[i]
           /\ Append(s, t)[Len(s) + 1] = t
<1> DEFINE R == {s[i] : i \in DOMAIN s}
           S == R \cup {t}
           u == Append(s, t)
<1>1. s \in Seq(R) /\ s \in Seq(S)
    BY DEF IsSeq
<1>2. u \in Seq(S) /\ Len(u) = Len(s) + 1 /\ Len(s) \in Nat
    BY <1>1
<1>3. /\ \A i \in 1 .. Len(s) : u[i] = s[i]
      /\ u[Len(s) + 1] = t
    BY <1>1
<1> HIDE DEF u
<1>4. u \in Seq({u[i] : i \in DOMAIN u})
    BY <1>2
<1> QED BY <1>2, <1>3, <1>4 DEF IsSeq, u

(* The ring keeps its relation to the accepted tuples when one is inserted.*)
LEMMA InsertHoldsLast ==
    ASSUME NEW ring, NEW s, NEW t, IsSeq(s), RingHoldsLast(ring, s)
    PROVE  RingHoldsLast(Insert(ring, t), Append(s, t))
<1> DEFINE new == Insert(ring, t)
           n == Len(s)
<1>1. /\ n \in Nat /\ Len(Append(s, t)) = n + 1
      /\ \A i \in 1 .. n : Append(s, t)[i] = s[i]
      /\ Append(s, t)[n + 1] = t
    BY AppendAny
<1>2. /\ new.next = IF ring.next + 1 = RingSize THEN 0 ELSE ring.next + 1
      /\ new.entries = [ring.entries EXCEPT ![ring.next] = t]
    BY DEF Insert
<1>3. RingSize \in Nat \ {0} /\ ring.next \in 0 .. RingSize - 1
    BY RingAssumption DEF RingHoldsLast
<1>4. new.next \in 0 .. RingSize - 1
    BY <1>2, <1>3
<1>5. /\ new.entries = [i \in 0 .. RingSize - 1 |-> new.entries[i]]
      /\ new.entries[ring.next] = t
      /\ \A i \in 0 .. RingSize - 1 : i # ring.next => new.entries[i] = ring.entries[i]
    BY <1>2, <1>3 DEF RingHoldsLast
<1>6. ASSUME NEW k \in 0 .. RingSize - 1, k < n + 1
      PROVE  new.entries[Position(new.next, k)] = Append(s, t)[n + 1 - k]
    <2>1. CASE k = 0
        <3>1. Position(new.next, 0) = ring.next
            BY <1>2, <1>3 DEF Position
        <3> QED BY <2>1, <3>1, <1>1, <1>5
    <2>2. CASE k # 0
        <3>1. /\ k - 1 \in 0 .. RingSize - 1 /\ k - 1 < n
              /\ n + 1 - k \in 1 .. n /\ n - (k - 1) = n + 1 - k
            BY <2>2, <1>1, <1>3, <1>6, SMTT(60)
        <3>2. /\ Position(new.next, k) = Position(ring.next, k - 1)
              /\ Position(ring.next, k - 1) \in 0 .. RingSize - 1
              /\ Position(ring.next, k - 1) # ring.next
            BY <2>2, <1>2, <1>3 DEF Position
        <3>3. ring.entries[Position(ring.next, k - 1)] = s[n - (k - 1)]
            BY <3>1 DEF RingHoldsLast
        <3> QED BY <3>1, <3>2, <3>3, <1>1, <1>5
    <2> QED BY <2>1, <2>2
<1> DEFINE u == Append(s, t)
<1> HIDE DEF new, u
<1>7. \A k \in 0 .. RingSize - 1 : k < Len(u) =>
          new.entries[Position(new.next, k)] = u[Len(u) - k]
    BY <1>1, <1>6, SMTT(60) DEF u
<1>8. RingHoldsLast(new, u)
    BY <1>4, <1>5, <1>7 DEF RingHoldsLast
<1> QED BY <1>8 DEF new, u

(* A tuple the ring does not hold differs from the last RingSize.          *)
LEMMA InsertDistinct ==
    ASSUME NEW ring, NEW s, NEW t, IsSeq(s), RingHoldsLast(ring, s),
           DistinctInWindow(s), ~ Seen(ring, t)
    PROVE  DistinctInWindow(Append(s, t))
<1> DEFINE n == Len(s)
           u == Append(s, t)
<1>1. /\ n \in Nat /\ Len(u) = n + 1
      /\ \A i \in 1 .. n : u[i] = s[i]
      /\ u[n + 1] = t
    BY AppendAny
<1>2. RingSize \in Nat \ {0} /\ ring.next \in 0 .. RingSize - 1
    BY RingAssumption DEF RingHoldsLast
<1> HIDE DEF u
<1> SUFFICES ASSUME NEW i \in 1 .. n + 1, NEW j \in 1 .. n + 1, i < j, j - i <= RingSize
             PROVE  u[i] # u[j]
    BY <1>1 DEF DistinctInWindow, u
<1>3. CASE j \in 1 .. n
    BY <1>1, <1>3 DEF DistinctInWindow
<1>4. CASE j = n + 1
    <2>1. /\ n - i \in 0 .. RingSize - 1 /\ n - i < n
          /\ n - (n - i) = i /\ i \in 1 .. n
        BY <1>1, <1>2, <1>4
    <2>2. Position(ring.next, n - i) \in 0 .. RingSize - 1
        BY <1>2, <2>1, SMTT(60) DEF Position
    <2>3. ring.entries[Position(ring.next, n - i)] = s[i]
        BY <2>1 DEF RingHoldsLast
    <2> QED BY <2>1, <2>2, <2>3, <1>1, <1>4 DEF Seen
<1> QED BY <1>1, <1>3, <1>4

(* Each of the three keeps the invariant of a device.                      *)
LEMMA DeviceStep ==
    ASSUME NEW v, NEW w, DeviceInv(v), Keeps(v, w) \/ Accepts(v, w) \/ Restarts(w)
    PROVE  DeviceInv(w)
<1>1. CASE Keeps(v, w)
    BY <1>1 DEF Keeps, DeviceInv
<1>2. CASE Accepts(v, w)
    <2>1. PICK t : /\ ~ Seen(v.ring, t)
                   /\ w.ring = Insert(v.ring, t)
                   /\ w.accepted = Append(v.accepted, t)
        BY <1>2 DEF Accepts
    <2> QED BY <1>2, <2>1, AppendAny, InsertHoldsLast, InsertDistinct DEF DeviceInv, Accepts
<1>3. CASE Restarts(w)
    <2>1. IsSeq(<<>>) /\ Len(<<>>) = 0
        BY DEF IsSeq
    <2>2. RingHoldsLast(EmptyRing, <<>>)
        BY <2>1, RingAssumption DEF RingHoldsLast, EmptyRing
    <2> QED BY <1>3, <2>1, <2>2 DEF Restarts, DeviceInv, DistinctInWindow
<1> QED BY <1>1, <1>2, <1>3

-----------------------------------------------------------------------------
(* What the handlers do to a device.                                       *)

LEMMA HandlersKeep ==
    ASSUME NEW v, IsDevice(v), NEW why, NEW op
    PROVE  /\ Keeps(v, v)
           /\ Keeps(v, Fail(v, why))
           /\ Keeps(v, Deny(v, op))
           /\ Keeps(v, Sent(v)) \/ v.pc \notin Sending
           /\ Keeps(v, NotSent(v)) \/ v.pc \notin Sending
           /\ Keeps(v, Idle(v))
<1> USE DEF IsDevice, Fields, Keeps
<1>1. Keeps(v, v) /\ Keeps(v, Fail(v, why)) /\ Keeps(v, Deny(v, op)) /\ Keeps(v, Idle(v))
    BY ZenonT(60) DEF Fail, Deny, Idle
<1>2. Keeps(v, Sent(v)) \/ v.pc \notin Sending
    BY ZenonT(60) DEF Sent, Sending
<1>3. Keeps(v, NotSent(v)) \/ v.pc \notin Sending
    BY ZenonT(60) DEF NotSent, Sending, Fail
<1> QED BY <1>1, <1>2, <1>3

LEMMA ReadsKeep ==
    ASSUME NEW d \in Devices, NEW m, IsDevice(dev[d]), dev[d].pc \in Awaiting,
           NEW w \in On(d, m)
    PROVE  Keeps(dev[d], w) \/ Accepts(dev[d], w)
<1> DEFINE v == dev[d]
<1>1. CASE v.pc = "awaitRequest"
    <2>1. w \in OnRequest(d, m)
        BY <1>1 DEF On
    <2> QED BY <2>1, ZenonT(60) DEF OnRequest, Deny, Fail, Keeps, IsDevice, Fields
<1>2. CASE v.pc = "awaitChallenge"
    <2>1. w \in OnChallenge(d, m)
        BY <1>2 DEF On
    <2> QED BY <2>1 DEF OnChallenge, Fail, Keeps, IsDevice, Fields
<1>3. CASE v.pc = "awaitProof"
    <2> DEFINE t == TupleOf(v)
               a == [v EXCEPT !.ring = Insert(@, t), !.asks = m.groups,
                              !.accepted = Append(@, t)]
    <2>1. w \in OnProof(d, m)
        BY <1>3 DEF On
    <2>2. \/ w = Deny(v, v.op)
          \/ ~ Seen(v.ring, t) /\ (w = Deny(a, v.op) \/ w = [a EXCEPT !.pc = "sendAnswer"])
        BY <2>1 DEF OnProof
    <2> HIDE DEF t
    <2>3. /\ IsDevice(a)
          /\ a.ring = Insert(v.ring, t) /\ a.accepted = Append(v.accepted, t)
        BY DEF IsDevice, Fields
    <2> HIDE DEF a
    <2>4. /\ Keeps(a, Deny(a, v.op))
          /\ Keeps(a, [a EXCEPT !.pc = "sendAnswer"])
        BY <2>3 DEF Keeps, IsDevice, Fields, Deny
    <2>5. Keeps(v, Deny(v, v.op))
        BY HandlersKeep
    <2>6. ASSUME Keeps(a, w), ~ Seen(v.ring, t) PROVE Accepts(v, w)
        BY <2>3, <2>6 DEF Keeps, Accepts
    <2> QED BY <2>2, <2>4, <2>5, <2>6
<1>4. CASE v.pc = "awaitAnswer"
    <2>1. w \in OnAnswer(d, m)
        BY <1>4 DEF On
    <2> QED BY <2>1 DEF OnAnswer, Fail, Keeps, IsDevice, Fields
<1> QED BY <1>1, <1>2, <1>3, <1>4, SMTT(60) DEF Awaiting

-----------------------------------------------------------------------------
LEMMA InitIInv == Init => IInv
<1> SUFFICES ASSUME Init PROVE IInv
    OBVIOUS
<1>1. ASSUME NEW d \in Devices PROVE DeviceInv(dev[d])
    <2>1. Restarts(dev[d])
        BY DEF Init, Restarts, IsDevice, Fields
    <2>2. IsSeq(<<>>) /\ Len(<<>>) = 0
        BY DEF IsSeq
    <2>3. RingHoldsLast(EmptyRing, <<>>)
        BY <2>2, RingAssumption DEF RingHoldsLast, EmptyRing
    <2> QED BY <2>1, <2>2, <2>3 DEF Restarts, DeviceInv, DistinctInWindow
<1> QED BY <1>1 DEF Init, IInv

(* A step that gives one device, or two, an admissible next state.         *)
LEMMA OneSteps ==
    ASSUME IInv, NEW d \in Devices, NEW w, dev' = [dev EXCEPT ![d] = w],
           Keeps(dev[d], w) \/ Accepts(dev[d], w) \/ Restarts(w)
    PROVE  IInv'
<1>1. DeviceInv(dev[d]) /\ DeviceInv(w)
    BY DeviceStep DEF IInv
<1>2. ASSUME NEW e \in Devices PROVE DeviceInv(dev'[e])
    BY <1>1 DEF IInv
<1>3. dev' = [e \in Devices |-> dev'[e]]
    BY DEF IInv
<1> QED BY <1>2, <1>3 DEF IInv

LEMMA BothStep ==
    ASSUME IInv, NEW d \in Devices, NEW e \in Devices, NEW v, NEW w, d # e,
           dev' = [dev EXCEPT ![d] = v, ![e] = w],
           Keeps(dev[d], v), Keeps(dev[e], w) \/ Accepts(dev[e], w)
    PROVE  IInv'
<1>1. DeviceInv(v) /\ DeviceInv(w)
    BY DeviceStep DEF IInv
<1>2. ASSUME NEW c \in Devices PROVE DeviceInv(dev'[c])
    BY <1>1 DEF IInv
<1>3. dev' = [c \in Devices |-> dev'[c]]
    BY DEF IInv
<1> QED BY <1>2, <1>3 DEF IInv

(* There are two devices, so each has the other for its peer.              *)
LEMMA PeerIsOther ==
    ASSUME NEW d \in Devices
    PROVE  Peer(d) \in Devices /\ Peer(d) # d
<1>1. PICK e \in Devices : e # d
    <2> SUFFICES ASSUME \A e \in Devices : e = d PROVE FALSE
        OBVIOUS
    <2>1. Devices = {d}
        OBVIOUS
    <2>2. Cardinality({d}) = 1
        BY FS_Singleton, Zenon
    <2>3. Cardinality(Devices) = 2
        BY PeerAssumption
    <2> QED BY <2>1, <2>2, <2>3
<1> QED BY <1>1 DEF Peer

LEMMA NextIInv == IInv /\ [Next]_vars => IInv'
<1> SUFFICES ASSUME IInv, [Next]_vars PROVE IInv'
    OBVIOUS
<1>1. CASE UNCHANGED vars
    BY <1>1 DEF vars, IInv
<1> SUFFICES ASSUME NEW d \in Devices, Host(d) \/ Step(d) \/ Reset(d) PROVE IInv'
    BY <1>1 DEF Next
<1> DEFINE v == dev[d]
<1>2. IsDevice(v)
    BY DEF IInv, DeviceInv
<1>3. ASSUME NEW c \in Commands, Begin(d, c) PROVE IInv'
    <2>1. CASE c.op = "listen"
        <3> DEFINE w == [v EXCEPT !.pc = "awaitRequest", !.cmd = c]
        <3>1. dev' = [dev EXCEPT ![d] = w]
            BY <1>3, <2>1 DEF Begin
        <3>2. Keeps(v, w)
            BY <1>2 DEF Keeps, IsDevice, Fields
        <3> QED BY <3>1, <3>2, OneSteps
    <2>2. CASE c.op # "listen"
        <3>1. PICK nr \in Nonces :
                dev' = [dev EXCEPT ![d] =
                 [@ EXCEPT !.pc = "sendRequest", !.cmd = c, !.op = c.op,
                           !.ses = [NoSession EXCEPT
                                      !.slot = IF c.op = "receive" THEN c.read ELSE BadSlot,
                                      !.nr = nr]]]
            BY <1>3, <2>2 DEF Begin
        <3> DEFINE s == [NoSession EXCEPT
                            !.slot = IF c.op = "receive" THEN c.read ELSE BadSlot, !.nr = nr]
                   w == [v EXCEPT !.pc = "sendRequest", !.cmd = c, !.op = c.op, !.ses = s]
        <3>2. dev' = [dev EXCEPT ![d] = w]
            BY <3>1
        <3> HIDE DEF s
        <3>3. Keeps(v, w)
            BY <1>2 DEF Keeps, IsDevice, Fields
        <3> QED BY <3>2, <3>3, OneSteps
    <2> QED BY <2>1, <2>2
<1>4. ASSUME NEW s \in Slots, NEW f \in HostFiles, HostChange(d, s, f) PROVE IInv'
    <2> DEFINE w == [v EXCEPT !.files[s] = f]
    <2>1. dev' = [dev EXCEPT ![d] = w]
        BY <1>4 DEF HostChange, IInv
    <2>2. Keeps(v, w)
        BY <1>2 DEF Keeps, IsDevice, Fields
    <2> QED BY <2>1, <2>2, OneSteps
<1>5. CASE Deliver(d)
    <2> DEFINE e == Peer(d)
               m == PacketOf(d)
               n == [m EXCEPT !.cmd = "unknown"]
    <2>1. e \in Devices /\ e # d /\ IsDevice(dev[e])
        BY PeerIsOther DEF IInv, DeviceInv
    <2>2. PICK w \in On(e, m) \cup On(e, n), x \in {NotSent(v), Sent(v)} :
             /\ v.pc \in Sending /\ dev[e].pc \in Awaiting
             /\ dev' = [dev EXCEPT ![d] = x, ![e] = w]
        BY <1>5 DEF Deliver
    <2> HIDE DEF e, m, n
    <2>3. Keeps(v, x)
        BY <1>2, <2>2, HandlersKeep
    <2>4. Keeps(dev[e], w) \/ Accepts(dev[e], w)
        BY <2>1, <2>2, ReadsKeep
    <2> QED BY <2>1, <2>2, <2>3, <2>4, BothStep
<1>6. CASE SendFails(d)
    BY <1>2, <1>6, HandlersKeep, OneSteps DEF SendFails
<1>7. CASE WaitFails(d)
    <2> DEFINE w == CASE v.pc = "awaitRequest" -> Fail(v, "no request")
                      [] v.pc = "awaitProof" -> Deny(v, v.op)
                      [] v.pc \in {"awaitChallenge", "awaitAnswer"} -> Fail(v, "no response")
    <2>1. dev' = [dev EXCEPT ![d] = w] /\ v.pc \in Awaiting
        BY <1>7 DEF WaitFails
    <2>2. \/ w = Fail(v, "no request")
          \/ w = Deny(v, v.op)
          \/ w = Fail(v, "no response")
        BY <2>1 DEF Awaiting
    <2>3. Keeps(v, w)
        BY <1>2, <2>2, HandlersKeep
    <2> HIDE DEF w
    <2> QED BY <2>1, <2>3, OneSteps
<1>8. CASE Store(d)
    <2> DEFINE f == [v.files EXCEPT ![v.cmd.write] = Whole(v)]
               w == IF v.got.group \notin CanReceive[d] THEN Fail(v, "invalid permission")
                    ELSE [v EXCEPT !.pc = "report", !.says = "ok", !.files = f]
    <2>1. dev' = [dev EXCEPT ![d] = w]
        BY <1>8, ZenonT(60) DEF Store
    <2> HIDE DEF f
    <2>2. Keeps(v, w)
        BY <1>2, ZenonT(60) DEF Keeps, IsDevice, Fields, Fail
    <2> QED BY <2>1, <2>2, OneSteps
<1>9. CASE StoreFails(d)
    <2>1. PICK f : dev' = [dev EXCEPT ![d] =
                              [Fail(v, "store failed") EXCEPT !.files[v.cmd.write] = f]]
        BY <1>9 DEF StoreFails
    <2> DEFINE w == [Fail(v, "store failed") EXCEPT !.files[v.cmd.write] = f]
    <2>2. Keeps(v, w)
        BY <1>2 DEF Keeps, IsDevice, Fields, Fail
    <2> QED BY <2>1, <2>2, OneSteps
<1>10. CASE Report(d)
    BY <1>2, <1>10, HandlersKeep, OneSteps DEF Report
<1>11. CASE Reset(d)
    <2>1. PICK fs : dev' = [dev EXCEPT ![d] =
              [Idle(v) EXCEPT !.ring = EmptyRing, !.accepted = <<>>, !.files = fs]]
        BY <1>11, ZenonT(60) DEF Reset
    <2> DEFINE w == [Idle(v) EXCEPT !.ring = EmptyRing, !.accepted = <<>>, !.files = fs]
    <2>2. Restarts(w)
        BY <1>2, ZenonT(60) DEF Restarts, IsDevice, Fields, Idle
    <2> QED BY <2>1, <2>2, OneSteps
<1> QED BY <1>3, <1>4, <1>5, <1>6, <1>7, <1>8, <1>9, <1>10, <1>11 DEF Host, Step

(* secure_design.c:75: in every run, a device accepts no tuple it has      *)
(* accepted among its last RingSize since it booted, however many          *)
(* commands, failures and resets lie between.                              *)
THEOREM NoReplay == Spec => []NoReplayInWindow
<1>1. IInv => NoReplayInWindow
    BY DEF IInv, DeviceInv, DistinctInWindow, NoReplayInWindow
<1> QED BY InitIInv, NextIInv, <1>1, PTL DEF Spec

-----------------------------------------------------------------------------
(***************************************************************************)
(* The exchange itself.  What a device holds besides its types follows     *)
(* from its own steps, except for two facts about both devices: nobody     *)
(* sends a proof or a challenge to a device that awaits the answer, and    *)
(* the listener that answers a RECEIVE answers the very session of the     *)
(* requester that awaits it.                                               *)
(***************************************************************************)
Requester == {"sendRequest", "awaitChallenge", "sendProof", "awaitAnswer", "store"}
Listener == {"awaitRequest", "sendChallenge", "awaitProof", "sendAnswer", "deny"}

Typed(v) ==
    /\ v.pc \in Labels
    /\ v.op \in {"receive", "interrogate"}
    /\ v.ses \in Sessions
    /\ v.asks \in SUBSET Groups
    /\ v.says \in Replies
    /\ v.ring \in Rings(Tuples)
    /\ v.files \in [Slots -> Files \cup {NoFile}]

(* The command a device runs, and what it has been given.                  *)
Busy(v) ==
    /\ v.pc = "idle" => v.cmd = Nothing
    /\ v.pc # "idle" => v.cmd \in Commands
    /\ v.pc \in Requester => v.cmd.op = v.op
    /\ v.pc \in Listener => v.cmd.op = "listen"
    /\ v.pc \notin {"store", "report"} => v.got = Nothing
    /\ v.pc = "store" => v.op = "receive" /\ v.got \in Files
    /\ v.pc = "report" =>
          \/ v.got = Nothing
          \/ v.cmd.op = "receive" /\ v.got \in Files
          \/ v.cmd.op = "interrogate" /\ (v.got = Noise \/ v.got \in Listings)

(* What has been checked by the time a device is where it is.              *)
Checked(d, v) ==
    /\ v.pc \in Requester /\ v.op = "receive" => v.ses.slot = v.cmd.read
    /\ v.pc \in {"sendProof", "awaitAnswer"} /\ v.op = "receive" =>
          v.ses.group \in CanReceive[d]
    /\ v.pc \in {"sendChallenge", "awaitProof", "sendAnswer"} /\ v.op = "receive" =>
          Occupied(v, v.ses.slot) /\ v.files[v.ses.slot].group = v.ses.group
    /\ v.pc = "sendAnswer" =>
          IF v.op = "receive" THEN Readable(v.files[v.ses.slot])
          ELSE v.asks = CanReceive[Peer(d)]

Local(d, v) == IsDevice(v) /\ Typed(v) /\ Busy(v) /\ Checked(d, v)

Paired(v, w) ==
    v.pc = "awaitAnswer" =>
        /\ w.pc \notin {"sendProof", "sendChallenge"}
        /\ w.pc = "sendAnswer" /\ v.op = "receive" /\ w.op = "receive" => w.ses = v.ses

Locals == /\ dev = [d \in Devices |-> dev[d]]
          /\ \A d \in Devices : Local(d, dev[d])

Pairs == \A d \in Devices : Paired(dev[d], dev[Peer(d)])

StoredTypes ==
    /\ doubt \in [Devices -> [Slots -> SUBSET (Files \cup {NoFile})]]
    /\ remains \in [Devices -> [Slots -> SUBSET (Files \cup {NoFile})]]

ExchangeInv ==
    /\ begun \in 0 .. MaxCommands /\ resets \in 0 .. MaxResets
    /\ StoredTypes
    /\ Locals
    /\ Pairs

(* What a device can tell of a packet from its command and size.           *)
IsPacket(d, u, n) ==
    /\ n.ses = u.ses
    /\ n.groups \in SUBSET Groups
    /\ n.cmd \in {"receive", "interrogate"} =>
          /\ n.cmd = u.op /\ u.pc \in Sending \ {"deny"}
          /\ u.pc = "sendRequest" => n.size = RequestSize(n.cmd)
          /\ u.pc = "sendChallenge" => n.size = ChallengeSize(n.cmd)
          /\ u.pc = "sendProof" =>
                /\ n.size = ProofSize(n.cmd)
                /\ n.cmd = "interrogate" => n.groups = CanReceive[d]
          /\ u.pc = "sendAnswer" =>
                IF n.cmd = "receive" THEN n.size = ResponseSize /\ n.body = u.files[u.ses.slot]
                ELSE /\ n.body = ListingFor(u, u.asks)
                     /\ \E k \in Nat : n.size = ListSize(k)
          /\ u.pc # "sendAnswer" => n.body = Noise

LEMMA PeerOfPeer ==
    ASSUME NEW d \in Devices
    PROVE  Peer(Peer(d)) = d /\ Devices = {d, Peer(d)}
<1> DEFINE e == Peer(d)
<1>1. e \in Devices /\ e # d
    BY PeerIsOther
<1> HIDE DEF e
<1>2. IsFiniteSet(Devices) /\ Cardinality(Devices) = 2
    BY PeerAssumption
<1>3. IsFiniteSet(Devices \ {d}) /\ Cardinality(Devices \ {d}) = 1
    BY <1>2, FS_RemoveElement
<1>4. IsFiniteSet((Devices \ {d}) \ {e}) /\ Cardinality((Devices \ {d}) \ {e}) = 0
    BY <1>1, <1>3, FS_RemoveElement
<1>5. (Devices \ {d}) \ {e} = {}
    BY <1>4, FS_EmptySet
<1>6. Devices = {d, e}
    BY <1>1, <1>5
<1>7. Peer(e) \in Devices /\ Peer(e) # e
    BY <1>1, PeerIsOther
<1> QED BY <1>6, <1>7 DEF e

(* A listing has some number of lines.                                     *)
LEMMA ListingIsFinite ==
    ASSUME NEW u, NEW groups
    PROVE  Cardinality(ListingFor(u, groups)) \in Nat
<1> DEFINE listing == ListingFor(u, groups)
           named == {t \in Slots : u.files[t] # NoFile /\ u.files[t].group \in groups}
           line(s) == [slot |-> s, group |-> u.files[s].group]
           f == [s \in named |-> line(s)]
<1>1. IsFiniteSet(named)
    <2>1. named \subseteq Slots
        OBVIOUS
    <2> HIDE DEF named
    <2> QED BY <2>1, PeerAssumption, FS_Subset
<1>2. listing = {line(s) : s \in named}
    BY DEF ListingFor
<1> HIDE DEF named, line
<1>3. f \in Surjection(named, {line(s) : s \in named})
    BY DEF Surjection
<1>4. IsFiniteSet(listing)
    BY <1>1, <1>2, <1>3, FS_Surjection
<1> QED BY <1>4, FS_CardinalityType

LEMMA PacketIs ==
    ASSUME NEW d \in Devices, Local(d, dev[d]), dev[d].pc \in Sending,
           NEW n \in {PacketOf(d), [PacketOf(d) EXCEPT !.cmd = "unknown"]}
    PROVE  IsPacket(d, dev[d], n)
<1> DEFINE u == dev[d]
           m == PacketOf(d)
<1>1. u.op \in {"receive", "interrogate"}
    BY DEF Local, Typed
<1>2. CanReceive[d] \in SUBSET Groups
    BY PeerAssumption
<1>3. CASE u.pc = "sendRequest"
    <2>1. m = Packet(u.op, RequestSize(u.op), u, {}, Noise)
        BY <1>3 DEF PacketOf
    <2>2. /\ n.ses = u.ses /\ n.groups = {}
          /\ n.cmd = "unknown" \/ (n.cmd = u.op /\ n.size = RequestSize(u.op) /\ n.body = Noise)
        BY <2>1 DEF Packet
    <2> QED BY <1>1, <1>3, <2>2 DEF IsPacket, Sending
<1>4. CASE u.pc = "sendChallenge"
    <2>1. m = Packet(u.op, ChallengeSize(u.op), u, {}, Noise)
        BY <1>4 DEF PacketOf
    <2>2. /\ n.ses = u.ses /\ n.groups = {}
          /\ n.cmd = "unknown" \/ (n.cmd = u.op /\ n.size = ChallengeSize(u.op) /\ n.body = Noise)
        BY <2>1 DEF Packet
    <2> QED BY <1>1, <1>4, <2>2 DEF IsPacket, Sending
<1>5. CASE u.pc = "sendProof"
    <2> DEFINE groups == IF u.op = "receive" THEN {u.ses.group} ELSE CanReceive[d]
    <2>1. m = Packet(u.op, ProofSize(u.op), u, groups, Noise)
        BY <1>5 DEF PacketOf
    <2>2. u.op = "receive" => u.ses.group \in Groups
        BY <1>2, <1>5 DEF Local, Checked
    <2>3. /\ groups \in SUBSET Groups
          /\ u.op = "interrogate" => groups = CanReceive[d]
        BY <1>1, <1>2, <2>2
    <2> HIDE DEF groups
    <2>4. /\ n.ses = u.ses /\ n.groups = groups
          /\ n.cmd = "unknown" \/ (n.cmd = u.op /\ n.size = ProofSize(u.op) /\ n.body = Noise)
        BY <2>1 DEF Packet
    <2> QED BY <1>1, <1>5, <2>3, <2>4 DEF IsPacket, Sending
<1>6. CASE u.pc = "sendAnswer" /\ u.op = "receive"
    <2>1. m = Packet(u.op, ResponseSize, u, {}, u.files[u.ses.slot])
        BY <1>6 DEF PacketOf
    <2>2. /\ n.ses = u.ses /\ n.groups = {}
          /\ \/ n.cmd = "unknown"
             \/ n.cmd = u.op /\ n.size = ResponseSize /\ n.body = u.files[u.ses.slot]
        BY <2>1 DEF Packet
    <2> QED BY <1>6, <2>2 DEF IsPacket, Sending
<1>7. CASE u.pc = "sendAnswer" /\ u.op = "interrogate"
    <2> DEFINE listing == ListingFor(u, u.asks)
               k == Cardinality(listing)
    <2>1. m = Packet(u.op, ListSize(k), u, {}, listing)
        BY <1>7 DEF PacketOf
    <2>2. k \in Nat
        BY ListingIsFinite
    <2> HIDE DEF k
    <2>3. /\ n.ses = u.ses /\ n.groups = {}
          /\ n.cmd = "unknown" \/ (n.cmd = u.op /\ n.size = ListSize(k) /\ n.body = listing)
        BY <2>1 DEF Packet
    <2> QED BY <1>7, <2>2, <2>3 DEF IsPacket, Sending
<1>8. CASE u.pc = "deny"
    <2>1. m = Packet("error", ErrorSize(u.op), u, {}, Noise)
        BY <1>8 DEF PacketOf
    <2>2. n.ses = u.ses /\ n.groups = {} /\ n.cmd \in {"unknown", "error"}
        BY <2>1 DEF Packet
    <2> QED BY <2>2 DEF IsPacket
<1> QED BY <1>1, <1>3, <1>4, <1>5, <1>6, <1>7, <1>8 DEF Sending

-----------------------------------------------------------------------------
(* The ways a device goes on, each with what it keeps.                     *)

(* Nothing a file or a promise to the host depends on.                     *)
Same(v, w) == w.cmd = v.cmd /\ w.got = v.got /\ w.files = v.files

LEMMA FailLocal ==
    ASSUME NEW d \in Devices, NEW v, Local(d, v), v.pc \in Requester \cup Listener,
           NEW why \in Replies
    PROVE  LET w == Fail(v, why) IN Local(d, w) /\ Same(v, w) /\ w.pc = "report"
<1> DEFINE w == Fail(v, why)
<1>1. /\ IsDevice(w) /\ w.pc = "report" /\ w.says = why
      /\ w.cmd = v.cmd /\ w.op = v.op /\ w.ses = v.ses /\ w.asks = v.asks
      /\ w.got = v.got /\ w.ring = v.ring /\ w.files = v.files
    BY DEF Local, IsDevice, Fields, Fail
<1> HIDE DEF w
<1>2. Typed(w)
    BY <1>1 DEF Local, Typed, Labels
<1>3. Busy(w) /\ Checked(d, w)
    BY <1>1 DEF Local, Busy, Checked, Requester, Listener
<1> QED BY <1>1, <1>2, <1>3 DEF Local, Same, w

LEMMA DenyLocal ==
    ASSUME NEW d \in Devices, NEW v, Local(d, v), v.pc \in Listener,
           NEW op \in {"receive", "interrogate"}
    PROVE  LET w == Deny(v, op) IN Local(d, w) /\ Same(v, w) /\ w.pc = "deny"
<1> DEFINE w == Deny(v, op)
<1>1. /\ IsDevice(w) /\ w.pc = "deny" /\ w.op = op /\ w.says = "denied"
      /\ w.cmd = v.cmd /\ w.ses = v.ses /\ w.asks = v.asks
      /\ w.got = v.got /\ w.ring = v.ring /\ w.files = v.files
    BY DEF Local, IsDevice, Fields, Deny
<1> HIDE DEF w
<1>2. Typed(w)
    BY <1>1 DEF Local, Typed, Labels, Sending, Replies
<1>3. Busy(w) /\ Checked(d, w)
    BY <1>1 DEF Local, Busy, Checked, Requester, Listener
<1> QED BY <1>1, <1>2, <1>3 DEF Local, Same, w

-----------------------------------------------------------------------------
(* The four reads.                                                         *)

LEMMA Inserted ==
    ASSUME NEW ring \in Rings(Tuples), NEW t \in Tuples
    PROVE  Insert(ring, t) \in Rings(Tuples)
<1>1. /\ RingSize \in Nat \ {0} /\ ring.next \in 0 .. RingSize - 1
      /\ ring.entries \in [0 .. RingSize - 1 -> Tuples \cup {NoTuple}]
    BY RingAssumption DEF Rings
<1>2. (IF ring.next + 1 = RingSize THEN 0 ELSE ring.next + 1) \in 0 .. RingSize - 1
    BY <1>1, SMTT(60)
<1>3. [ring.entries EXCEPT ![ring.next] = t] \in [0 .. RingSize - 1 -> Tuples \cup {NoTuple}]
    BY <1>1, SMTT(60)
<1> QED BY <1>2, <1>3 DEF Insert, Rings

LEMMA RequestRead ==
    ASSUME NEW d \in Devices, Local(d, dev[d]), dev[d].pc = "awaitRequest",
           NEW e, NEW u, Typed(u), NEW n, IsPacket(e, u, n),
           NEW w \in OnRequest(d, n)
    PROVE  /\ Local(d, w) /\ Same(dev[d], w)
           /\ w.pc \in {"report", "deny", "sendChallenge"}
           /\ w.pc = "sendChallenge" =>
                n.cmd \in {"receive", "interrogate"} /\ n.size = RequestSize(n.cmd)
<1> DEFINE v == dev[d]
           group == IF n.cmd = "receive" THEN v.files[n.ses.slot].group ELSE 0
<1>0. v.pc # "idle" /\ v.pc \in Listener /\ v.got = Nothing
    BY DEF Local, Busy, Listener
<1>9. ASSUME NEW why \in Replies
      PROVE  LET x == Fail(v, why) IN Local(d, x) /\ Same(v, x) /\ x.pc = "report"
    BY <1>0, FailLocal
<1>1. CASE w = Fail(v, "no request") \/ w = Fail(v, "bad type")
    <2>1. "no request" \in Replies /\ "bad type" \in Replies
        BY DEF Replies
    <2> QED BY <1>1, <1>9, <2>1
<1>2. CASE n.cmd \in {"receive", "interrogate"} /\ w = Deny(v, n.cmd)
    BY <1>0, <1>2, DenyLocal
<1>3. ASSUME NEW nt \in Nonces,
             n.cmd \in {"receive", "interrogate"}, n.size = RequestSize(n.cmd),
             n.cmd = "receive" => Occupied(v, n.ses.slot),
             w = [v EXCEPT !.pc = "sendChallenge", !.op = n.cmd,
                           !.ses = [slot |-> n.ses.slot, group |-> group,
                                    nr |-> NonceOf(n), nt |-> nt]]
      PROVE  Local(d, w) /\ Same(v, w) /\ w.pc = "sendChallenge"
    <2> DEFINE ses == [slot |-> n.ses.slot, group |-> group, nr |-> NonceOf(n), nt |-> nt]
    <2>1. group \in Groups \cup {0} /\ (n.cmd = "receive" => group = v.files[n.ses.slot].group)
        <3>1. ASSUME n.cmd = "receive" PROVE group \in Groups
            <4>1. v.files[n.ses.slot] \in Files
                BY <1>3, <3>1 DEF Occupied, Local, Typed
            <4> QED BY <3>1, <4>1 DEF Files
        <3> QED BY <3>1
    <2>2. n.ses \in Sessions
        BY DEF IsPacket, Typed
    <2>3. NonceOf(n) \in Nonces
        BY <2>2, PeerAssumption, SMTT(60) DEF NonceOf, Sessions
    <2>4. ses \in Sessions /\ ses.slot = n.ses.slot /\ ses.group = group
        BY <1>3, <2>1, <2>2, <2>3, SMTT(60) DEF Sessions
    <2> HIDE DEF ses, group
    <2>5. /\ IsDevice(w) /\ w.pc = "sendChallenge" /\ w.op = n.cmd /\ w.ses = ses
          /\ w.says = v.says /\ w.cmd = v.cmd /\ w.asks = v.asks
          /\ w.got = v.got /\ w.ring = v.ring /\ w.files = v.files
        BY <1>3 DEF Local, IsDevice, Fields, ses, group
    <2>6. Typed(w)
        BY <1>3, <2>4, <2>5 DEF Local, Typed, Labels, Sending
    <2>7. Busy(w)
        BY <1>0, <2>5 DEF Local, Busy, Requester, Listener
    <2>8. Checked(d, w)
        BY <1>3, <2>1, <2>4, <2>5 DEF Checked, Requester, Occupied
    <2> QED BY <2>5, <2>6, <2>7, <2>8 DEF Local, Same
<1> QED BY <1>1, <1>2, <1>3, ZenonT(60) DEF OnRequest

LEMMA ChallengeRead ==
    ASSUME NEW d \in Devices, Local(d, dev[d]), dev[d].pc = "awaitChallenge",
           NEW e, NEW u, Typed(u), NEW n, IsPacket(e, u, n),
           NEW w \in OnChallenge(d, n)
    PROVE  /\ Local(d, w) /\ Same(dev[d], w)
           /\ \/ w.pc = "report"
              \/ /\ w.pc = "sendProof"
                 /\ n.cmd \in {"receive", "interrogate"} /\ n.size = ChallengeSize(n.cmd)
<1> DEFINE v == dev[d]
<1>0. v.pc # "idle" /\ v.pc \in Requester /\ v.got = Nothing
    BY DEF Local, Busy, Requester
<1>9. ASSUME NEW why \in Replies
      PROVE  LET x == Fail(v, why) IN Local(d, x) /\ Same(v, x) /\ x.pc = "report"
    BY <1>0, FailLocal
<1>1. CASE \E why \in Replies : w = Fail(v, why)
    BY <1>1, <1>9
<1>2. ASSUME n.cmd = v.op, n.size = ChallengeSize(v.op),
             v.op = "receive" => n.ses.slot = v.ses.slot /\ n.ses.group \in CanReceive[d],
             w = [v EXCEPT !.pc = "sendProof", !.ses = n.ses]
      PROVE  Local(d, w) /\ Same(v, w) /\ w.pc = "sendProof"
    <2>1. n.ses \in Sessions
        BY DEF IsPacket, Typed
    <2>2. /\ IsDevice(w) /\ w.pc = "sendProof" /\ w.op = v.op /\ w.ses = n.ses
          /\ w.says = v.says /\ w.cmd = v.cmd /\ w.asks = v.asks
          /\ w.got = v.got /\ w.ring = v.ring /\ w.files = v.files
        BY <1>2 DEF Local, IsDevice, Fields
    <2>3. Typed(w)
        BY <2>1, <2>2 DEF Local, Typed, Labels, Sending
    <2>4. Busy(w)
        BY <1>0, <2>2 DEF Local, Busy, Requester, Listener
    <2>5. Checked(d, w)
        BY <1>0, <1>2, <2>2 DEF Local, Checked, Requester
    <2> QED BY <2>2, <2>3, <2>4, <2>5 DEF Local, Same
<1>3. v.op \in {"receive", "interrogate"}
    BY DEF Local, Typed
<1>4. {"no response", "could not import", "mismatch", "invalid permission"} \subseteq Replies
    BY DEF Replies
<1> QED BY <1>1, <1>2, <1>3, <1>4 DEF OnChallenge

LEMMA ProofRead ==
    ASSUME NEW d \in Devices, Local(d, dev[d]), dev[d].pc = "awaitProof",
           NEW u, Typed(u), NEW n, IsPacket(Peer(d), u, n), Local(Peer(d), u),
           NEW w \in OnProof(d, n)
    PROVE  /\ Local(d, w) /\ Same(dev[d], w)
           /\ \/ w.pc = "deny"
              \/ w.pc = "sendAnswer" /\ w.ses = u.ses
<1> DEFINE v == dev[d]
           t == TupleOf(v)
           a == [v EXCEPT !.ring = Insert(@, t), !.asks = n.groups,
                          !.accepted = Append(@, t)]
<1>0. v.pc # "idle" /\ v.pc \in Listener /\ v.got = Nothing
      /\ v.op \in {"receive", "interrogate"} /\ v.ses \in Sessions /\ v.ring \in Rings(Tuples)
    BY DEF Local, Busy, Typed, Listener
<1>1. CASE w = Deny(v, v.op)
    BY <1>0, <1>1, DenyLocal
<1>2. ASSUME n.cmd = v.op, n.size = ProofSize(v.op), n.ses = v.ses
      PROVE  /\ Local(d, a) /\ Same(v, a) /\ a.pc = "awaitProof" /\ a.op = v.op
             /\ a.ses = u.ses /\ a.got = Nothing
             /\ v.op = "interrogate" => a.asks = CanReceive[Peer(d)]
    <2>1. n.groups \in SUBSET Groups /\ n.ses = u.ses
        BY DEF IsPacket
    <2>2. ASSUME v.op = "interrogate" PROVE n.groups = CanReceive[Peer(d)]
        <3>1. u.pc = "sendProof" \/ n.size # 281
            <4>1. u.pc \in Sending \ {"deny"} /\ n.cmd = "interrogate"
                BY <1>2, <2>2 DEF IsPacket
            <4>2. u.pc = "sendRequest" => n.size = 4
                BY <4>1 DEF IsPacket, RequestSize
            <4>3. u.pc = "sendChallenge" => n.size = 8
                BY <4>1 DEF IsPacket, ChallengeSize
            <4>4. u.pc = "sendAnswer" => n.size # 281
                <5> SUFFICES ASSUME u.pc = "sendAnswer" PROVE n.size # 281
                    OBVIOUS
                <5>1. PICK k \in Nat : n.size = 4 + 35 * k
                    BY <4>1 DEF IsPacket, ListSize
                <5>2. 35 * k # 277
                    OBVIOUS
                <5> QED BY <5>1, <5>2
            <4> QED BY <4>1, <4>2, <4>3, <4>4 DEF Sending
        <3>2. n.size = 281
            BY <1>2, <2>2 DEF ProofSize
        <3> QED BY <1>2, <2>2, <3>1, <3>2 DEF IsPacket
    <2>3. t \in Tuples
        BY <1>0 DEF TupleOf, Tuples, Sessions
    <2> HIDE DEF t
    <2>4. Insert(v.ring, t) \in Rings(Tuples)
        BY <1>0, <2>3, Inserted
    <2>5. /\ IsDevice(a) /\ a.pc = v.pc /\ a.op = v.op /\ a.ses = v.ses
          /\ a.says = v.says /\ a.cmd = v.cmd /\ a.asks = n.groups
          /\ a.got = v.got /\ a.ring = Insert(v.ring, t) /\ a.files = v.files
        BY DEF Local, IsDevice, Fields
    <2> HIDE DEF a
    <2>6. Typed(a)
        BY <2>1, <2>4, <2>5 DEF Local, Typed
    <2>7. Busy(a)
        BY <2>5 DEF Local, Busy
    <2>8. Checked(d, a)
        BY <2>5 DEF Local, Checked, Requester, Occupied
    <2> QED BY <1>0, <1>2, <2>1, <2>2, <2>5, <2>6, <2>7, <2>8 DEF Local, Same
<1>3. CASE n.cmd = v.op /\ n.size = ProofSize(v.op) /\ n.ses = v.ses
           /\ w \in {Deny(a, v.op), [a EXCEPT !.pc = "sendAnswer"]}
           /\ (v.op = "receive" /\ ~ Readable(v.files[v.ses.slot]) => w = Deny(a, v.op))
    <2>1. /\ Local(d, a) /\ Same(v, a) /\ a.pc = "awaitProof" /\ a.op = v.op
          /\ a.ses = u.ses /\ a.got = Nothing
          /\ v.op = "interrogate" => a.asks = CanReceive[Peer(d)]
        BY <1>2, <1>3
    <2>2. a.ses = v.ses
        BY <1>3, <2>1 DEF IsPacket
    <2> HIDE DEF a
    <2>3. CASE w = Deny(a, v.op)
        <3>1. a.pc \in Listener
            BY <2>1 DEF Listener
        <3>2. Local(d, w) /\ Same(a, w) /\ w.pc = "deny"
            BY <1>0, <2>1, <2>3, <3>1, DenyLocal
        <3> QED BY <2>1, <3>2 DEF Same
    <2>4. CASE w = [a EXCEPT !.pc = "sendAnswer"] /\ w # Deny(a, v.op)
        <3>1. /\ IsDevice(w) /\ w.pc = "sendAnswer" /\ w.op = a.op /\ w.ses = a.ses
              /\ w.says = a.says /\ w.cmd = a.cmd /\ w.asks = a.asks
              /\ w.got = a.got /\ w.ring = a.ring /\ w.files = a.files
            BY <2>1, <2>4 DEF Local, IsDevice, Fields
        <3>2. Typed(w)
            BY <2>1, <3>1 DEF Local, Typed, Labels, Sending
        <3>3. Busy(w)
            BY <2>1, <3>1, SMTT(60) DEF Local, Busy, Requester, Listener
        <3>4. Checked(d, w)
            BY <1>0, <1>3, <2>1, <2>2, <2>4, <3>1 DEF Local, Checked, Requester, Occupied, Same
        <3> QED BY <2>1, <3>1, <3>2, <3>3, <3>4 DEF Local, Same
    <2> QED BY <1>3, <2>3, <2>4
<1> QED BY <1>1, <1>3 DEF OnProof

LEMMA AnswerRead ==
    ASSUME NEW d \in Devices, Local(d, dev[d]), dev[d].pc = "awaitAnswer",
           NEW e, NEW u, Local(e, u), NEW n, IsPacket(e, u, n), u.pc \in Sending,
           Paired(dev[d], u),
           NEW w \in OnAnswer(d, n)
    PROVE  /\ Local(d, w) /\ w.cmd = dev[d].cmd /\ w.files = dev[d].files
           /\ \/ w.pc = "report" /\ w.got = Nothing
              \/ /\ dev[d].op = "receive" /\ u.op = "receive"
                 /\ u.pc = "sendAnswer" /\ u.ses = dev[d].ses
                 /\ w.pc = "store" /\ w.got = u.files[u.ses.slot]
              \/ /\ dev[d].op = "interrogate" /\ u.op = "interrogate"
                 /\ w.pc = "report" /\ w.got # Nothing
                 /\ \/ u.pc = "sendAnswer" /\ w.got = ListingFor(u, u.asks)
                    \/ u.pc = "sendRequest" /\ w.got = Noise
<1> DEFINE v == dev[d]
<1>0. v.pc # "idle" /\ v.pc \in Requester /\ v.got = Nothing /\ v.cmd.op = v.op
      /\ v.op \in {"receive", "interrogate"}
    BY DEF Local, Busy, Requester, Typed
<1>9. ASSUME NEW why \in Replies
      PROVE  LET x == Fail(v, why) IN Local(d, x) /\ Same(v, x) /\ x.pc = "report"
    BY <1>0, FailLocal
<1>1. CASE \E why \in Replies : w = Fail(v, why)
    BY <1>0, <1>1, <1>9 DEF Same
<1>2. ASSUME NEW pc \in {"store", "report"}, NEW says \in Replies, NEW got,
             w.pc = pc, IsDevice(w), w.op = v.op, w.ses = v.ses,
             w.says \in Replies, w.cmd = v.cmd, w.asks = v.asks,
             w.got = got, w.ring = v.ring, w.files = v.files,
             pc = "store" => v.op = "receive" /\ got \in Files,
             pc = "report" => v.op = "interrogate" /\ (got = Noise \/ got \in Listings)
      PROVE  Local(d, w) /\ w.cmd = v.cmd /\ w.files = v.files
    <2>1. Typed(w)
        BY <1>2 DEF Local, Typed, Labels
    <2>2. Busy(w)
        BY <1>0, <1>2 DEF Local, Busy, Requester, Listener
    <2>3. Checked(d, w)
        BY <1>0, <1>2 DEF Local, Checked, Requester
    <2> QED BY <1>2, <2>1, <2>2, <2>3 DEF Local
<1>3. CASE v.op = "receive" /\ n.cmd = v.op /\ n.size = ResponseSize
           /\ w = [v EXCEPT !.pc = "store", !.got = n.body]
    <2>1. u.op = "receive" /\ u.pc = "sendAnswer"
        BY <1>3 DEF IsPacket, RequestSize, ChallengeSize, ProofSize, ResponseSize, Sending
    <2>2. n.body = u.files[u.ses.slot] /\ u.ses = v.ses
        BY <1>3, <2>1 DEF IsPacket, Paired
    <2>3. n.body \in Files
        BY <2>1, <2>2 DEF Local, Typed, Checked, Occupied
    <2>4. /\ IsDevice(w) /\ w.pc = "store" /\ w.op = v.op /\ w.ses = v.ses
          /\ w.says = v.says /\ w.cmd = v.cmd /\ w.asks = v.asks
          /\ w.got = n.body /\ w.ring = v.ring /\ w.files = v.files
        BY <1>3 DEF Local, IsDevice, Fields
    <2>5. v.says \in Replies
        BY DEF Local, Typed
    <2>6. Local(d, w) /\ w.cmd = v.cmd /\ w.files = v.files
        BY <1>2, <1>3, <2>3, <2>4, <2>5
    <2> QED BY <1>3, <2>1, <2>2, <2>4, <2>6
<1>4. CASE v.op = "interrogate" /\ n.cmd = v.op
           /\ w = [v EXCEPT !.pc = "report", !.says = "ok", !.got = n.body]
    <2>1. u.op = "interrogate" /\ u.pc \in {"sendRequest", "sendAnswer"}
        BY <1>4 DEF IsPacket, Paired, Sending
    <2>2. IF u.pc = "sendAnswer" THEN n.body = ListingFor(u, u.asks) ELSE n.body = Noise
        BY <1>4, <2>1 DEF IsPacket
    <2>3. ListingFor(u, u.asks) \in Listings
        <3>1. ASSUME NEW s \in Slots, u.files[s] # NoFile PROVE u.files[s].group \in Groups
            BY <3>1 DEF Local, Typed, Files
        <3> QED BY <3>1 DEF ListingFor, Listings
    <2>4. /\ IsDevice(w) /\ w.pc = "report" /\ w.op = v.op /\ w.ses = v.ses
          /\ w.says = "ok" /\ w.cmd = v.cmd /\ w.asks = v.asks
          /\ w.got = n.body /\ w.ring = v.ring /\ w.files = v.files
        BY <1>4 DEF Local, IsDevice, Fields
    <2>5. "ok" \in Replies
        BY DEF Replies
    <2>6. Local(d, w) /\ w.cmd = v.cmd /\ w.files = v.files
        BY <1>2, <1>4, <2>1, <2>2, <2>3, <2>4, <2>5
    <2>7. w.got # Nothing
        BY <2>1, <2>2, <2>3, <2>4, PeerAssumption
    <2> QED BY <1>4, <2>1, <2>2, <2>4, <2>6, <2>7
<1>5. {"no response", "could not import", "mismatch"} \subseteq Replies
    BY DEF Replies
<1> QED BY <1>0, <1>1, <1>3, <1>4, <1>5 DEF OnAnswer

-----------------------------------------------------------------------------
(* What a step of a device is to the abstract exchange.                    *)

Quiet(v, w) ==
    /\ w.files = v.files
    /\ Requesting(w) <=> Requesting(v)
    /\ Requesting(v) => w.cmd = v.cmd /\ w.got = v.got

Quits(v, w) == w.files = v.files /\ Requesting(v) /\ ~ Requesting(w)

Takes(v, w, f) ==
    /\ w.files = v.files
    /\ Requesting(v) /\ v.got = Nothing
    /\ Requesting(w) /\ w.cmd = v.cmd /\ w.got = f

TakesAnswer(v, w, u) ==
    \/ /\ v.pc = "awaitAnswer" /\ v.op = "receive"
       /\ u.pc = "sendAnswer" /\ u.op = "receive" /\ u.ses = v.ses
       /\ Takes(v, w, u.files[u.ses.slot])
    \/ /\ v.op = "interrogate" /\ u.op = "interrogate"
       /\ u.pc = "sendAnswer"
       /\ Takes(v, w, ListingFor(u, u.asks))
    \/ /\ v.op = "interrogate" /\ u.op = "interrogate"
       /\ u.pc = "sendRequest"
       /\ Takes(v, w, Noise)

(* Who requests is a matter of pc, but for a listing that has arrived.     *)
LEMMA Requests ==
    ASSUME NEW d, NEW v, Local(d, v)
    PROVE  /\ v.pc \in Requester => Requesting(v) /\ v.cmd \in Commands /\ v.cmd.op = v.op
           /\ v.pc \in Listener \cup {"idle"} => ~ Requesting(v)
           /\ v.pc = "report" => (Requesting(v) <=> v.cmd.op = "interrogate" /\ v.got # Nothing)
           /\ Requesting(v) => v.cmd \in Commands
BY DEF Local, Typed, Busy, Requesting, Requester, Listener

LEMMA Read ==
    ASSUME NEW d \in Devices, Local(d, dev[d]), dev[d].pc \in Awaiting,
           NEW u, Local(Peer(d), u), u.pc \in Sending, Paired(dev[d], u),
           NEW n, IsPacket(Peer(d), u, n),
           NEW w \in On(d, n)
    PROVE  /\ Local(d, w)
           /\ w.pc # "awaitAnswer"
           /\ u.pc = "sendProof" =>
                /\ w.pc \notin {"sendProof", "sendChallenge"}
                /\ w.pc = "sendAnswer" => w.ses = u.ses
           /\ Quiet(dev[d], w) \/ Quits(dev[d], w) \/ TakesAnswer(dev[d], w, u)
<1> DEFINE v == dev[d]
<1>0. Typed(u)
    BY DEF Local
<1>1. CASE v.pc = "awaitRequest"
    <2>1. /\ Local(d, w) /\ Same(v, w)
          /\ w.pc \in {"report", "deny", "sendChallenge"}
          /\ w.pc = "sendChallenge" =>
                n.cmd \in {"receive", "interrogate"} /\ n.size = RequestSize(n.cmd)
        BY <1>0, <1>1, RequestRead DEF On
    <2>2. v.cmd.op = "listen" /\ ~ Requesting(v)
        BY <1>1, Requests DEF Local, Busy, Listener
    <2>3. ~ Requesting(w) /\ w.files = v.files
        BY <2>1, <2>2 DEF Same, Requesting
    <2>4. u.pc = "sendProof" => w.pc # "sendChallenge"
        BY <2>1 DEF IsPacket, RequestSize, ProofSize
    <2> QED BY <2>1, <2>2, <2>3, <2>4 DEF Quiet
<1>2. CASE v.pc = "awaitChallenge"
    <2>1. /\ Local(d, w) /\ Same(v, w)
          /\ \/ w.pc = "report"
             \/ /\ w.pc = "sendProof"
                /\ n.cmd \in {"receive", "interrogate"} /\ n.size = ChallengeSize(n.cmd)
        BY <1>0, <1>2, ChallengeRead DEF On
    <2>2. v.cmd.op = v.op /\ Requesting(v) /\ v.got = Nothing
        BY <1>2, Requests DEF Local, Busy, Requester
    <2>3. u.pc = "sendProof" => w.pc # "sendProof"
        BY <2>1 DEF IsPacket, ChallengeSize, ProofSize
    <2>4. CASE w.pc = "report"
        <3>1. ~ Requesting(w)
            BY <2>1, <2>2, <2>4, Requests DEF Same
        <3> QED BY <2>1, <2>2, <2>4, <3>1 DEF Quits, Same
    <2>5. CASE w.pc = "sendProof"
        <3>1. Requesting(w)
            BY <2>1, <2>5, Requests DEF Requester
        <3> QED BY <2>1, <2>2, <2>3, <2>5, <3>1 DEF Quiet, Same
    <2> QED BY <2>1, <2>4, <2>5
<1>3. CASE v.pc = "awaitProof"
    <2>1. /\ Local(d, w) /\ Same(v, w)
          /\ \/ w.pc = "deny"
             \/ w.pc = "sendAnswer" /\ w.ses = u.ses
        BY <1>0, <1>3, ProofRead DEF On
    <2>2. ~ Requesting(v) /\ ~ Requesting(w)
        BY <1>3, <2>1, Requests DEF Listener
    <2> QED BY <2>1, <2>2 DEF Quiet, Same
<1>4. CASE v.pc = "awaitAnswer"
    <2>1. v.cmd.op = v.op /\ Requesting(v) /\ v.got = Nothing
        BY <1>4, Requests DEF Local, Busy, Requester
    <2>2. /\ Local(d, w) /\ w.cmd = v.cmd /\ w.files = v.files
          /\ \/ w.pc = "report" /\ w.got = Nothing
             \/ /\ v.op = "receive" /\ u.op = "receive"
                /\ u.pc = "sendAnswer" /\ u.ses = v.ses
                /\ w.pc = "store" /\ w.got = u.files[u.ses.slot]
             \/ /\ v.op = "interrogate" /\ u.op = "interrogate"
                /\ w.pc = "report" /\ w.got # Nothing
                /\ \/ u.pc = "sendAnswer" /\ w.got = ListingFor(u, u.asks)
                   \/ u.pc = "sendRequest" /\ w.got = Noise
        BY <1>4, AnswerRead DEF On
    <2>3. CASE w.pc = "report" /\ w.got = Nothing
        <3>1. ~ Requesting(w)
            BY <2>2, <2>3, Requests
        <3> QED BY <2>1, <2>2, <2>3, <3>1 DEF Quits
    <2>4. CASE w.pc = "store" /\ v.op = "receive" /\ u.op = "receive"
               /\ u.pc = "sendAnswer" /\ u.ses = v.ses /\ w.got = u.files[u.ses.slot]
        <3>1. Requesting(w)
            BY <2>2, <2>4, Requests DEF Requester
        <3> QED BY <1>4, <2>1, <2>2, <2>4, <3>1 DEF TakesAnswer, Takes
    <2>5. CASE w.pc = "report" /\ v.op = "interrogate" /\ u.op = "interrogate"
               /\ w.got # Nothing
               /\ \/ u.pc = "sendAnswer" /\ w.got = ListingFor(u, u.asks)
                  \/ u.pc = "sendRequest" /\ w.got = Noise
        <3>1. Requesting(w)
            BY <2>1, <2>2, <2>5, Requests
        <3> QED BY <2>1, <2>2, <2>5, <3>1 DEF TakesAnswer, Takes
    <2> QED BY <2>2, <2>3, <2>4, <2>5
<1> QED BY <1>1, <1>2, <1>3, <1>4 DEF Awaiting

(* The sender goes on in its role, or gives the exchange up.               *)
LEMMA Send ==
    ASSUME NEW d \in Devices, NEW v, Local(d, v), v.pc \in Sending,
           NEW w \in {Sent(v), NotSent(v)}
    PROVE  /\ Local(d, w)
           /\ w.ses = v.ses /\ w.op = v.op
           /\ w.pc = "awaitAnswer" => v.pc = "sendProof"
           /\ w.pc \notin {"sendAnswer", "sendProof", "sendChallenge"}
           /\ Quiet(v, w) \/ Quits(v, w)
           /\ v.pc \in Listener => Quiet(v, w)
<1>0. v.pc \in Requester \cup Listener /\ v.got = Nothing
    BY DEF Local, Busy, Requester, Listener, Sending
<1>1. CASE w \in {Fail(v, "no response"), Fail(v, "write failed")}
    <2>1. PICK why \in Replies : w = Fail(v, why)
        BY <1>1 DEF Replies
    <2>2. Local(d, w) /\ Same(v, w) /\ w.pc = "report"
        BY <1>0, <2>1, FailLocal
    <2>3. w.ses = v.ses /\ w.op = v.op
        BY <2>1 DEF Local, IsDevice, Fields, Fail
    <2>4. ~ Requesting(w)
        BY <1>0, <2>2, Requests DEF Same
    <2>5. v.pc \in Listener => ~ Requesting(v)
        BY Requests
    <2> QED BY <2>2, <2>3, <2>4, <2>5 DEF Quiet, Quits, Same
<1>2. ASSUME NEW pc, NEW says \in Replies, w = [v EXCEPT !.pc = pc, !.says = says],
             \/ v.pc = "sendRequest" /\ pc = "awaitChallenge"
             \/ v.pc = "sendChallenge" /\ pc = "awaitProof"
             \/ v.pc = "sendProof" /\ pc = "awaitAnswer"
             \/ v.pc \in {"sendAnswer", "deny"} /\ pc = "report"
      PROVE  /\ Local(d, w) /\ w.ses = v.ses /\ w.op = v.op /\ w.pc = pc
             /\ Quiet(v, w)
    <2>1. /\ IsDevice(w) /\ w.pc = pc /\ w.says = says
          /\ w.cmd = v.cmd /\ w.op = v.op /\ w.ses = v.ses /\ w.asks = v.asks
          /\ w.got = v.got /\ w.ring = v.ring /\ w.files = v.files
        BY <1>2 DEF Local, IsDevice, Fields
    <2>2. Typed(w)
        BY <1>2, <2>1 DEF Local, Typed, Labels, Awaiting
    <2>3. Busy(w)
        BY <1>2, <2>1 DEF Local, Busy, Requester, Listener
    <2>4. Checked(d, w)
        BY <1>2, <2>1 DEF Local, Checked, Requester, Occupied
    <2>5. Local(d, w)
        BY <2>1, <2>2, <2>3, <2>4 DEF Local
    <2>6. Requesting(v) <=> Requesting(w)
        BY <1>0, <1>2, <2>1, <2>5, Requests, ZenonT(60) DEF Requester, Listener
    <2> QED BY <2>1, <2>5, <2>6 DEF Quiet
<1>3. CASE w \in {[v EXCEPT !.pc = "awaitChallenge"], [v EXCEPT !.pc = "awaitProof"],
                  [v EXCEPT !.pc = "awaitAnswer"], [v EXCEPT !.pc = "report"],
                  [v EXCEPT !.pc = "report", !.says = "ok"]}
           /\ ~ (w \in {Fail(v, "no response"), Fail(v, "write failed")})
    <2>1. v.says \in Replies /\ "ok" \in Replies
        BY DEF Local, Typed, Replies
    <2>2. \E pc, says : /\ says \in Replies /\ w = [v EXCEPT !.pc = pc, !.says = says]
                        /\ \/ v.pc = "sendRequest" /\ pc = "awaitChallenge"
                           \/ v.pc = "sendChallenge" /\ pc = "awaitProof"
                           \/ v.pc = "sendProof" /\ pc = "awaitAnswer"
                           \/ v.pc \in {"sendAnswer", "deny"} /\ pc = "report"
        <3>1. ASSUME NEW pc PROVE [v EXCEPT !.pc = pc] = [v EXCEPT !.pc = pc, !.says = v.says]
            BY DEF Local, IsDevice, Fields
        <3>2. CASE v.pc = "sendRequest"
            BY <1>3, <2>1, <3>1, <3>2 DEF Sent, NotSent
        <3>3. CASE v.pc = "sendChallenge"
            BY <1>3, <2>1, <3>1, <3>3 DEF Sent, NotSent
        <3>4. CASE v.pc = "sendProof"
            BY <1>3, <2>1, <3>1, <3>4 DEF Sent, NotSent
        <3>5. CASE v.pc = "sendAnswer"
            BY <1>3, <2>1, <3>1, <3>5 DEF Sent, NotSent
        <3>6. CASE v.pc = "deny"
            BY <1>3, <2>1, <3>1, <3>6 DEF Sent, NotSent
        <3> QED BY <3>2, <3>3, <3>4, <3>5, <3>6 DEF Sending
    <2>3. PICK pc, says : /\ says \in Replies /\ w = [v EXCEPT !.pc = pc, !.says = says]
                          /\ \/ v.pc = "sendRequest" /\ pc = "awaitChallenge"
                             \/ v.pc = "sendChallenge" /\ pc = "awaitProof"
                             \/ v.pc = "sendProof" /\ pc = "awaitAnswer"
                             \/ v.pc \in {"sendAnswer", "deny"} /\ pc = "report"
        BY <2>2
    <2>4. /\ Local(d, w) /\ w.ses = v.ses /\ w.op = v.op /\ w.pc = pc
          /\ Quiet(v, w)
        BY <1>2, <2>3
    <2> QED BY <2>3, <2>4
<1>4. \/ w \in {Fail(v, "no response"), Fail(v, "write failed")}
      \/ w \in {[v EXCEPT !.pc = "awaitChallenge"], [v EXCEPT !.pc = "awaitProof"],
                [v EXCEPT !.pc = "awaitAnswer"], [v EXCEPT !.pc = "report"],
                [v EXCEPT !.pc = "report", !.says = "ok"]}
    BY DEF Sent, NotSent, Sending
<1> QED BY <1>1, <1>3, <1>4

-----------------------------------------------------------------------------
(* The abstract exchange.                                                  *)

WantOf(v) == IF Requesting(v) THEN v.cmd ELSE Nothing
HeldOf(v) == IF Requesting(v) THEN v.got ELSE Nothing

ExchangeStep == [Exchange!Next]_(Exchange!exchangeVars)

(* A step of the devices, seen through the mapping.                        *)
LEMMA Wanted ==
    ASSUME NEW d, NEW v, Local(d, v)
    PROVE  (WantOf(v) # Nothing <=> Requesting(v)) /\ (Requesting(v) => WantOf(v) = v.cmd)
BY Requests, PeerAssumption DEF WantOf

LEMMA GaveUp ==
    ASSUME Locals, UNCHANGED stored,
           \A c \in Devices : Quiet(dev[c], dev'[c]) \/ Quits(dev[c], dev'[c])
    PROVE  ExchangeStep
<1> DEFINE gone == {c \in Devices : Quits(dev[c], dev'[c])}
<1>1. \A c \in Devices : dev'[c].files = dev[c].files
    BY DEF Quiet, Quits
<1>2. \A c \in Devices : Requesting(dev'[c]) <=> Requesting(dev[c]) /\ c \notin gone
    BY DEF Quiet, Quits
<1>3. \A c \in Devices : Requesting(dev'[c]) =>
          dev'[c].cmd = dev[c].cmd /\ dev'[c].got = dev[c].got
    BY DEF Quiet, Quits
<1>4. \A c \in gone : c \in Devices /\ WantOf(dev[c]) # Nothing
    BY Wanted DEF Locals, Quits
<1> HIDE DEF gone
<1>5. /\ [c \in Devices |-> dev[c].files]' = [c \in Devices |-> dev[c].files]
      /\ [c \in Devices |-> WantOf(dev[c])]' =
            [c \in Devices |-> IF c \in gone THEN Nothing ELSE WantOf(dev[c])]
      /\ [c \in Devices |-> HeldOf(dev[c])]' =
            [c \in Devices |-> IF c \in gone THEN Nothing ELSE HeldOf(dev[c])]
    BY <1>1, <1>2, <1>3 DEF WantOf, HeldOf
<1>6. CASE gone = {}
    BY <1>5, <1>6 DEF ExchangeStep, Exchange!exchangeVars, Exchange!stored, stored,
                      WantOf, HeldOf
<1>7. CASE gone # {}
    <2>1. gone \in SUBSET Devices
        BY <1>4
    <2> DEFINE files == [c \in Devices |-> dev[c].files]
               want == [c \in Devices |-> WantOf(dev[c])]
               held == [c \in Devices |-> HeldOf(dev[c])]
    <2>2. /\ gone # {}
          /\ \A c \in gone : want[c] # Nothing
          /\ want' = [c \in Devices |-> IF c \in gone THEN Nothing ELSE want[c]]
          /\ held' = [c \in Devices |-> IF c \in gone THEN Nothing ELSE held[c]]
          /\ files' = files
        BY <1>4, <1>5, <1>7
    <2>3. \E g \in SUBSET Devices : Exchange!Stop(g)
        BY <2>1, <2>2 DEF Exchange!Stop, Exchange!GiveUp, Exchange!stored, stored, WantOf, HeldOf
    <2> QED BY <2>3 DEF ExchangeStep, Exchange!Next
<1> QED BY <1>6, <1>7

(* What d takes is what its peer gives, whatever its peer does then.       *)
LEMMA TookAnswer ==
    ASSUME Locals, UNCHANGED stored, NEW d \in Devices,
           TakesAnswer(dev[d], dev'[d], dev[Peer(d)]),
           Quiet(dev[Peer(d)], dev'[Peer(d)]) \/ Quits(dev[Peer(d)], dev'[Peer(d)]),
           dev[Peer(d)].pc \in Listener => Quiet(dev[Peer(d)], dev'[Peer(d)])
    PROVE  ExchangeStep
<1> DEFINE e == Peer(d)
           v == dev[d]
           u == dev[e]
           files == [c \in Devices |-> dev[c].files]
           want == [c \in Devices |-> WantOf(dev[c])]
           held == [c \in Devices |-> HeldOf(dev[c])]
<1>1. e \in Devices /\ e # d /\ Devices = {d, e} /\ Local(d, v) /\ Local(e, u)
    BY PeerIsOther, PeerOfPeer DEF Locals
<1> HIDE DEF e
<1>2. /\ Requesting(v) /\ v.got = Nothing /\ v.cmd \in Commands
      /\ Requesting(dev'[d]) /\ dev'[d].cmd = v.cmd /\ dev'[d].files = v.files
    BY <1>1, Requests DEF TakesAnswer, Takes
<1>3. want[d] = v.cmd /\ want[d] # Nothing /\ held[d] = Nothing
    BY <1>1, <1>2, Wanted DEF HeldOf
<1>4. files' = files
    <2>1. dev'[e].files = u.files
        BY DEF Quiet, Quits, e
    <2> QED BY <1>1, <1>2, <2>1
<1>5. ASSUME NEW f, Takes(v, dev'[d], f), Quiet(u, dev'[e])
      PROVE  held' = [held EXCEPT ![d] = f] /\ want' = want
    <2>1. /\ WantOf(dev'[d]) = WantOf(dev[d]) /\ HeldOf(dev'[d]) = f
          /\ WantOf(dev'[e]) = WantOf(dev[e]) /\ HeldOf(dev'[e]) = HeldOf(dev[e])
        BY <1>2, <1>5 DEF Takes, Quiet, WantOf, HeldOf
    <2>2. \A c \in Devices : WantOf(dev'[c]) = WantOf(dev[c])
        BY <1>1, <2>1
    <2>3. \A c \in Devices : HeldOf(dev'[c]) = IF c = d THEN f ELSE HeldOf(dev[c])
        BY <1>1, <2>1
    <2> QED BY <2>2, <2>3 DEF WantOf, HeldOf
<1>6. CASE /\ v.pc = "awaitAnswer" /\ v.op = "receive"
           /\ u.pc = "sendAnswer" /\ u.op = "receive" /\ u.ses = v.ses
           /\ Takes(v, dev'[d], u.files[u.ses.slot])
    <2> DEFINE f == u.files[u.ses.slot]
    <2>1. v.cmd.op = "receive" /\ v.cmd.read = u.ses.slot
        BY <1>1, <1>6, SMTT(60) DEF Local, Busy, Checked, Requester
    <2>2. u.ses.slot \in Slots /\ f # NoFile /\ f.group = u.ses.group /\ Readable(f)
        BY <1>1, <1>6, SMTT(60) DEF Local, Checked, Occupied
    <2>3. f.group \in CanReceive[d]
        BY <1>1, <1>6, <2>2 DEF Local, Checked
    <2>4. f.sealed # Unsealed
        BY <2>2, PeerAssumption DEF Readable
    <2>5. Quiet(u, dev'[e])
        BY <1>6 DEF e, Listener
    <2>6. f = files[e][want[d].read]
        BY <1>1, <1>3, <2>1
    <2>7. held' = [held EXCEPT ![d] = f] /\ want' = want
        BY <1>5, <1>6, <2>5, SMTT(60)
    <2> HIDE DEF f
    <2>8. Exchange!TakeFile(d)
        BY <1>3, <1>4, <2>1, <2>2, <2>3, <2>4, <2>6, <2>7, Zenon
           DEF Exchange!TakeFile, Exchange!Peer, Exchange!stored, stored, e, Peer, WantOf, HeldOf
    <2> QED BY <2>8, SMTT(60) DEF ExchangeStep, Exchange!Next
<1>7. CASE /\ v.op = "interrogate" /\ u.op = "interrogate" /\ u.pc = "sendAnswer"
           /\ Takes(v, dev'[d], ListingFor(u, u.asks))
    <2> DEFINE f == ListingFor(u, u.asks)
    <2>1. v.cmd.op = "interrogate"
        BY <1>1, <1>2, <1>7 DEF Local, Typed, Busy, Requesting, Requester
    <2>2. u.asks = CanReceive[d]
        <3>1. Peer(e) = d
            BY PeerOfPeer DEF e
        <3> QED BY <1>1, <1>7, <3>1 DEF Local, Checked
    <2>3. Quiet(u, dev'[e])
        BY <1>7 DEF e, Listener
    <2>4. held' = [held EXCEPT ![d] = f] /\ want' = want
        BY <1>5, <1>7, <2>3
    <2>5. f = {[slot |-> s, group |-> files[e][s].group] :
                 s \in {t \in Slots : files[e][t] # NoFile /\ files[e][t].group \in CanReceive[d]}}
        BY <1>1, <2>2, SMTT(60) DEF ListingFor
    <2> HIDE DEF f
    <2>6. Exchange!TakeListing(d)
        BY <1>3, <1>4, <2>1, <2>4, <2>5
           DEF Exchange!TakeListing, Exchange!Peer, Exchange!stored, stored, e, Peer, WantOf, HeldOf
    <2> QED BY <2>6 DEF ExchangeStep, Exchange!Next
<1>8. CASE /\ v.op = "interrogate" /\ u.op = "interrogate" /\ u.pc = "sendRequest"
           /\ Takes(v, dev'[d], Noise)
    <2>1. v.cmd.op = "interrogate"
        BY <1>1, <1>2, <1>8 DEF Local, Typed, Busy, Requesting, Requester
    <2>2. Requesting(u) /\ u.cmd.op = "interrogate"
        BY <1>1, <1>8, Requests DEF Requester
    <2>3. want[e] # Nothing /\ want[e].op = "interrogate"
        BY <1>1, <2>2, Wanted
    <2>4. HeldOf(u) = Nothing
        BY <1>1, <1>8 DEF Local, Busy, HeldOf
    <2>5. /\ WantOf(dev'[d]) = WantOf(v) /\ HeldOf(dev'[d]) = Noise
          /\ HeldOf(dev'[e]) = Nothing
          /\ WantOf(dev'[e]) \in {WantOf(u), Nothing}
        BY <1>2, <1>8, <2>2, <2>4 DEF Takes, Quiet, Quits, WantOf, HeldOf, e
    <2>6. \A c \in Devices : HeldOf(dev'[c]) = IF c = d THEN Noise ELSE HeldOf(dev[c])
        BY <1>1, <2>4, <2>5
    <2>7. held' = [held EXCEPT ![d] = Noise]
        BY <2>6 DEF HeldOf
    <2>8. \/ \A c \in Devices : WantOf(dev'[c]) = WantOf(dev[c])
          \/ \A c \in Devices : WantOf(dev'[c]) = IF c = e THEN Nothing ELSE WantOf(dev[c])
        BY <1>1, <2>5
    <2>9. Exchange!GiveUp({}) \/ Exchange!GiveUp({e})
        BY <2>8 DEF Exchange!GiveUp, WantOf
    <2>10. Exchange!TakeRequestForListing(d)
        BY <1>3, <1>4, <2>1, <2>3, <2>7, <2>9
           DEF Exchange!TakeRequestForListing, Exchange!Peer, Exchange!stored, stored, e, Peer, WantOf, HeldOf
    <2> QED BY <2>10 DEF ExchangeStep, Exchange!Next
<1> QED BY <1>6, <1>7, <1>8 DEF TakesAnswer, e

-----------------------------------------------------------------------------
(* Steps of one device, and the step of two.                               *)

LEMMA Alone ==
    ASSUME Locals, Pairs, NEW d \in Devices, NEW w, dev' = [dev EXCEPT ![d] = w],
           Local(d, w),
           w.pc \notin {"awaitAnswer", "sendProof", "sendChallenge", "sendAnswer"}
    PROVE  Locals' /\ Pairs'
<1>1. dev' = [c \in Devices |-> IF c = d THEN w ELSE dev[c]]
    BY DEF Locals
<1>2. Locals'
    BY <1>1 DEF Locals
<1>3. ASSUME NEW c \in Devices PROVE Paired(dev'[c], dev'[Peer(c)])
    <2>1. Peer(c) \in Devices /\ Peer(c) # c
        BY PeerIsOther
    <2> QED BY <1>1, <2>1 DEF Pairs, Paired
<1> QED BY <1>2, <1>3 DEF Pairs

LEMMA AloneQuietly ==
    ASSUME Locals, NEW d \in Devices, NEW w, dev' = [dev EXCEPT ![d] = w], UNCHANGED stored,
           Quiet(dev[d], w) \/ Quits(dev[d], w)
    PROVE  ExchangeStep
<1>1. dev' = [c \in Devices |-> IF c = d THEN w ELSE dev[c]]
    BY DEF Locals
<1>2. \A c \in Devices : Quiet(dev[c], dev'[c]) \/ Quits(dev[c], dev'[c])
    BY <1>1 DEF Quiet
<1> QED BY <1>2, GaveUp

LEMMA DeliverStep ==
    ASSUME Locals, Pairs, NEW d \in Devices, Deliver(d)
    PROVE  Locals' /\ Pairs' /\ ExchangeStep
<1> DEFINE e == Peer(d)
           u == dev[d]
           v == dev[e]
           m == PacketOf(d)
<1>1. e \in Devices /\ e # d /\ Devices = {d, e} /\ Peer(e) = d
      /\ Local(d, u) /\ Local(e, v)
    BY PeerIsOther, PeerOfPeer DEF Locals
<1>2. PICK n \in {m, [m EXCEPT !.cmd = "unknown"]}, x \in {Sent(u), NotSent(u)} :
         \E w \in On(e, n) : dev' = [dev EXCEPT ![d] = x, ![e] = w]
    <2>1. PICK w \in On(e, m) \cup On(e, [m EXCEPT !.cmd = "unknown"]),
               x \in {Sent(u), NotSent(u)} :
             dev' = [dev EXCEPT ![d] = x, ![e] = w]
        BY DEF Deliver
    <2> QED BY <2>1
<1>13. PICK w \in On(e, n) : dev' = [dev EXCEPT ![d] = x, ![e] = w]
    BY <1>2
<1>3. u.pc \in Sending /\ v.pc \in Awaiting /\ UNCHANGED stored
    BY DEF Deliver
<1>4. IsPacket(d, u, n)
    BY <1>1, <1>3, PacketIs
<1> HIDE DEF e, m
<1>5. /\ Local(d, x)
      /\ x.ses = u.ses /\ x.op = u.op
      /\ x.pc = "awaitAnswer" => u.pc = "sendProof"
      /\ x.pc \notin {"sendAnswer", "sendProof", "sendChallenge"}
      /\ Quiet(u, x) \/ Quits(u, x)
      /\ u.pc \in Listener => Quiet(u, x)
    BY <1>1, <1>2, <1>3, Send
<1>6. Paired(v, u)
    BY <1>1 DEF Pairs
<1>7. /\ Local(e, w)
      /\ w.pc # "awaitAnswer"
      /\ u.pc = "sendProof" =>
           /\ w.pc \notin {"sendProof", "sendChallenge"}
           /\ w.pc = "sendAnswer" => w.ses = u.ses
      /\ Quiet(v, w) \/ Quits(v, w) \/ TakesAnswer(v, w, u)
    BY <1>1, <1>3, <1>4, <1>6, <1>13, Read
<1>8. dev' = [c \in Devices |-> IF c = d THEN x ELSE w] /\ dev'[d] = x /\ dev'[e] = w
    BY <1>1, <1>13 DEF Locals
<1>9. Locals'
    BY <1>1, <1>5, <1>7, <1>8 DEF Locals
<1>10. Paired(x, w) /\ Paired(w, x)
    BY <1>5, <1>7 DEF Paired
<1>11. Pairs'
    <2>1. \A c \in Devices : Paired(dev'[c], dev'[Peer(c)])
        BY <1>1, <1>8, <1>10 DEF e
    <2> QED BY <2>1 DEF Pairs
<1>12. ExchangeStep
    <2>1. CASE Quiet(v, w) \/ Quits(v, w)
        <3>1. \A c \in Devices : Quiet(dev[c], dev'[c]) \/ Quits(dev[c], dev'[c])
            BY <1>1, <1>5, <1>8, <2>1
        <3> QED BY <1>3, <3>1, GaveUp
    <2>2. CASE TakesAnswer(v, w, u)
        BY <1>1, <1>3, <1>5, <1>8, <2>2, TookAnswer
    <2> QED BY <1>7, <2>1, <2>2
<1> QED BY <1>9, <1>11, <1>12

LEMMA FailsStep ==
    ASSUME Locals, Pairs, NEW d \in Devices, SendFails(d) \/ WaitFails(d)
    PROVE  Locals' /\ Pairs' /\ ExchangeStep
<1> DEFINE v == dev[d]
<1>1. Local(d, v)
    BY DEF Locals
<1>2. CASE SendFails(d)
    <2> DEFINE w == NotSent(v)
    <2>1. dev' = [dev EXCEPT ![d] = w] /\ v.pc \in Sending /\ UNCHANGED stored
        BY <1>2 DEF SendFails
    <2>2. /\ Local(d, w)
          /\ w.pc = "awaitAnswer" => v.pc = "sendProof"
          /\ w.pc \notin {"sendAnswer", "sendProof", "sendChallenge"}
          /\ Quiet(v, w) \/ Quits(v, w)
        BY <1>1, <2>1, Send
    <2>3. w.pc # "awaitAnswer"
        <3>1. w.pc = "report"
            BY <1>1, <2>1 DEF NotSent, Sending, Fail, Local, IsDevice, Fields
        <3> QED BY <3>1
    <2> HIDE DEF w
    <2> QED BY <2>1, <2>2, <2>3, Alone, AloneQuietly
<1>3. CASE WaitFails(d)
    <2> DEFINE w == CASE v.pc = "awaitRequest" -> Fail(v, "no request")
                      [] v.pc = "awaitProof" -> Deny(v, v.op)
                      [] v.pc \in {"awaitChallenge", "awaitAnswer"} -> Fail(v, "no response")
    <2>1. dev' = [dev EXCEPT ![d] = w] /\ v.pc \in Awaiting /\ UNCHANGED stored
        BY <1>3 DEF WaitFails
    <2>2. \/ v.pc \in Listener /\ w \in {Fail(v, "no request"), Deny(v, v.op)}
          \/ v.pc \in Requester /\ w = Fail(v, "no response")
        BY <2>1 DEF Awaiting, Listener, Requester
    <2>3. v.op \in {"receive", "interrogate"} /\ v.pc # "store"
          /\ "no request" \in Replies /\ "no response" \in Replies
        BY <1>1, <2>1 DEF Local, Typed, Replies, Awaiting
    <2> HIDE DEF w
    <2>4. Local(d, w) /\ Same(v, w) /\ w.pc \in {"report", "deny"}
        <3>1. CASE w = Deny(v, v.op) /\ v.pc \in Listener
            BY <1>1, <2>3, <3>1, DenyLocal
        <3>2. CASE \E why \in Replies : w = Fail(v, why)
            <4>1. v.pc \in Requester \cup Listener
                BY <2>2
            <4> QED BY <1>1, <3>2, <4>1, FailLocal
        <3> QED BY <2>2, <2>3, <3>1, <3>2
    <2>5. w.got = Nothing
        BY <1>1, <2>1, <2>4 DEF Local, Busy, Same, Awaiting
    <2>6. ~ Requesting(w)
        BY <2>4, <2>5, Requests DEF Listener
    <2>7. Quiet(v, w) \/ Quits(v, w)
        BY <2>4, <2>6 DEF Quiet, Quits, Same
    <2> QED BY <2>1, <2>4, <2>7, Alone, AloneQuietly
<1> QED BY <1>2, <1>3

LEMMA BeginStep ==
    ASSUME Locals, Pairs, NEW d \in Devices, NEW c \in Commands, Begin(d, c)
    PROVE  Locals' /\ Pairs' /\ ExchangeStep
<1> DEFINE v == dev[d]
<1>1. /\ Local(d, v) /\ v.pc = "idle" /\ v.got = Nothing /\ ~ Requesting(v)
      /\ UNCHANGED stored
    BY Requests DEF Locals, Begin, Local, Busy
<1>2. CASE c.op = "listen"
    <2> DEFINE w == [v EXCEPT !.pc = "awaitRequest", !.cmd = c]
    <2>1. dev' = [dev EXCEPT ![d] = w]
        BY <1>2 DEF Begin
    <2>2. /\ IsDevice(w) /\ w.pc = "awaitRequest" /\ w.says = v.says
          /\ w.cmd = c /\ w.op = v.op /\ w.ses = v.ses /\ w.asks = v.asks
          /\ w.got = v.got /\ w.ring = v.ring /\ w.files = v.files
        BY <1>1 DEF Local, IsDevice, Fields
    <2> HIDE DEF w
    <2>3. Typed(w)
        BY <1>1, <2>2 DEF Local, Typed, Labels, Awaiting
    <2>4. Busy(w) /\ Checked(d, w)
        BY <1>1, <1>2, <2>2 DEF Busy, Checked, Requester, Listener
    <2>5. Local(d, w) /\ ~ Requesting(w)
        BY <2>2, <2>3, <2>4, Requests DEF Local, Listener
    <2>6. Quiet(v, w)
        BY <1>1, <2>2, <2>5 DEF Quiet
    <2> QED BY <1>1, <2>1, <2>2, <2>5, <2>6, Alone, AloneQuietly
<1>3. CASE c.op # "listen"
    <2>1. c.op \in {"receive", "interrogate"} /\ (c.op = "receive" => c.read \in Slots \cup {BadSlot})
        BY <1>3 DEF Commands
    <2> DEFINE ses(nr) == [NoSession EXCEPT
                              !.slot = IF c.op = "receive" THEN c.read ELSE BadSlot, !.nr = nr]
    <2>2. PICK nr \in Nonces :
            dev' = [dev EXCEPT ![d] =
                 [@ EXCEPT !.pc = "sendRequest", !.cmd = c, !.op = c.op, !.ses = ses(nr)]]
        BY <1>3 DEF Begin
    <2> DEFINE w == [v EXCEPT !.pc = "sendRequest", !.cmd = c, !.op = c.op, !.ses = ses(nr)]
    <2>3. dev' = [dev EXCEPT ![d] = w]
        BY <2>2
    <2>4. ses(nr) \in Sessions /\ (c.op = "receive" => ses(nr).slot = c.read)
        BY <2>1, PeerAssumption DEF NoSession, Sessions
    <2> HIDE DEF ses
    <2>5. /\ IsDevice(w) /\ w.pc = "sendRequest" /\ w.says = v.says
          /\ w.cmd = c /\ w.op = c.op /\ w.ses = ses(nr) /\ w.asks = v.asks
          /\ w.got = v.got /\ w.ring = v.ring /\ w.files = v.files
        BY <1>1 DEF Local, IsDevice, Fields
    <2> HIDE DEF w
    <2>6. Typed(w)
        BY <1>1, <2>1, <2>4, <2>5 DEF Local, Typed, Labels, Sending
    <2>7. Busy(w) /\ Checked(d, w)
        BY <1>1, <2>4, <2>5 DEF Busy, Checked, Requester, Listener
    <2>8. Local(d, w) /\ Requesting(w)
        BY <2>5, <2>6, <2>7, Requests DEF Local, Requester
    <2>9. /\ WantOf(w) = c /\ HeldOf(w) = Nothing
          /\ WantOf(v) = Nothing /\ HeldOf(v) = Nothing
        BY <1>1, <2>5, <2>8 DEF WantOf, HeldOf
    <2>10. ExchangeStep
        <3>1. dev' = [e \in Devices |-> IF e = d THEN w ELSE dev[e]]
            BY <2>3 DEF Locals
        <3>2. /\ [e \in Devices |-> dev[e].files]' = [e \in Devices |-> dev[e].files]
              /\ [e \in Devices |-> HeldOf(dev[e])]' = [e \in Devices |-> HeldOf(dev[e])]
              /\ [e \in Devices |-> WantOf(dev[e])]' =
                    [[e \in Devices |-> WantOf(dev[e])] EXCEPT ![d] = c]
            BY <1>1, <2>5, <2>8, <2>9, <3>1 DEF WantOf, HeldOf
        <3>3. Exchange!Ask(d, c)
            BY <1>1, <2>9, <3>2 DEF Exchange!Ask, Exchange!stored, stored, WantOf, HeldOf
        <3> QED BY <3>3 DEF ExchangeStep, Exchange!Next
    <2> QED BY <2>3, <2>5, <2>8, <2>10, Alone
<1> QED BY <1>2, <1>3, SMTT(60)

LEMMA HostChangeStep ==
    ASSUME Locals, Pairs, NEW d \in Devices, NEW s \in Slots, NEW f \in HostFiles,
           HostChange(d, s, f)
    PROVE  Locals' /\ Pairs' /\ ExchangeStep
<1> DEFINE v == dev[d]
           w == [v EXCEPT !.files[s] = f]
<1>1. Local(d, v) /\ v.pc = "idle" /\ ~ Requesting(v)
    BY Requests DEF Locals, HostChange
<1>2. dev' = [dev EXCEPT ![d] = w]
    BY DEF HostChange, Locals
<1>3. /\ IsDevice(w) /\ w.pc = "idle" /\ w.says = v.says
      /\ w.cmd = v.cmd /\ w.op = v.op /\ w.ses = v.ses /\ w.asks = v.asks
      /\ w.got = v.got /\ w.ring = v.ring /\ w.files = [v.files EXCEPT ![s] = f]
    BY <1>1 DEF Local, IsDevice, Fields
<1> HIDE DEF w
<1>4. Typed(w)
    BY <1>1, <1>3, PeerAssumption DEF Local, Typed
<1>5. Busy(w) /\ Checked(d, w)
    BY <1>1, <1>3 DEF Local, Busy, Checked, Requester, Listener
<1>6. Local(d, w) /\ ~ Requesting(w)
    BY <1>3, <1>4, <1>5, Requests DEF Local
<1>7. ExchangeStep
    <2>1. dev' = [e \in Devices |-> IF e = d THEN w ELSE dev[e]]
        BY <1>2 DEF Locals
    <2>2. /\ [e \in Devices |-> WantOf(dev[e])]' = [e \in Devices |-> WantOf(dev[e])]
          /\ [e \in Devices |-> HeldOf(dev[e])]' = [e \in Devices |-> HeldOf(dev[e])]
          /\ [e \in Devices |-> dev[e].files]' =
                [[e \in Devices |-> dev[e].files] EXCEPT ![d][s] = f]
        BY <1>1, <1>3, <1>6, <2>1 DEF WantOf, HeldOf
    <2>3. Exchange!HostChange(d)
        BY <1>1, <2>2 DEF Exchange!HostChange, Exchange!Settle, HostChange, Settle,
                          WantOf, HeldOf
    <2> QED BY <2>3 DEF ExchangeStep, Exchange!Next
<1> QED BY <1>2, <1>3, <1>6, <1>7, Alone

(* What a store can leave behind are files.                                *)
LEMMA OutcomesAreFiles ==
    ASSUME Locals, StoredTypes, NEW d \in Devices, dev[d].pc = "store"
    PROVE  /\ Whole(dev[d]) \in Files
           /\ UnderNewName(d) \subseteq Files
           /\ \A s \in Slots : /\ Outcomes(d, s) \subseteq Files \cup {NoFile}
                               /\ Left(d, s) \subseteq Files \cup {NoFile}
<1> DEFINE v == dev[d]
           got == v.got
           slot == v.cmd.write
<1>1. /\ v.cmd \in Commands /\ v.cmd.op = "receive" /\ got \in Files
      /\ v.files \in [Slots -> Files \cup {NoFile}]
    BY DEF Locals, Local, Busy, Typed, Requester
<1>2. slot \in Slots
    BY <1>1 DEF Commands
<1>3. got = [group |-> got.group, data |-> got.data, sealed |-> got.sealed]
      /\ got.group \in Groups /\ got.data \in Data
    BY <1>1 DEF Files
<1>4. Whole(v) \in Files
    <2>1. Whole(v) = [group |-> got.group, data |-> got.data, sealed |-> got.group]
        BY <1>3 DEF Whole
    <2> QED BY <1>3, <2>1 DEF Files
<1>5. [got EXCEPT !.sealed = Unsealed] \in Files
    <2>1. [got EXCEPT !.sealed = Unsealed]
              = [group |-> got.group, data |-> got.data, sealed |-> Unsealed]
        BY <1>3
    <2> QED BY <1>3, <2>1 DEF Files
<1>6. ASSUME NEW old \in Files PROVE [old EXCEPT !.group = got.group] \in Files
    <2>1. old = [group |-> old.group, data |-> old.data, sealed |-> old.sealed]
          /\ old.data \in Data /\ old.sealed \in Groups \cup {Unsealed}
        BY DEF Files
    <2>2. [old EXCEPT !.group = got.group]
              = [group |-> got.group, data |-> old.data, sealed |-> old.sealed]
        BY <2>1
    <2> QED BY <1>3, <2>1, <2>2 DEF Files
<1>7. (remains[d][slot] \cup {v.files[slot]}) \ {NoFile} \subseteq Files
    BY <1>1, <1>2 DEF StoredTypes
<1>8. UnderNewName(d) \subseteq Files
    BY <1>5, <1>6, <1>7 DEF UnderNewName
<1>9. ASSUME NEW s \in Slots
      PROVE  /\ Outcomes(d, s) \subseteq Files \cup {NoFile}
             /\ Left(d, s) \subseteq Files \cup {NoFile}
    BY <1>1, <1>4, <1>8 DEF Outcomes, Left, StoredTypes
<1> QED BY <1>4, <1>8, <1>9

(* The store seen through the mapping.                                     *)
LEMMA StoreSeen ==
    ASSUME Locals, NEW d \in Devices
    PROVE  /\ Exchange!HasFile(d) <=> dev[d].pc = "store"
           /\ dev[d].pc = "store" =>
                /\ [c \in Devices |-> WantOf(dev[c])][d] = dev[d].cmd
                /\ Exchange!Whole(d) = Whole(dev[d])
                /\ Exchange!Partial(d) = UnderNewName(d)
                /\ \A s \in Slots : Exchange!Possible(d, s) = Outcomes(d, s)
                /\ Exchange!Leave(d) <=>
                      remains' = [remains EXCEPT ![d] = [s \in Slots |-> Left(d, s)]]
<1> DEFINE v == dev[d]
<1>1. Local(d, v)
    BY DEF Locals
<1>2. Exchange!HasFile(d) <=> WantOf(v) # Nothing /\ WantOf(v).op = "receive" /\ HeldOf(v) # Nothing
    BY DEF Exchange!HasFile, WantOf, HeldOf
<1>3. CASE v.pc = "store"
    <2>1. Requesting(v) /\ v.cmd.op = "receive" /\ v.got \in Files /\ v.got # Nothing
        BY <1>1, <1>3, Requests, PeerAssumption DEF Local, Busy, Requester
    <2>2. WantOf(v) = v.cmd /\ WantOf(v) # Nothing /\ HeldOf(v) = v.got
        BY <1>1, <2>1, Wanted DEF HeldOf
    <2>3. Exchange!HasFile(d)
        BY <1>2, <2>1, <2>2
    <2>4. Exchange!Whole(d) = Whole(v)
        BY <2>1 DEF Exchange!Whole, Whole
    <2>5. Exchange!Partial(d) = UnderNewName(d)
        BY <2>1 DEF Exchange!Partial, UnderNewName
    <2>6. ASSUME NEW s \in Slots PROVE Exchange!Possible(d, s) = Outcomes(d, s)
        BY <2>1, <2>4, <2>5 DEF Exchange!Possible, Outcomes
    <2>7. Exchange!Leave(d) <=>
              remains' = [remains EXCEPT ![d] = [s \in Slots |-> Left(d, s)]]
        BY <2>1, <2>4 DEF Exchange!Leave, Left
    <2> QED BY <1>3, <2>2, <2>3, <2>4, <2>5, <2>6, <2>7
<1>4. CASE v.pc # "store"
    <2>1. ASSUME Requesting(v), v.cmd.op = "receive" PROVE v.got = Nothing
        BY <1>1, <1>4, <2>1 DEF Local, Typed, Busy, Requesting
    <2> QED BY <1>1, <1>2, <1>4, <2>1, Wanted DEF HeldOf
<1> QED BY <1>3, <1>4

LEMMA OverWith ==
    ASSUME Locals, NEW d \in Devices, NEW w, dev' = [dev EXCEPT ![d] = w], ~ Requesting(w)
    PROVE  /\ Exchange!Over(d)
           /\ [c \in Devices |-> dev[c].files]' =
                 [[c \in Devices |-> dev[c].files] EXCEPT ![d] = w.files]
<1>1. dev' = [c \in Devices |-> IF c = d THEN w ELSE dev[c]]
    BY DEF Locals
<1>2. \A c \in Devices : /\ WantOf(dev'[c]) = IF c = d THEN Nothing ELSE WantOf(dev[c])
                         /\ HeldOf(dev'[c]) = IF c = d THEN Nothing ELSE HeldOf(dev[c])
    BY <1>1 DEF WantOf, HeldOf
<1>3. [c \in Devices |-> WantOf(dev[c])]' =
          [[c \in Devices |-> WantOf(dev[c])] EXCEPT ![d] = Nothing]
    BY <1>2 DEF WantOf
<1>4. [c \in Devices |-> HeldOf(dev[c])]' =
          [[c \in Devices |-> HeldOf(dev[c])] EXCEPT ![d] = Nothing]
    BY <1>2 DEF HeldOf
<1>5. Exchange!Over(d)
    BY <1>3, <1>4 DEF Exchange!Over, WantOf, HeldOf
<1> QED BY <1>1, <1>5

LEMMA StoreStep ==
    ASSUME Locals, Pairs, StoredTypes, NEW d \in Devices, Store(d) \/ StoreFails(d)
    PROVE  Locals' /\ Pairs' /\ ExchangeStep
<1> DEFINE v == dev[d]
           slot == v.cmd.write
           files == [c \in Devices |-> dev[c].files]
<1>1. /\ Local(d, v) /\ v.pc = "store" /\ v.cmd \in Commands /\ v.cmd.op = "receive"
      /\ v.op = "receive" /\ v.got \in Files /\ Requesting(v)
    BY Requests DEF Locals, Store, StoreFails, Local, Busy, Requester
<1>2. slot \in Slots /\ v.files \in [Slots -> Files \cup {NoFile}]
    BY <1>1 DEF Commands, Local, Typed
<1>3. Whole(v) \in Files /\ UnderNewName(d) \subseteq Files
    BY <1>1, OutcomesAreFiles
<1>4. /\ Exchange!HasFile(d)
      /\ [c \in Devices |-> WantOf(dev[c])][d] = v.cmd
      /\ Exchange!Whole(d) = Whole(v)
      /\ Exchange!Partial(d) = UnderNewName(d)
      /\ \A s \in Slots : Exchange!Possible(d, s) = Outcomes(d, s)
      /\ Exchange!Leave(d) <=>
            remains' = [remains EXCEPT ![d] = [s \in Slots |-> Left(d, s)]]
    BY <1>1, StoreSeen
<1> HIDE DEF slot
<1>5. ASSUME NEW w, NEW f \in Files \cup {NoFile}, NEW says \in Replies,
             dev' = [dev EXCEPT ![d] = w],
             w = [v EXCEPT !.pc = "report", !.says = says, !.files = [@ EXCEPT ![slot] = f]]
      PROVE  Locals' /\ Pairs' /\ Exchange!Over(d) /\ files' = [files EXCEPT ![d][slot] = f]
    <2>1. /\ IsDevice(w) /\ w.pc = "report" /\ w.says = says
          /\ w.cmd = v.cmd /\ w.op = v.op /\ w.ses = v.ses /\ w.asks = v.asks
          /\ w.got = v.got /\ w.ring = v.ring /\ w.files = [v.files EXCEPT ![slot] = f]
        BY <1>1, <1>5 DEF Local, IsDevice, Fields
    <2>2. w.files \in [Slots -> Files \cup {NoFile}]
        BY <1>2, <1>5, <2>1
    <2>3. Typed(w)
        BY <1>1, <2>1, <2>2 DEF Local, Typed, Labels
    <2>4. Busy(w) /\ Checked(d, w)
        BY <1>1, <2>1 DEF Local, Busy, Checked, Requester, Listener
    <2>5. Local(d, w) /\ ~ Requesting(w)
        BY <1>1, <2>1, <2>3, <2>4, Requests DEF Local
    <2>6. Locals' /\ Pairs'
        BY <1>5, <2>1, <2>5, Alone
    <2>7. Exchange!Over(d) /\ files' = [files EXCEPT ![d] = w.files]
        BY <1>5, <2>5, OverWith
    <2>8. [files EXCEPT ![d] = w.files] = [files EXCEPT ![d][slot] = f]
        BY <2>1
    <2> QED BY <2>6, <2>7, <2>8
<1>6. CASE Store(d) /\ v.got.group \notin CanReceive[d]
    <2> DEFINE w == Fail(v, "invalid permission")
    <2>1. dev' = [dev EXCEPT ![d] = w] /\ UNCHANGED stored
        BY <1>6 DEF Store
    <2>2. Local(d, w) /\ Same(v, w) /\ w.pc = "report"
        <3>1. "invalid permission" \in Replies /\ v.pc \in Requester
            BY <1>1 DEF Replies, Requester
        <3> QED BY <1>1, <3>1, FailLocal
    <2> HIDE DEF w
    <2>3. ~ Requesting(w)
        BY <1>1, <2>2, Requests DEF Same
    <2>4. Quits(v, w)
        BY <1>1, <2>2, <2>3 DEF Quits, Same
    <2> QED BY <2>1, <2>2, <2>4, Alone, AloneQuietly
<1>7. CASE Store(d) /\ v.got.group \in CanReceive[d]
    <2> DEFINE f == Whole(v)
               w == [v EXCEPT !.pc = "report", !.says = "ok", !.files = [@ EXCEPT ![slot] = f]]
    <2>1. dev' = [dev EXCEPT ![d] = w] /\ Settle(d, slot)
        BY <1>7 DEF Store, Locals, slot
    <2>2. "ok" \in Replies /\ f \in Files \cup {NoFile}
        BY <1>3 DEF Replies
    <2> HIDE DEF f
    <2>3. Locals' /\ Pairs' /\ Exchange!Over(d) /\ files' = [files EXCEPT ![d][slot] = f]
        BY <1>5, <2>1, <2>2
    <2>4. Exchange!Settle(d, slot)
        BY <2>1 DEF Settle, Exchange!Settle
    <2>5. Exchange!Keep(d)
        BY <1>4, <2>3, <2>4 DEF Exchange!Keep, WantOf, slot, f
    <2> QED BY <2>3, <2>5 DEF ExchangeStep, Exchange!Next
<1>8. CASE StoreFails(d)
    <2>1. PICK f \in {NoFile, v.files[slot]} \cup UnderNewName(d) :
             dev' = [dev EXCEPT ![d] = [Fail(v, "store failed") EXCEPT !.files[slot] = f]]
        BY <1>8 DEF StoreFails, Locals, slot
    <2> DEFINE w == [v EXCEPT !.pc = "report", !.says = "store failed",
                              !.files = [@ EXCEPT ![slot] = f]]
    <2>2. [Fail(v, "store failed") EXCEPT !.files[slot] = f] = w
        BY <1>1 DEF Fail, Local, IsDevice, Fields
    <2>3. dev' = [dev EXCEPT ![d] = w]
        BY <2>1, <2>2
    <2>4. "store failed" \in Replies /\ f \in Files \cup {NoFile}
        BY <1>2, <1>3, <2>1 DEF Replies
    <2>5. Locals' /\ Pairs' /\ Exchange!Over(d) /\ files' = [files EXCEPT ![d][slot] = f]
        BY <1>5, <2>3, <2>4
    <2>6. /\ doubt' = [doubt EXCEPT ![d] = [s \in Slots |-> @[s] \cup Exchange!Possible(d, s)]]
          /\ Exchange!Leave(d)
        BY <1>4, <1>8 DEF StoreFails
    <2>7. f \in {NoFile, files[d][slot]} \cup Exchange!Partial(d)
        BY <1>4, <2>1
    <2>8. Exchange!Spoil(d)
        BY <1>4, <2>5, <2>6, <2>7 DEF Exchange!Spoil, WantOf, slot
    <2> QED BY <2>5, <2>8 DEF ExchangeStep, Exchange!Next
<1> QED BY <1>6, <1>7, <1>8

LEMMA IdleLocal ==
    ASSUME NEW d \in Devices, NEW v, IsDevice(v), NEW w, IsDevice(w),
           w.pc = "idle", w.cmd = Nothing, w.op = "receive", w.ses = NoSession,
           w.asks = {}, w.got = Nothing, w.says = "",
           w.ring \in Rings(Tuples), w.files \in [Slots -> Files \cup {NoFile}]
    PROVE  Local(d, w) /\ ~ Requesting(w)
<1>1. NoSession \in Sessions
    BY PeerAssumption DEF NoSession, Sessions
<1>2. Typed(w)
    BY <1>1 DEF Typed, Labels, Replies
<1>3. Busy(w) /\ Checked(d, w)
    BY DEF Busy, Checked, Requester, Listener
<1>4. Local(d, w)
    BY <1>2, <1>3 DEF Local
<1> QED BY <1>4, Requests

LEMMA ReportStep ==
    ASSUME Locals, Pairs, NEW d \in Devices, Report(d)
    PROVE  Locals' /\ Pairs' /\ ExchangeStep
<1> DEFINE v == dev[d]
           w == Idle(v)
<1>1. Local(d, v) /\ dev' = [dev EXCEPT ![d] = w] /\ UNCHANGED stored
    BY DEF Report, Locals
<1>2. /\ IsDevice(w) /\ w.pc = "idle" /\ w.cmd = Nothing /\ w.op = "receive"
      /\ w.ses = NoSession /\ w.asks = {} /\ w.got = Nothing /\ w.says = ""
      /\ w.ring = v.ring /\ w.files = v.files
    BY <1>1 DEF Local, IsDevice, Fields, Idle
<1> HIDE DEF w
<1>3. Local(d, w) /\ ~ Requesting(w)
    BY <1>1, <1>2, IdleLocal DEF Local, Typed
<1>4. Quiet(v, w) \/ Quits(v, w)
    BY <1>2, <1>3 DEF Quiet, Quits
<1> QED BY <1>1, <1>2, <1>3, <1>4, Alone, AloneQuietly

LEMMA ResetStep ==
    ASSUME Locals, Pairs, StoredTypes, NEW d \in Devices, Reset(d)
    PROVE  Locals' /\ Pairs' /\ ExchangeStep
<1> DEFINE v == dev[d]
           files == [c \in Devices |-> dev[c].files]
           may(s) == doubt[d][s] \cup IF Exchange!HasFile(d) THEN Exchange!Possible(d, s)
                                      ELSE {files[d][s]}
<1>1. Local(d, v) /\ v.files \in [Slots -> Files \cup {NoFile}]
    BY DEF Locals, Local, Typed
<1>2. PICK fs \in [Slots -> UNION {Revealed(d, s) : s \in Slots}] :
         /\ \A s \in Slots : fs[s] \in Revealed(d, s)
         /\ dev' = [dev EXCEPT ![d] = [Idle(v) EXCEPT !.ring = EmptyRing, !.accepted = <<>>,
                                                     !.files = fs]]
    BY DEF Reset
<1> DEFINE w == [Idle(v) EXCEPT !.ring = EmptyRing, !.accepted = <<>>, !.files = fs]
<1>3. dev' = [dev EXCEPT ![d] = w]
    BY <1>2
<1>4. /\ IsDevice(w) /\ w.pc = "idle" /\ w.cmd = Nothing /\ w.op = "receive"
      /\ w.ses = NoSession /\ w.asks = {} /\ w.got = Nothing /\ w.says = ""
      /\ w.ring = EmptyRing /\ w.files = fs
    BY <1>1, ZenonT(60) DEF Local, IsDevice, Fields, Idle
<1> HIDE DEF w
<1>5. EmptyRing \in Rings(Tuples)
    BY RingAssumption DEF EmptyRing, Rings
<1>6. \A s \in Slots : may(s) = Revealed(d, s) /\ Revealed(d, s) \subseteq Files \cup {NoFile}
    <2>1. CASE v.pc = "store"
        BY <2>1, StoreSeen, OutcomesAreFiles DEF Revealed, StoredTypes
    <2>2. CASE v.pc # "store"
        BY <1>1, <2>2, StoreSeen DEF Revealed, StoredTypes
    <2> QED BY <2>1, <2>2
<1>7. fs \in [Slots -> Files \cup {NoFile}]
    BY <1>2, <1>6
<1>8. Local(d, w) /\ ~ Requesting(w)
    BY <1>1, <1>4, <1>5, <1>7, IdleLocal DEF Local
<1>9. Locals' /\ Pairs'
    BY <1>3, <1>4, <1>8, Alone
<1>10. Exchange!Over(d) /\ files' = [files EXCEPT ![d] = fs]
    BY <1>3, <1>4, <1>8, OverWith
<1>11. /\ doubt' = [doubt EXCEPT ![d] = [s \in Slots |-> {}]]
       /\ IF Exchange!HasFile(d) THEN Exchange!Leave(d) ELSE UNCHANGED remains
    BY StoreSeen DEF Reset
<1> HIDE DEF may
<1>12. fs \in [Slots -> UNION {may(s) : s \in Slots}] /\ \A s \in Slots : fs[s] \in may(s)
    BY <1>2, <1>6
<1>13. Exchange!Restart(d)
    BY <1>10, <1>11, <1>12, Zenon DEF Exchange!Restart, may
<1> QED BY <1>9, <1>13 DEF ExchangeStep, Exchange!Next

(* What a device may have in its flash are files.                          *)
LEMMA StoredStep ==
    ASSUME Locals, StoredTypes, NEW d \in Devices, Host(d) \/ Step(d) \/ Reset(d)
    PROVE  StoredTypes'
<1> DEFINE F == SUBSET (Files \cup {NoFile})
           Settled(s) == /\ doubt' = [doubt EXCEPT ![d] = [t \in Slots |-> {}]]
                         /\ remains' = [remains EXCEPT ![d][s] = {}]
           Spoilt(D) == /\ doubt' = [doubt EXCEPT ![d] = D]
                        /\ \/ remains' = [remains EXCEPT ![d] = [s \in Slots |-> Left(d, s)]]
                              /\ dev[d].pc = "store"
                           \/ UNCHANGED remains
<1>1. CASE UNCHANGED <<doubt, remains>>
    BY <1>1 DEF StoredTypes
<1>2. CASE \E s : Settled(s)
    <2>1. PICK s : Settled(s)
        BY <1>2
    <2>2. [remains[d] EXCEPT ![s] = {}] \in [Slots -> F]
        BY DEF StoredTypes
    <2>3. remains' = [remains EXCEPT ![d] = [remains[d] EXCEPT ![s] = {}]]
        BY <2>1
    <2> DEFINE R == [remains[d] EXCEPT ![s] = {}]
    <2> HIDE DEF R
    <2>4. remains' = [remains EXCEPT ![d] = R] /\ R \in [Slots -> F]
        BY <2>2, <2>3 DEF R
    <2>5. remains' \in [Devices -> [Slots -> F]]
        BY <2>4 DEF StoredTypes
    <2>6. doubt' \in [Devices -> [Slots -> F]]
        BY <2>1 DEF StoredTypes
    <2> QED BY <2>5, <2>6 DEF StoredTypes
<1>3. ASSUME NEW D \in [Slots -> F], Spoilt(D) PROVE StoredTypes'
    <2>1. CASE UNCHANGED remains
        BY <1>3, <2>1 DEF StoredTypes
    <2>2. CASE /\ remains' = [remains EXCEPT ![d] = [s \in Slots |-> Left(d, s)]]
               /\ dev[d].pc = "store"
        <3>1. [s \in Slots |-> Left(d, s)] \in [Slots -> F]
            BY <2>2, OutcomesAreFiles
        <3> QED BY <1>3, <2>2, <3>1 DEF StoredTypes
    <2> QED BY <1>3, <2>1, <2>2
<1>4. CASE StoreFails(d)
    <2> DEFINE D == [s \in Slots |-> doubt[d][s] \cup Outcomes(d, s)]
    <2>1. D \in [Slots -> F]
        <3>1. ASSUME NEW s \in Slots PROVE Outcomes(d, s) \in F
            BY <1>4, OutcomesAreFiles DEF StoreFails
        <3>2. \A s \in Slots : doubt[d][s] \in F
            BY DEF StoredTypes
        <3> QED BY <3>1, <3>2
    <2>2. Spoilt(D)
        BY <1>4 DEF StoreFails, StoredTypes
    <2> HIDE DEF D
    <2> QED BY <1>3, <2>1, <2>2
<1>5. CASE Reset(d)
    <2> DEFINE D == [s \in Slots |-> {}]
    <2>1. D \in [Slots -> F] /\ Spoilt(D)
        BY <1>5 DEF Reset
    <2> HIDE DEF D
    <2> QED BY <1>3, <2>1
<1>6. CASE Store(d)
    BY <1>1, <1>2, <1>6 DEF Store, Settle, stored
<1>7. CASE Host(d)
    BY <1>1, <1>2, <1>7 DEF Host, Begin, HostChange, Settle, stored
<1>8. CASE Deliver(d) \/ SendFails(d) \/ WaitFails(d) \/ Report(d)
    BY <1>1, <1>8 DEF Deliver, SendFails, WaitFails, Report, stored
<1> QED BY <1>4, <1>5, <1>6, <1>7, <1>8 DEF Step

-----------------------------------------------------------------------------
LEMMA InitExchangeInv == Init => ExchangeInv /\ Exchange!Init
<1> SUFFICES ASSUME Init PROVE ExchangeInv /\ Exchange!Init
    OBVIOUS
<1>1. EmptyRing \in Rings(Tuples)
    BY RingAssumption DEF EmptyRing, Rings
<1>2. ASSUME NEW d \in Devices PROVE Local(d, dev[d]) /\ ~ Requesting(dev[d])
    <2> DEFINE w == dev[d]
    <2>1. /\ IsDevice(w) /\ w.pc = "idle" /\ w.cmd = Nothing /\ w.op = "receive"
          /\ w.ses = NoSession /\ w.asks = {} /\ w.got = Nothing /\ w.says = ""
          /\ w.ring = EmptyRing /\ w.files = InitialFiles[d]
        BY DEF Init, IsDevice, Fields
    <2>2. w.files \in [Slots -> Files \cup {NoFile}]
        BY <2>1, PeerAssumption
    <2> HIDE DEF w
    <2>3. Local(d, w) /\ ~ Requesting(w)
        BY <1>1, <2>1, <2>2, IdleLocal
    <2> QED BY <2>3 DEF w
<1>3. Locals /\ Pairs
    <2>1. \A d \in Devices : dev[d].pc # "awaitAnswer"
        BY DEF Init
    <2>2. dev = [d \in Devices |-> dev[d]]
        BY DEF Init
    <2> QED BY <1>2, <2>1, <2>2 DEF Locals, Pairs, Paired
<1>4. begun \in 0 .. MaxCommands /\ resets \in 0 .. MaxResets
    <2>1. MaxCommands \in Nat /\ MaxResets \in Nat
        BY PeerAssumption
    <2>2. begun = 0 /\ resets = 0
        BY DEF Init
    <2> QED BY <2>1, <2>2
<1>5. [d \in Devices |-> dev[d].files] = InitialFiles
    BY PeerAssumption DEF Init
<1>6. Exchange!Init
    BY <1>2, <1>5 DEF Exchange!Init, Init
<1>7. StoredTypes
    BY DEF Init, StoredTypes
<1> QED BY <1>3, <1>4, <1>6, <1>7 DEF ExchangeInv

LEMMA NextExchangeInv == ExchangeInv /\ [Next]_vars => ExchangeInv' /\ ExchangeStep
<1> SUFFICES ASSUME ExchangeInv, [Next]_vars PROVE ExchangeInv' /\ ExchangeStep
    OBVIOUS
<1>1. /\ Locals /\ Pairs /\ StoredTypes
      /\ begun \in 0 .. MaxCommands /\ resets \in 0 .. MaxResets
    BY DEF ExchangeInv
<1>2. CASE UNCHANGED vars
    <2>1. UNCHANGED <<dev, doubt, remains>> /\ begun' = begun /\ resets' = resets
        BY <1>2 DEF vars, stored
    <2>2. ExchangeInv'
        BY <1>1, <2>1 DEF ExchangeInv, Locals, Pairs, StoredTypes
    <2> QED BY <2>1, <2>2 DEF ExchangeStep, Exchange!exchangeVars, Exchange!stored
<1>3. CASE Next
    <2> SUFFICES ASSUME NEW d \in Devices, Host(d) \/ Step(d) \/ Reset(d)
                 PROVE  ExchangeInv' /\ ExchangeStep
        BY <1>3 DEF Next
    <2>1. begun' \in 0 .. MaxCommands /\ resets' \in 0 .. MaxResets
        <3>1. MaxCommands \in Nat /\ MaxResets \in Nat
            BY PeerAssumption
        <3>2. CASE Host(d)
            <4>1. begun < MaxCommands /\ begun' = begun + 1 /\ resets' = resets
                BY <3>2, ZenonT(60) DEF Host, Begin, HostChange
            <4> QED BY <1>1, <3>1, <4>1, SMTT(60)
        <3>3. CASE Step(d)
            BY <1>1, <3>3 DEF Step, Deliver, SendFails, WaitFails, Store, StoreFails, Report
        <3>4. CASE Reset(d)
            <4>1. resets < MaxResets /\ resets' = resets + 1 /\ begun' = begun
                BY <3>4 DEF Reset
            <4> QED BY <1>1, <3>1, <4>1, SMTT(60)
        <3> QED BY <3>2, <3>3, <3>4
    <2>2. Locals' /\ Pairs' /\ ExchangeStep
        BY <1>1, BeginStep, HostChangeStep, DeliverStep, FailsStep, StoreStep, ReportStep,
           ResetStep DEF Host, Step
    <2>3. StoredTypes'
        BY <1>1, StoredStep
    <2> QED BY <2>1, <2>2, <2>3 DEF ExchangeInv
<1> QED BY <1>2, <1>3

(* commands.c: whatever the peers and the line do, a device is in a state  *)
(* its handlers know: it reports what its command can have given it.       *)
THEOREM PeerTypeCorrect == Spec => []TypeOK
<1>1. ExchangeInv => TypeOK
    <2> SUFFICES ASSUME ExchangeInv PROVE TypeOK
        OBVIOUS
    <2>1. ASSUME NEW d \in Devices
          PROVE  LET v == dev[d] IN
                 /\ v.cmd \in Commands \cup {Nothing}
                 /\ v.got = Nothing \/ v.got = Noise
                       \/ IF v.cmd.op = "receive" THEN v.got \in Files ELSE v.got \in Listings
        BY DEF ExchangeInv, Locals, Local, Busy, Requester
    <2>2. ASSUME NEW d \in Devices PROVE Typed(dev[d])
        BY DEF ExchangeInv, Locals, Local
    <2> QED BY <2>1, <2>2 DEF ExchangeInv, StoredTypes, Typed, TypeOK
<1> QED BY InitExchangeInv, NextExchangeInv, <1>1, PTL DEF Spec

(* commands.c:549-776 and 779-975: two devices that exchange packets, lose *)
(* them, time out, fail to store and reset keep the promise of             *)
(* PeerExchange, for any slots, groups, permissions, files and nonces.     *)
THEOREM TransferImplementsExchange == Spec => ImplementsExchange
<1>1. ExchangeInv /\ [Next]_vars => [Exchange!Next]_(Exchange!exchangeVars)
    BY NextExchangeInv DEF ExchangeStep
<1> QED BY InitExchangeInv, NextExchangeInv, <1>1, PTL
        DEF Spec, ImplementsExchange, Exchange!Spec

-----------------------------------------------------------------------------
(* Every step of a command takes it on.                                    *)

Advances(v, w) == StagesLeft(w) \in 0 .. StagesLeft(v) - 1

(* The ways from one label to another.                                     *)
LEMMA LaterStage ==
    ASSUME NEW v, NEW w, v.pc \in Labels,
           \/ v.pc # "idle" /\ w.pc = "idle"
           \/ v.pc \notin {"idle", "report"} /\ w.pc = "report"
           \/ v.pc \in (Sending \cup Awaiting) \ {"deny"} /\ w.pc = "deny"
           \/ v.pc = "sendRequest" /\ w.pc = "awaitChallenge"
           \/ v.pc = "awaitChallenge" /\ w.pc = "sendProof"
           \/ v.pc = "sendProof" /\ w.pc = "awaitAnswer"
           \/ v.pc = "awaitAnswer" /\ w.pc = "store"
           \/ v.pc = "awaitRequest" /\ w.pc = "sendChallenge"
           \/ v.pc = "sendChallenge" /\ w.pc = "awaitProof"
           \/ v.pc = "awaitProof" /\ w.pc = "sendAnswer"
    PROVE  Advances(v, w)
<1>1. ASSUME NEW u
      PROVE  /\ u.pc = "idle" => StagesLeft(u) = 0
             /\ u.pc = "report" => StagesLeft(u) = 1
             /\ u.pc = "deny" => StagesLeft(u) = 2
             /\ u.pc = "store" => StagesLeft(u) = 3
             /\ u.pc \in {"awaitAnswer", "sendAnswer"} => StagesLeft(u) = 4
             /\ u.pc \in {"sendProof", "awaitProof"} => StagesLeft(u) = 5
             /\ u.pc \in {"awaitChallenge", "sendChallenge"} => StagesLeft(u) = 6
             /\ u.pc \in {"sendRequest", "awaitRequest"} => StagesLeft(u) = 7
    BY DEF StagesLeft
<1> DEFINE m == StagesLeft(v)
           n == StagesLeft(w)
<1>2. /\ m \in 0 .. 7
      /\ v.pc # "idle" => m >= 1
      /\ v.pc \notin {"idle", "report"} => m >= 2
      /\ v.pc \in (Sending \cup Awaiting) \ {"deny"} => m >= 4
    BY <1>1 DEF Labels, Sending, Awaiting
<1>3. \/ m >= 1 /\ n = 0
      \/ m >= 2 /\ n = 1
      \/ m >= 4 /\ n = 2
      \/ m = 7 /\ n = 6
      \/ m = 6 /\ n = 5
      \/ m = 5 /\ n = 4
      \/ m = 4 /\ n = 3
    BY <1>1, <1>2
<1> HIDE DEF m, n
<1>4. n \in 0 .. m - 1
    BY <1>2, <1>3
<1> QED BY <1>4 DEF Advances, m, n

LEMMA ReadAdvances ==
    ASSUME NEW d \in Devices, Local(d, dev[d]), dev[d].pc \in Awaiting,
           NEW u, Local(Peer(d), u), u.pc \in Sending, Paired(dev[d], u),
           NEW n, IsPacket(Peer(d), u, n),
           NEW w \in On(d, n)
    PROVE  Advances(dev[d], w)
<1> DEFINE v == dev[d]
<1>1. Typed(u) /\ v.pc \in Labels
    BY DEF Local, Typed
<1>2. CASE v.pc = "awaitRequest"
    <2>1. w.pc \in {"report", "deny", "sendChallenge"}
        BY <1>1, <1>2, RequestRead DEF On
    <2> QED BY <1>1, <1>2, <2>1, LaterStage DEF Awaiting
<1>3. CASE v.pc = "awaitChallenge"
    <2>1. w.pc \in {"report", "sendProof"}
        BY <1>1, <1>3, ChallengeRead DEF On
    <2> QED BY <1>1, <1>3, <2>1, LaterStage
<1>4. CASE v.pc = "awaitProof"
    <2>1. w.pc \in {"deny", "sendAnswer"}
        BY <1>1, <1>4, ProofRead DEF On
    <2> QED BY <1>1, <1>4, <2>1, LaterStage DEF Awaiting
<1>5. CASE v.pc = "awaitAnswer"
    <2>1. w.pc \in {"report", "store"}
        BY <1>5, AnswerRead DEF On
    <2> QED BY <1>1, <1>5, <2>1, LaterStage
<1> QED BY <1>2, <1>3, <1>4, <1>5 DEF Awaiting

(* A packet that was sent, and one that was not.                           *)
LEMMA SendAdvances ==
    ASSUME NEW d \in Devices, NEW v, Local(d, v), v.pc \in Sending,
           NEW w \in {Sent(v), NotSent(v)}
    PROVE  Advances(v, w)
<1>1. v.pc \in Labels /\ v = [f \in Fields |-> v[f]]
    BY DEF Local, Typed, IsDevice
<1>2. \/ w.pc = "report"
      \/ v.pc = "sendRequest" /\ w.pc = "awaitChallenge"
      \/ v.pc = "sendChallenge" /\ w.pc = "awaitProof"
      \/ v.pc = "sendProof" /\ w.pc = "awaitAnswer"
    BY <1>1 DEF Sent, NotSent, Fail, Sending, Fields
<1>3. v.pc \notin {"idle", "report"}
    BY DEF Sending
<1> QED BY <1>1, <1>2, <1>3, LaterStage

(* What a step of the other device, or none, leaves to be shown.           *)
LEMMA OneAdvances ==
    ASSUME Locals, NEW d \in Devices, NEW w, dev' = [dev EXCEPT ![d] = w],
           dev[d].pc # "idle" => Advances(dev[d], w)
    PROVE  \A c \in Devices : dev[c].pc # "idle" /\ dev'[c] # dev[c] => Advances(dev[c], dev'[c])
<1>1. dev' = [c \in Devices |-> IF c = d THEN w ELSE dev[c]]
    BY DEF Locals
<1> QED BY <1>1

(* A step of the host begins nothing while a command runs.                 *)
LEMMA HostAdvances ==
    ASSUME Locals, NEW d \in Devices, Host(d)
    PROVE  \A c \in Devices : dev[c].pc # "idle" /\ dev'[c] # dev[c] => Advances(dev[c], dev'[c])
<1>1. dev[d].pc = "idle"
    BY DEF Host, Begin, HostChange
<1>2. \E w : dev' = [dev EXCEPT ![d] = w]
    BY DEF Host, Begin, HostChange
<1> QED BY <1>1, <1>2, OneAdvances

LEMMA DeliverAdvances ==
    ASSUME Locals, Pairs, NEW d \in Devices, Deliver(d)
    PROVE  \A c \in Devices : dev[c].pc # "idle" /\ dev'[c] # dev[c] => Advances(dev[c], dev'[c])
<1> DEFINE e == Peer(d)
           u == dev[d]
           v == dev[e]
           m == PacketOf(d)
<1>1. e \in Devices /\ e # d /\ Devices = {d, e} /\ Peer(e) = d
      /\ Local(d, u) /\ Local(e, v)
    BY PeerIsOther, PeerOfPeer DEF Locals
<1>2. PICK n \in {m, [m EXCEPT !.cmd = "unknown"]}, x \in {Sent(u), NotSent(u)} :
         \E w \in On(e, n) : dev' = [dev EXCEPT ![d] = x, ![e] = w]
    <2>1. PICK w \in On(e, m) \cup On(e, [m EXCEPT !.cmd = "unknown"]),
               x \in {Sent(u), NotSent(u)} :
             dev' = [dev EXCEPT ![d] = x, ![e] = w]
        BY DEF Deliver
    <2> QED BY <2>1
<1>3. PICK w \in On(e, n) : dev' = [dev EXCEPT ![d] = x, ![e] = w]
    BY <1>2
<1>4. u.pc \in Sending /\ v.pc \in Awaiting
    BY DEF Deliver
<1>5. IsPacket(d, u, n) /\ Paired(v, u)
    <2>1. IsPacket(d, u, n)
        BY <1>1, <1>4, PacketIs
    <2> QED BY <1>1, <2>1 DEF Pairs
<1> HIDE DEF e, m
<1>6. Advances(u, x)
    BY <1>1, <1>2, <1>4, SendAdvances
<1>7. Advances(v, w)
    BY <1>1, <1>3, <1>4, <1>5, ReadAdvances
<1>8. dev' = [c \in Devices |-> IF c = d THEN x ELSE w]
    BY <1>1, <1>3 DEF Locals
<1> QED BY <1>1, <1>6, <1>7, <1>8

(* The other steps: each ends its command, or gives it up.                 *)
LEMMA AloneAdvances ==
    ASSUME Locals, NEW d \in Devices,
           SendFails(d) \/ WaitFails(d) \/ Store(d) \/ StoreFails(d) \/ Report(d) \/ Reset(d)
    PROVE  \A c \in Devices : dev[c].pc # "idle" /\ dev'[c] # dev[c] => Advances(dev[c], dev'[c])
<1> DEFINE v == dev[d]
<1>1. Local(d, v) /\ v.pc \in Labels /\ v = [f \in Fields |-> v[f]]
    BY DEF Locals, Local, Typed, IsDevice
<1>2. CASE SendFails(d)
    <2>1. dev' = [dev EXCEPT ![d] = NotSent(v)] /\ v.pc \in Sending
        BY <1>2 DEF SendFails
    <2>2. Advances(v, NotSent(v))
        BY <1>1, <2>1, SendAdvances
    <2> QED BY <2>1, <2>2, OneAdvances
<1>3. CASE WaitFails(d)
    <2> DEFINE w == CASE v.pc = "awaitRequest" -> Fail(v, "no request")
                      [] v.pc = "awaitProof" -> Deny(v, v.op)
                      [] v.pc \in {"awaitChallenge", "awaitAnswer"} -> Fail(v, "no response")
    <2>1. dev' = [dev EXCEPT ![d] = w] /\ v.pc \in Awaiting
        BY <1>3 DEF WaitFails
    <2>2. w.pc \in {"report", "deny"}
        BY <1>1, <2>1 DEF Awaiting, Fail, Deny, Fields
    <2> HIDE DEF w
    <2>3. Advances(v, w)
        BY <1>1, <2>1, <2>2, LaterStage DEF Awaiting
    <2> QED BY <2>1, <2>3, OneAdvances
<1>4. CASE Store(d)
    <2> DEFINE f == [v.files EXCEPT ![v.cmd.write] = Whole(v)]
               w == IF v.got.group \notin CanReceive[d] THEN Fail(v, "invalid permission")
                    ELSE [v EXCEPT !.pc = "report", !.says = "ok", !.files = f]
    <2>1. dev' = [dev EXCEPT ![d] = w]
        BY <1>4, ZenonT(60) DEF Store
    <2> HIDE DEF f
    <2>3. w.pc = "report"
        BY <1>1 DEF Fail, Fields
    <2> HIDE DEF w
    <2>2. Advances(v, w)
        BY <1>1, <1>4, <2>3, LaterStage DEF Store
    <2> QED BY <2>1, <2>2, OneAdvances
<1>5. CASE StoreFails(d)
    <2> DEFINE w(f) == [v EXCEPT !.pc = "report", !.says = "store failed",
                                 !.files = [@ EXCEPT ![v.cmd.write] = f]]
    <2>1. PICK f : dev' = [dev EXCEPT ![d] = w(f)]
        BY <1>5, ZenonT(60) DEF StoreFails, Fail
    <2>3. w(f).pc = "report"
        BY <1>1 DEF Fields
    <2> HIDE DEF w
    <2>2. Advances(v, w(f))
        BY <1>1, <1>5, <2>3, LaterStage DEF StoreFails
    <2> QED BY <2>1, <2>2, OneAdvances
<1>6. CASE Report(d) \/ Reset(d)
    <2> DEFINE w(f) == [Idle(v) EXCEPT !.ring = EmptyRing, !.accepted = <<>>, !.files = f]
    <2>1. \/ dev' = [dev EXCEPT ![d] = Idle(v)]
          \/ \E f : dev' = [dev EXCEPT ![d] = w(f)]
        BY <1>6, ZenonT(60) DEF Report, Reset
    <2>2. Idle(v).pc = "idle" /\ \A f : w(f).pc = "idle"
        BY <1>1 DEF Idle, Fields
    <2> HIDE DEF w
    <2>3. /\ v.pc # "idle" => Advances(v, Idle(v))
          /\ \A f : v.pc # "idle" => Advances(v, w(f))
        BY <1>1, <2>2, LaterStage
    <2> QED BY <2>1, <2>3, OneAdvances
<1> QED BY <1>2, <1>3, <1>4, <1>5, <1>6

(* commands.c: a command only ever goes on, whatever the other device      *)
(* sends or fails to send: it ends after at most seven packets and local   *)
(* steps of its device.                                                    *)
THEOREM CommandsOnlyAdvance == Spec => CommandsAdvance
<1> DEFINE A == \A d \in Devices :
                   dev[d].pc # "idle" /\ dev'[d] # dev[d]
                      => StagesLeft(dev'[d]) \in 0 .. StagesLeft(dev[d]) - 1
<1>1. ASSUME ExchangeInv, Next
      PROVE  A
    <2>1. Locals /\ Pairs
        BY <1>1 DEF ExchangeInv
    <2>2. PICK d \in Devices : Host(d) \/ Step(d) \/ Reset(d)
        BY <1>1 DEF Next
    <2>3. \A c \in Devices : dev[c].pc # "idle" /\ dev'[c] # dev[c] => Advances(dev[c], dev'[c])
        BY <2>1, <2>2, HostAdvances, DeliverAdvances, AloneAdvances DEF Step
    <2> QED BY <2>3 DEF Advances
<1>2. ExchangeInv /\ [Next]_vars => [A]_vars
    BY <1>1
<1> QED BY InitExchangeInv, NextExchangeInv, <1>2, PTL DEF Spec, CommandsAdvance
=============================================================================
