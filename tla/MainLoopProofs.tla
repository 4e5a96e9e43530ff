--------------------------- MODULE MainLoopProofs ---------------------------
(***************************************************************************)
(* The watchdog never cuts local work, for every period and every length   *)
(* of the stages that TimeAssumption allows.                               *)
(***************************************************************************)
EXTENDS MainLoop, TLAPS

(* Which commands come by which stage, and when the TRNG is at work.       *)
Route ==
    /\ pc \in {"gate", "pinWrite"} => cmd \in Local \cup Exchanging
    /\ pc \in {"nonce", "peer"} => cmd \in Exchanging
    /\ trng # "idle" => Drawing /\ words > 0

(* How much of the period is gone when a stage has taken `used' ticks: at  *)
(* most two stages of flash work came before it since the last restart,    *)
(* and fail_delay has restarted the watchdog at every KickEvery ticks.     *)
Margin ==
    /\ pc = "gate" => wd <= used
    /\ pc \in {"pinWrite", "missWrite"} => wd <= WorkTicks + used
    /\ pc = "work" /\ cmd \in Local => wd <= 2 * WorkTicks + used
    /\ pc = "delay" => IF used = 0 THEN wd <= 2 * WorkTicks
                       ELSE wd = (used - 1) % KickEvery

Inv == TypeOK /\ Route /\ Margin

-----------------------------------------------------------------------------
(* A remainder is known by its quotient.                                   *)
LEMMA Remainder ==
    ASSUME NEW n \in Nat, NEW K \in Nat \ {0}, NEW q \in Nat, NEW r \in 0 .. K - 1,
           n = K * q + r
    PROVE  n % K = r
BY SMT

(* The tick after one that does not end a round of fail_delay is one       *)
(* further into the round.                                                 *)
LEMMA NextInRound ==
    ASSUME NEW n \in Nat \ {0}, NEW K \in Nat \ {0}, n % K # 0
    PROVE  n % K = ((n - 1) % K) + 1
<1> DEFINE m == n - 1
           q == m \div K
           r == m % K
<1>1. m \in Nat /\ q \in Nat /\ r \in 0 .. K - 1 /\ m = K * q + r
    BY SMT
<1> HIDE DEF q, r
<1>2. CASE r + 1 < K
    <2>1. n = K * q + (r + 1) /\ r + 1 \in 0 .. K - 1
        BY <1>1, <1>2
    <2>2. n % K = r + 1
        BY <1>1, <2>1, Remainder
    <2> QED BY <2>2 DEF r
<1>3. CASE r + 1 = K
    <2>1. n = K * (q + 1) + 0 /\ q + 1 \in Nat /\ 0 \in 0 .. K - 1
        BY <1>1, <1>3
    <2>2. n % K = 0
        BY <2>1, Remainder
    <2> QED BY <2>2
<1> QED BY <1>1, <1>2, <1>3

LEMMA Times ==
    /\ Period \in Nat /\ XferTicks \in Nat /\ WorkTicks \in Nat \ {0}
    /\ DelayTicks \in Nat \ {0} /\ KickEvery \in Nat \ {0} /\ PeerBytes \in Nat
    /\ SeedWords \in Nat /\ NonceWords \in Nat
    /\ 3 * WorkTicks < Period /\ KickEvery + 2 * WorkTicks < Period
BY TimeAssumption

LEMMA InitInv == Init => Inv
BY Times DEF Init, Inv, TypeOK, Route, Margin, Stages, Bounded, Longest

-----------------------------------------------------------------------------
(* Going back to the top of the loop.                                      *)
LEMMA LoopKeeps == ASSUME Inv, Loop, ~ Drawing PROVE Inv'
BY Times DEF Inv, TypeOK, Route, Margin, Loop, Goto, Stages, Bounded, Longest, Drawing, Local

LEMMA TickStep == ASSUME Inv, Tick PROVE Inv'
<1> USE Times DEF Tick, Running
<1>1. wd' \in 0 .. Period
    BY DEF Inv, TypeOK
<1>2. used' \in Nat /\ (pc \in Bounded => used' <= Longest(pc))
    <2>1. used + 1 \in Nat /\ used \in Nat
        BY DEF Inv, TypeOK
    <2>2. CASE pc \in Bounded
        <3>1. used' = used + 1 /\ used < Longest(pc) /\ Longest(pc) \in Nat
            BY <2>2 DEF Longest
        <3> QED BY <2>1, <3>1
    <2>3. CASE pc \notin Bounded
        BY <2>3
    <2> QED BY <2>2, <2>3
<1>3. TypeOK'
    BY <1>1, <1>2 DEF Inv, TypeOK, Longest
<1>4. Route'
    BY DEF Inv, Route, Drawing
<1>5. CASE pc = "delay"
    <2>1. used \in Nat /\ used' = used + 1
        BY <1>5 DEF Inv, TypeOK, Bounded
    <2>2. wd' = used % KickEvery
        <3>1. CASE used % KickEvery = 0
            BY <1>5, <3>1
        <3>2. CASE used % KickEvery # 0
            <4>1. used # 0 \/ used % KickEvery = 0
                BY <2>1, SMT
            <4>2. used % KickEvery = ((used - 1) % KickEvery) + 1
                BY <2>1, <3>2, <4>1, NextInRound
            <4> QED BY <1>5, <3>2, <4>1, <4>2 DEF Inv, Margin
        <3> QED BY <3>1, <3>2
    <2> QED BY <1>3, <1>4, <1>5, <2>1, <2>2 DEF Inv, Margin
<1>6. CASE pc # "delay"
    <2>1. pc \in {"gate", "pinWrite", "missWrite", "work"} => used' = used + 1
        BY DEF Bounded
    <2>2. wd' = wd + 1 /\ used \in Nat /\ wd \in Nat
        BY <1>6 DEF Inv, TypeOK
    <2> QED BY <1>3, <1>4, <1>6, <2>1, <2>2 DEF Inv, Margin
<1> QED BY <1>5, <1>6

(* The steps of the TRNG happen in its own stages only.                    *)
LEMMA DrawStep ==
    ASSUME Inv, Draw \/ TrngFails \/ TrngRecovers
    PROVE  Inv'
<1>1. CASE TrngRecovers
    BY <1>1 DEF TrngRecovers, Inv, TypeOK, Route, Margin, Drawing
<1>2. CASE SendCommand
    BY <1>2 DEF SendCommand, Inv, TypeOK, Route, Margin, Drawing
<1>3. CASE GetWord
    BY <1>3, Times DEF GetWord, Inv, TypeOK, Route, Margin, Drawing
<1>4. CASE TrngAnswers
    BY <1>4 DEF TrngAnswers, Inv, TypeOK, Route, Margin, Drawing
<1>5. CASE TrngFails
    BY <1>5, Times DEF TrngFails, Running, Inv, TypeOK, Route, Margin, Drawing
<1> QED BY <1>1, <1>2, <1>3, <1>4, <1>5 DEF Draw

(* On to the next stage, which starts with what its predecessors left.     *)
LEMMA StageKeeps ==
    ASSUME Inv, NEW s \in Stages, Stage(s), UNCHANGED <<words, late>>, ~ Drawing \/ words = 0,
           s \in {"gate", "pinWrite"} => cmd \in Local \cup Exchanging,
           s \in {"nonce", "peer"} => cmd \in Exchanging,
           s = "gate" => wd = 0,
           s \in {"pinWrite", "missWrite"} => wd <= WorkTicks,
           s = "work" /\ cmd \in Local => wd <= 2 * WorkTicks,
           s = "delay" => wd <= 2 * WorkTicks
    PROVE  Inv'
<1> USE Times DEF Stage, Goto
<1>1. TypeOK'
    <2>1. 0 <= Longest(s)
        BY DEF Longest
    <2> QED BY <2>1 DEF Inv, TypeOK, Longest
<1>2. Route'
    BY DEF Inv, Route, TypeOK
<1>3. Margin'
    BY DEF Inv, TypeOK, Margin
<1> QED BY <1>1, <1>2, <1>3 DEF Inv

LEMMA GateStep == ASSUME Inv, Gate PROVE Inv'
<1>1. /\ pc = "gate" /\ wd <= WorkTicks /\ wd <= 2 * WorkTicks /\ ~ Drawing
      /\ cmd \in Local \cup Exchanging
    <2>1. pc = "gate" /\ used <= WorkTicks /\ wd <= used /\ wd \in Nat /\ used \in Nat
        BY Times DEF Gate, Inv, TypeOK, Margin, Bounded, Longest
    <2> QED BY <2>1, Times DEF Inv, Route, Drawing
<1>2. CASE Loop
    BY <1>1, <1>2, LoopKeeps
<1>3. CASE Stage("missWrite") /\ UNCHANGED <<words, late>>
    BY <1>1, <1>3, StageKeeps DEF Stages
<1>4. CASE Stage("pinWrite") /\ UNCHANGED <<words, late>>
    BY <1>1, <1>4, StageKeeps DEF Stages
<1>5. CASE /\ Stage(IF cmd \in Local THEN "work" ELSE "nonce")
           /\ UNCHANGED <<words, late>>
    <2>1. CASE cmd \in Local
        BY <1>1, <1>5, <2>1, StageKeeps DEF Stages
    <2>2. CASE cmd \notin Local
        BY <1>1, <1>5, <2>2, StageKeeps DEF Stages
    <2> QED BY <2>1, <2>2
<1> QED BY <1>2, <1>3, <1>4, <1>5 DEF Gate

LEMMA PinWriteStep == ASSUME Inv, PinWritten \/ MissWritten PROVE Inv'
<1>1. wd <= 2 * WorkTicks /\ ~ Drawing
    <2>1. /\ pc \in {"pinWrite", "missWrite"}
          /\ used <= WorkTicks /\ wd <= WorkTicks + used /\ wd \in Nat /\ used \in Nat
        BY Times DEF PinWritten, MissWritten, Inv, TypeOK, Margin, Bounded, Longest
    <2> QED BY <2>1, Times DEF Drawing
<1>2. CASE MissWritten
    BY <1>1, <1>2, StageKeeps DEF MissWritten, Stages
<1>3. CASE PinWritten
    <2>1. cmd \in Local \cup Exchanging
        BY <1>3 DEF PinWritten, Inv, Route
    <2>2. CASE cmd \in Local
        BY <1>1, <1>3, <2>2, StageKeeps DEF PinWritten, Stages
    <2>3. CASE cmd \notin Local
        BY <1>1, <1>3, <2>1, <2>3, StageKeeps DEF PinWritten, Stages
    <2> QED BY <2>2, <2>3
<1> QED BY <1>2, <1>3

(* Commands that exchange packets with the peer are not local.             *)
LEMMA PeerStep == ASSUME Inv, NonceDrawn \/ PeerByte \/ PeerEnds PROVE Inv'
<1>1. cmd \in Exchanging /\ cmd \notin Local
    BY DEF NonceDrawn, PeerByte, PeerEnds, Inv, Route, Exchanging, Local
<1>2. CASE NonceDrawn
    BY <1>1, <1>2, StageKeeps DEF NonceDrawn, Stages
<1>3. CASE PeerByte
    <2>1. /\ pc = "peer" /\ pc' = "peer" /\ used' = 0 /\ late' \in 0 .. PeerBytes
          /\ UNCHANGED <<cmd, wd, trng, reliable, words>>
        BY <1>3, Times DEF PeerByte, Stage, Goto, Inv, TypeOK
    <2> QED BY <2>1, Times DEF Inv, TypeOK, Route, Margin, Drawing, Longest
<1>4. CASE PeerEnds
    <2>1. pc = "peer" /\ ~ Drawing
        BY <1>4 DEF PeerEnds, Drawing
    <2>2. CASE Loop
        BY <2>1, <2>2, LoopKeeps
    <2>3. ASSUME ~ Loop PROVE Inv'
        <3>1. CASE cmd = "receive"
            BY <1>1, <1>4, <2>1, <2>3, <3>1, StageKeeps DEF PeerEnds, Stages
        <3>2. CASE cmd = "interrogate"
            BY <1>1, <1>4, <2>1, <2>3, <3>2, StageKeeps DEF PeerEnds, Stages
        <3>3. CASE cmd = "listen" /\ words > 0
            BY <1>1, <1>4, <2>1, <2>3, <3>3, StageKeeps DEF PeerEnds, Stages
        <3>4. CASE cmd = "listen" /\ ~ words > 0
            BY <1>1, <1>4, <2>1, <2>3, <3>4, StageKeeps DEF PeerEnds, Stages
        <3> QED BY <1>1, <3>1, <3>2, <3>3, <3>4 DEF Exchanging
    <2> QED BY <2>2, <2>3
<1> QED BY <1>2, <1>3, <1>4

LEMMA PacketStep == ASSUME Inv, NEW c \in Commands, Packet(c) PROVE Inv'
<1>1. CASE c = "bad"
    BY <1>1, LoopKeeps DEF Packet, Drawing
<1>2. CASE c # "bad"
    <2>1. /\ pc = "host" /\ pc' = StageOf(c) /\ used' = 0 /\ cmd' = c /\ wd' = 0
          /\ words' \in {0, NonceWords} /\ late' \in 0 .. PeerBytes
          /\ UNCHANGED <<trng, reliable>>
        BY <1>2, Times DEF Packet, Goto
    <2>2. /\ StageOf(c) \in {"peer", "answer", "gate"}
          /\ StageOf(c) = "peer" => c \in Exchanging
          /\ StageOf(c) = "gate" => c \in Local \cup Exchanging
        BY <1>2 DEF StageOf, Exchanging, Unguarded, Commands
    <2>3. trng = "idle"
        BY <2>1 DEF Inv, Route, Drawing
    <2> QED BY <2>1, <2>2, <2>3, Times
            DEF Inv, TypeOK, Route, Margin, Drawing, Stages, Longest
<1> QED BY <1>1, <1>2

LEMMA NextInv == ASSUME Inv, [Next]_vars PROVE Inv'
<1>1. CASE Boot
    BY <1>1, Times DEF Boot, Goto, Inv, TypeOK, Route, Margin, Drawing, Stages, Bounded
<1>2. CASE Bite
    BY <1>2, Times DEF Bite, Goto, Inv, TypeOK, Route, Margin, Drawing, Stages, Bounded
<1>3. CASE SelfTestEnds
    <2>1. trng = "idle" /\ Loop
        BY <1>3 DEF SelfTestEnds, Inv, Route, TypeOK
    <2> QED BY <2>1, Times
            DEF Loop, Goto, Inv, TypeOK, Route, Margin, Drawing, Stages, Bounded
<1>4. CASE DelayEnds
    BY <1>4, LoopKeeps DEF DelayEnds, Drawing
<1>5. CASE WorkEnds
    <2>1. pc \in {"work", "store"} /\ ~ Drawing
        BY <1>5 DEF WorkEnds, Drawing
    <2>2. CASE Loop
        BY <2>1, <2>2, LoopKeeps
    <2>3. CASE Stage("answer") /\ UNCHANGED <<words, late>>
        BY <2>1, <2>3, StageKeeps DEF Stages
    <2> QED BY <1>5, <2>2, <2>3 DEF WorkEnds
<1>6. CASE Answered
    BY <1>6, LoopKeeps DEF Answered, Drawing
<1>7. CASE UNCHANGED vars
    BY <1>7 DEF vars, Inv, TypeOK, Route, Margin, Drawing
<1> QED BY <1>1, <1>2, <1>3, <1>4, <1>5, <1>6, <1>7, TickStep, DrawStep, GateStep,
           PinWriteStep, PeerStep, PacketStep DEF Next, Draw, Leave, Host

(* The variables have their types; the watchdog's counter never passes its *)
(* period and no stage takes longer than it may.                           *)
THEOREM TypeCorrect == Spec => []TypeOK
<1>1. Inv => TypeOK
    BY DEF Inv
<1> QED BY <1>1, InitInv, NextInv, PTL DEF Spec

(* The watchdog never cuts the rewrite of the PIN page, fail_delay, or the *)
(* flash work of a command that waits for nobody.                          *)
THEOREM LocalWorkUncut == Spec => []LocalWorkNotBitten
<1>1. Inv => LocalWorkNotBitten
    <2> SUFFICES ASSUME Inv, wd = Period
                 PROVE  /\ pc \notin {"gate", "pinWrite", "missWrite", "delay"}
                        /\ pc = "work" => cmd \notin Local
        BY DEF LocalWorkNotBitten
    <2>1. used \in Nat /\ (pc \in {"gate", "pinWrite", "missWrite", "work"} => used <= WorkTicks)
        BY DEF Inv, TypeOK, Bounded, Longest
    <2>2. pc = "delay" /\ used # 0 => (used - 1) % KickEvery < KickEvery
        <3>1. used # 0 => used - 1 \in Nat
            BY <2>1
        <3> QED BY <3>1, Times, SMT
    <2> QED BY <2>1, <2>2, Times DEF Inv, Margin
<1> QED BY <1>1, InitInv, NextInv, PTL DEF Spec

-----------------------------------------------------------------------------
(* The way back to service.                                                *)

Word == IF trng = "idle" THEN 2 ELSE IF trng = "capturing" THEN 1 ELSE 0

InCommand == Stages \ {"host", "selftest", "boot", "delay", "missWrite"}

(* The parts of the distance, and the distance stage by stage.             *)
PartsAre ==
    /\ words \in Nat /\ late \in Nat /\ used \in Nat
    /\ wd \in Nat /\ wd <= Period
    /\ pc = "delay" => used <= DelayTicks
    /\ Word \in 0 .. 2 /\ Draws = 3 * words + Word
    /\ StagesLeft \in 0 .. 6
    /\ pc \in Stages

DistanceIs ==
    /\ pc = "host" => Distance = 0
    /\ pc = "selftest" => Distance = 1 + Draws + IF wd = Period THEN AfterReset ELSE 0
    /\ pc = "boot" => Distance = 3 * SeedWords + 2 + Word
    /\ pc = "delay" => Distance = AfterReset + 1 + (DelayTicks - used)
    /\ pc = "missWrite" => Distance = AfterReset + 2 + DelayTicks + (Period - wd)
    /\ pc \in InCommand =>
          Distance = AfterReset + 3 + DelayTicks + (Period - wd) + Draws + late + StagesLeft

LEMMA Parts == Inv => PartsAre /\ DistanceIs
<1> SUFFICES ASSUME Inv PROVE PartsAre /\ DistanceIs
    OBVIOUS
<1>1. /\ words \in Nat /\ late \in Nat /\ used \in Nat
      /\ wd \in Nat /\ wd <= Period /\ pc \in Stages
    BY Times DEF Inv, TypeOK
<1>2. pc = "delay" => used <= DelayTicks
    BY DEF Inv, TypeOK, Bounded, Longest
<1>3. Word \in 0 .. 2 /\ Draws = 3 * words + Word
    BY DEF Word, Draws
<1>4. StagesLeft \in 0 .. 6
    BY DEF StagesLeft
<1>5. DistanceIs
    BY DEF DistanceIs, Distance, Word, InCommand
<1> QED BY <1>1, <1>2, <1>3, <1>4, <1>5 DEF PartsAre

LEMMA PartsAfter == Inv' => PartsAre' /\ DistanceIs'
BY Parts, PTL

(* A device that boots has just been reset: its watchdog is not running.   *)
JustReset == pc = "boot" => wd = 0

LEMMA JustResetKept == Inv /\ JustReset /\ [Next]_vars => JustReset'
<1> SUFFICES ASSUME Inv, JustReset, [Next]_vars PROVE JustReset'
    OBVIOUS
<1> USE DEF JustReset
<1>1. CASE Bite
    BY <1>1 DEF Bite
<1>2. CASE Tick \/ Draw \/ TrngFails \/ TrngRecovers \/ UNCHANGED vars
    BY <1>2 DEF Tick, Running, Draw, SendCommand, GetWord, TrngAnswers, TrngFails, TrngRecovers,
                vars
<1>3. CASE Boot \/ Leave \/ PeerByte \/ Host
    <2>1. pc' # "boot"
        BY <1>3 DEF Boot, Leave, SelfTestEnds, Gate, PinWritten, MissWritten, DelayEnds, NonceDrawn,
                    PeerEnds, WorkEnds, PeerByte, Host, Answered, Packet, StageOf, Loop, Stage, Goto,
                    Inv, Route, Exchanging
    <2> QED BY <2>1
<1> QED BY <1>1, <1>2, <1>3 DEF Next

(* While the TRNG answers, every step outside the top of the loop goes     *)
(* down.                                                                   *)
LEMMA DistanceFalls ==
    ASSUME Inv, Inv', JustReset, Next, reliable, pc # "host"
    PROVE  Distance' \in 0 .. Distance - 1
<1> DEFINE Falls == Distance' \in 0 .. Distance - 1
<1>0. PartsAre /\ DistanceIs /\ PartsAre' /\ DistanceIs'
    BY Parts, PartsAfter
<1>c. /\ AfterReset \in Nat /\ AfterReset = 3 * SeedWords + 4 /\ DelayTicks \in Nat
      /\ SeedWords \in Nat /\ Period \in Nat /\ Period > 0
    BY Times DEF AfterReset
<1>1. /\ Distance \in Nat /\ Distance > 0
      /\ pc \in InCommand \/ pc \in {"delay", "missWrite"} => Distance > AfterReset
    BY <1>0, <1>c DEF PartsAre, DistanceIs, InCommand
<1>2. ASSUME Loop PROVE Falls
    BY <1>0, <1>1, <1>2 DEF Loop, Goto, DistanceIs
<1>3. CASE Boot
    <2>1. pc = "boot" /\ pc' = "selftest" /\ wd' = 0 /\ words' = SeedWords /\ Word' = Word
        BY <1>3 DEF Boot, Goto, Word
    <2>2. Distance' = 1 + (3 * SeedWords + Word) /\ Distance = 3 * SeedWords + 2 + Word
        BY <1>0, <1>c, <2>1 DEF PartsAre, DistanceIs
    <2> QED BY <1>0, <1>c, <2>2 DEF PartsAre
<1>4. CASE Bite
    <2>1. pc' = "boot" /\ Word' = 2 /\ wd = Period
        BY <1>4 DEF Bite, Goto, Word
    <2>2. pc # "boot"
        BY <1>c, <2>1 DEF JustReset
    <2>3. Distance' = AfterReset
        BY <1>0, <1>c, <2>1 DEF DistanceIs
    <2>4. Distance > AfterReset
        <3>1. CASE pc = "selftest"
            BY <1>0, <1>c, <2>1, <3>1 DEF PartsAre, DistanceIs
        <3> QED BY <1>0, <1>1, <2>2, <3>1 DEF PartsAre, InCommand
    <2> QED BY <1>1, <1>c, <2>3, <2>4
(* A tick: the watchdog's, or fail_delay's own.                            *)
<1>5. CASE Tick
    <2>1. /\ pc' = pc /\ wd < Period /\ pc \notin {"boot", "selftest", "nonce"}
          /\ UNCHANGED <<words, late, trng>>
          /\ pc = "delay" => used < DelayTicks /\ used' = used + 1
          /\ pc # "delay" => wd' = wd + 1
        BY <1>5 DEF Tick, Running, Drawing, Bounded, Longest
    <2>2. Draws' = Draws /\ StagesLeft' = StagesLeft
        BY <2>1 DEF Draws, StagesLeft
    <2>3. CASE pc = "delay"
        BY <1>0, <1>c, <2>1, <2>3 DEF PartsAre, DistanceIs
    <2>4. CASE pc = "missWrite"
        BY <1>0, <1>c, <2>1, <2>4 DEF PartsAre, DistanceIs
    <2>5. CASE pc \in InCommand
        <3>1. /\ Distance = AfterReset + 3 + DelayTicks + (Period - wd) + Draws + late + StagesLeft
              /\ Distance' = AfterReset + 3 + DelayTicks + (Period - wd') + Draws + late + StagesLeft
              /\ wd' = wd + 1
            BY <1>0, <2>1, <2>2, <2>5 DEF DistanceIs, InCommand
        <3>2. Distance' = Distance - 1
            BY <1>0, <1>c, <3>1 DEF PartsAre
        <3> QED BY <1>1, <3>2
    <2> QED BY <1>0, <2>1, <2>3, <2>4, <2>5 DEF PartsAre, InCommand
(* The TRNG: a step of the three a word takes.                             *)
<1>6. CASE Draw
    <2>1. /\ UNCHANGED <<pc, wd, used, late>>
          /\ \/ trng = "idle" /\ trng' = "capturing" /\ words' = words
             \/ trng = "capturing" /\ trng' = "ready" /\ words' = words
             \/ trng = "ready" /\ trng' = "idle" /\ words > 0 /\ words' = words - 1
        BY <1>6 DEF Draw, SendCommand, GetWord, TrngAnswers
    <2>2. pc \in {"selftest", "nonce"}
        BY <1>6 DEF Draw, SendCommand, GetWord, TrngAnswers, Inv, Route, Drawing
    <2>3. Draws' = Draws - 1 /\ StagesLeft' = StagesLeft
        <3>1. /\ words \in Nat /\ words' \in Nat
              /\ Draws = 3 * words + Word /\ Draws' = 3 * words' + Word'
            BY <1>0 DEF PartsAre
        <3>2. \/ Word = 2 /\ Word' = 1 /\ words' = words
              \/ Word = 1 /\ Word' = 0 /\ words' = words
              \/ Word = 0 /\ Word' = 2 /\ words' = words - 1
            BY <2>1 DEF Word
        <3>3. Draws' = Draws - 1
            BY <3>1, <3>2
        <3>4. StagesLeft' = StagesLeft
            BY <2>1, <2>2 DEF StagesLeft
        <3> QED BY <3>3, <3>4
    <2>4. Distance' = Distance - 1
        <3>1. Draws \in Nat /\ StagesLeft \in Nat /\ late \in Nat /\ wd \in Nat
            BY <1>0 DEF PartsAre
        <3>2. CASE pc = "selftest"
            <4> DEFINE rest == IF wd = Period THEN AfterReset ELSE 0
            <4>1. Distance = 1 + Draws + rest /\ Distance' = 1 + Draws' + rest /\ rest \in Nat
                BY <1>0, <1>c, <2>1, <3>2 DEF DistanceIs
            <4> HIDE DEF rest
            <4> QED BY <2>3, <3>1, <4>1
        <3>3. CASE pc = "nonce"
            <4> DEFINE rest == AfterReset + 3 + DelayTicks + (Period - wd)
            <4>1. /\ Distance = rest + Draws + late + StagesLeft
                  /\ Distance' = rest + Draws' + late + StagesLeft
                <5>1. pc \in InCommand
                    BY <3>3 DEF InCommand, Stages
                <5>2. Distance = AfterReset + 3 + DelayTicks + (Period - wd) + Draws + late + StagesLeft
                    BY <1>0, <5>1 DEF DistanceIs
                <5>3. Distance' = AfterReset + 3 + DelayTicks + (Period - wd') + Draws' + late' + StagesLeft'
                    BY <1>0, <2>1, <5>1 DEF DistanceIs
                <5> QED BY <2>1, <2>3, <5>2, <5>3
            <4>2. rest \in Nat
                BY <1>0, <1>c, <3>1 DEF PartsAre
            <4> HIDE DEF rest
            <4> QED BY <2>3, <3>1, <4>1, <4>2
        <3> QED BY <2>2, <3>2, <3>3
    <2> QED BY <1>1, <2>4
(* The next stage of a command, with no less done.                         *)
<1>7. ASSUME pc \in InCommand, pc' \in InCommand, UNCHANGED <<wd, words, trng>>,
             \/ StagesLeft' < StagesLeft /\ late' = late
             \/ StagesLeft' = StagesLeft /\ late' = late - 1
      PROVE  Falls
    <2> DEFINE rest == AfterReset + 3 + DelayTicks + (Period - wd) + Draws
               m == StagesLeft
               n == StagesLeft'
    <2>1. /\ Distance = rest + late + m
          /\ Distance' = rest + late' + n
        BY <1>0, <1>7 DEF DistanceIs, Draws
    <2>2. rest \in Nat /\ late \in Nat /\ late' \in Nat /\ m \in Nat /\ n \in Nat
        BY <1>0, <1>c DEF PartsAre
    <2>3. (n < m /\ late' = late) \/ (n = m /\ late' = late - 1)
        BY <1>7, Zenon
    <2> HIDE DEF rest, m, n
    <2>4. rest + late' + n \in 0 .. (rest + late + m) - 1
        <3>1. CASE n < m /\ late' = late
            BY <2>2, <3>1
        <3>2. CASE n = m /\ late' = late - 1
            BY <2>2, <3>2
        <3> QED BY <2>3, <3>1, <3>2
    <2> QED BY <2>1, <2>4
<1>8. CASE SelfTestEnds \/ DelayEnds \/ Answered
    BY <1>2, <1>8 DEF SelfTestEnds, DelayEnds, Answered
<1>9. CASE Gate \/ PinWritten
    <2>1. CASE Loop
        BY <1>2, <2>1
    <2>2. CASE ~ Loop
        <3>1. /\ pc \in {"gate", "pinWrite"}
              /\ UNCHANGED <<wd, words, late, trng>>
              /\ \/ pc' = "missWrite"
                 \/ pc = "gate" /\ pc' = "pinWrite"
                 \/ pc' \in {"work", "nonce"}
            BY <1>9, <2>2 DEF Gate, PinWritten, Stage, Goto
        <3>2. CASE pc' = "missWrite"
            <4>1. /\ Distance = AfterReset + 3 + DelayTicks + (Period - wd) + Draws + late + StagesLeft
                  /\ Distance' = AfterReset + 2 + DelayTicks + (Period - wd)
                BY <1>0, <3>1, <3>2 DEF DistanceIs, InCommand, Stages
            <4>2. Draws \in Nat /\ late \in Nat /\ StagesLeft \in Nat /\ Period - wd \in Nat
                BY <1>0, <1>c DEF PartsAre
            <4> QED BY <1>c, <4>1, <4>2
        <3>3. CASE pc' # "missWrite"
            <4>1. pc \in InCommand /\ pc' \in InCommand /\ StagesLeft' < StagesLeft
                BY <3>1, <3>3 DEF InCommand, Stages, StagesLeft
            <4> QED BY <1>7, <3>1, <4>1
        <3> QED BY <3>2, <3>3
    <2> QED BY <2>1, <2>2
<1>10. CASE MissWritten
    <2>1. pc = "missWrite" /\ pc' = "delay" /\ used' = 0
        BY <1>10 DEF MissWritten, Stage, Goto
    <2>2. /\ Distance = AfterReset + 2 + DelayTicks + (Period - wd)
          /\ Distance' = AfterReset + 1 + (DelayTicks - 0)
        BY <1>0, <2>1 DEF DistanceIs
    <2>3. Period - wd \in Nat
        BY <1>0, <1>c DEF PartsAre
    <2> QED BY <1>c, <2>2, <2>3
<1>11. CASE NonceDrawn \/ PeerEnds \/ WorkEnds
    <2>1. CASE Loop
        BY <1>2, <2>1
    <2>2. CASE ~ Loop
        <3>1. /\ UNCHANGED <<wd, words, late, trng>>
              /\ \/ pc = "nonce" /\ pc' = "peer" /\ words = 0
                 \/ pc = "peer" /\ pc' \in {"store", "answer", "work"}
                 \/ pc = "peer" /\ pc' = "nonce" /\ words > 0
                 \/ pc \in {"work", "store"} /\ pc' = "answer"
            BY <1>11, <2>2
               DEF NonceDrawn, PeerEnds, WorkEnds, Stage, Goto, Inv, Route, Exchanging
        <3>2. words \in Nat
            BY <1>0 DEF PartsAre
        <3>3. pc \in InCommand /\ pc' \in InCommand /\ StagesLeft' < StagesLeft
            BY <3>1, <3>2 DEF InCommand, Stages, StagesLeft
        <3> QED BY <1>7, <3>1, <3>3
    <2> QED BY <2>1, <2>2
<1>12. CASE PeerByte
    <2>1. pc = "peer" /\ pc' = "peer" /\ late' = late - 1 /\ UNCHANGED <<wd, words, trng>>
        BY <1>12 DEF PeerByte, Stage, Goto
    <2>2. pc \in InCommand /\ pc' \in InCommand /\ StagesLeft' = StagesLeft
        BY <2>1 DEF InCommand, Stages, StagesLeft
    <2> QED BY <1>7, <2>1, <2>2
<1>13. ~ TrngFails /\ ~ TrngRecovers /\ ~ \E c \in Commands : Packet(c)
    BY DEF TrngFails, TrngRecovers, Packet
<1> QED BY <1>3, <1>4, <1>5, <1>6, <1>8, <1>9, <1>10, <1>11, <1>12, <1>13
        DEF Next, Leave, Host

(* The device keeps coming nearer its next command while its TRNG answers, *)
(* for every period, every length of the stages and every number of words. *)
THEOREM ServiceComesNearer == Spec => ServiceNears
<1>1. Init => JustReset
    BY DEF Init, JustReset
<1>2. Inv /\ Inv' /\ JustReset /\ [Next]_vars
         => [reliable /\ pc # "host" => Distance' \in 0 .. Distance - 1]_vars
    BY DistanceFalls
<1> QED BY InitInv, NextInv, JustResetKept, <1>1, <1>2, PTL DEF Spec, ServiceNears
=============================================================================
