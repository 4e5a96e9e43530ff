------------------------------ MODULE MainLoop ------------------------------
(***************************************************************************)
(* The main loop, the watchdog and the TRNG (HSM.c, trng.c), with each     *)
(* command cut into the stages that take time: the PIN gate and its delay  *)
(* (security.c), local work on flash, nonces, waits for the peer, and the  *)
(* answer, which waits for the host's ACKs.                                *)
(*                                                                         *)
(* Time is counted in ticks.  The watchdog is started at the end of init,  *)
(* restarted at two places of the loop and in fail_delay, and resets the   *)
(* device when Period ticks pass without a restart.                        *)
(***************************************************************************)
EXTENDS Naturals

CONSTANTS
    Period,      \* the watchdog's period, 8 s
    XferTicks,   \* UART_XFER_TIMEOUT_MS: the wait for one byte of the peer
    WorkTicks,   \* the longest stage that waits for nobody
    DelayTicks,  \* fail_delay
    KickEvery,   \* ticks of fail_delay between two restarts of the watchdog
    PeerBytes,   \* bound: bytes of one exchange with the peer that are late
    SeedWords,   \* TRNG words the self-test reads
    NonceWords   \* TRNG words of a nonce

ASSUME TimeAssumption ==
    /\ {Period, XferTicks, WorkTicks, DelayTicks, KickEvery} \subseteq Nat \ {0}
    /\ PeerBytes \in Nat
    /\ {SeedWords, NonceWords} \subseteq Nat \ {0}
    /\ 3 * WorkTicks < Period
    /\ KickEvery + 2 * WorkTicks < Period

Local == {"list", "read", "write", "delete", "change_pin"}
Unguarded == {"digest", "boot_flag", "echo"}   \* and answered at once
Exchanging == {"receive", "interrogate", "listen"}
Commands == Local \cup Unguarded \cup Exchanging \cup {"bad"}

VARIABLES
    pc,     \* the stage
    cmd,    \* the command in progress, or "none"
    wd,     \* ticks since the watchdog was restarted
    used,   \* ticks this stage has taken, as far as it is bounded
    words,  \* TRNG words still to be read
    late,   \* bytes of the peer still to be late
    trng,   \* "idle", "capturing" or "ready"
    reliable  \* the TRNG does not fail any more

vars == <<pc, cmd, wd, used, words, late, trng, reliable>>

Stages == {"boot", "selftest", "host", "gate", "pinWrite", "missWrite", "delay",
           "work", "nonce", "peer", "store", "answer"}

(* The ticks a stage may take; those not listed wait for as long as it     *)
(* takes.                                                                  *)
Bounded == {"gate", "pinWrite", "missWrite", "delay", "work", "peer", "store"}
Longest(stage) == IF stage = "delay" THEN DelayTicks
                  ELSE IF stage = "peer" THEN XferTicks ELSE WorkTicks

Running == pc # "boot" /\ wd < Period

(* Reading the TRNG takes time only when a word has to be tried again.      *)
Drawing == pc \in {"selftest", "nonce"}

Goto(stage) == pc' = stage /\ used' = 0

-----------------------------------------------------------------------------
(* Time and the watchdog.                                                  *)

(* Mutation: fail_delay goes round once more.                              *)
TickOnceMore ==
    /\ Running /\ ~ Drawing
    /\ pc \in Bounded => used <= Longest(pc)
    /\ used' = IF pc \in Bounded THEN used + 1 ELSE 0
    /\ wd' = IF pc = "delay" /\ used % KickEvery = 0 THEN 0 ELSE wd + 1
    /\ UNCHANGED <<pc, cmd, words, late, trng, reliable>>

Tick ==
    /\ Running /\ ~ Drawing
    /\ pc \in Bounded => used < Longest(pc)
    /\ used' = IF pc \in Bounded THEN used + 1 ELSE 0
    /\ wd' = IF pc = "delay" /\ used % KickEvery = 0 THEN 0 ELSE wd + 1
    /\ UNCHANGED <<pc, cmd, words, late, trng, reliable>>

(* Mutation: the watchdog expires, starts again, and resets nothing.       *)
BiteNever ==
    /\ wd = Period
    /\ wd' = 0
    /\ UNCHANGED <<pc, cmd, used, words, late, trng, reliable>>

Bite ==
    /\ wd = Period
    /\ Goto("boot")
    /\ wd' = 0
    /\ cmd' = "none"
    /\ words' = 0 /\ late' = 0 /\ trng' = "idle"
    /\ UNCHANGED reliable

(* init: the watchdog starts at its end, before the TRNG self-test.        *)
Boot ==
    /\ pc = "boot"
    /\ Goto("selftest")
    /\ wd' = 0
    /\ words' = SeedWords
    /\ UNCHANGED <<cmd, late, trng, reliable>>

-----------------------------------------------------------------------------
(* trng_read_bytes: one command, and polls of its status until it is       *)
(* ready; if it fails, or a million polls go by, the same word again.      *)

SendCommand ==
    /\ Running /\ Drawing /\ words > 0
    /\ trng = "idle"
    /\ trng' = "capturing"
    /\ UNCHANGED <<pc, cmd, wd, used, words, late, reliable>>

TrngAnswers ==
    /\ trng = "capturing"
    /\ trng' = "ready"
    /\ UNCHANGED <<pc, cmd, wd, used, words, late, reliable>>

TrngFails ==
    /\ Running
    /\ trng = "capturing"
    /\ ~ reliable
    /\ trng' = "idle"
    /\ wd' = wd + 1
    /\ UNCHANGED <<pc, cmd, used, words, late, reliable>>

GetWord ==
    /\ Running /\ Drawing /\ words > 0
    /\ trng = "ready"
    /\ words' = words - 1
    /\ trng' = "idle"
    /\ UNCHANGED <<pc, cmd, wd, used, late, reliable>>

(* External: the peripheral.                                               *)
TrngRecovers ==
    /\ ~ reliable
    /\ reliable' = TRUE
    /\ UNCHANGED <<pc, cmd, wd, used, words, late, trng>>

-----------------------------------------------------------------------------
(* The loop.                                                               *)

(* Back to the top of the loop, where the watchdog is restarted.           *)
Loop ==
    /\ Goto("host")
    /\ cmd' = "none" /\ wd' = 0 /\ words' = 0 /\ late' = 0
    /\ UNCHANGED <<trng, reliable>>

(* On to another stage of the command.                                     *)
Stage(stage) == Goto(stage) /\ UNCHANGED <<cmd, wd, trng, reliable>>

(* The self-test prints its result and goes on either way.                 *)
SelfTestEnds == Running /\ pc = "selftest" /\ words = 0 /\ Loop

StageOf(c) ==
    IF c = "listen" THEN "peer" ELSE IF c \in Unguarded THEN "answer" ELSE "gate"

(* Mutation: the watchdog is not restarted after the packet.               *)
PacketUnkicked(c) ==
    /\ Running /\ pc = "host"
    /\ IF c = "bad" THEN Loop
       ELSE /\ Goto(StageOf(c))
            /\ cmd' = c
            /\ IF c \in Exchanging
               THEN words' = NonceWords /\ late' \in 0 .. PeerBytes
               ELSE words' = 0 /\ late' = 0
            /\ UNCHANGED <<wd, trng, reliable>>

(* A packet, with a known command or a bad one, after any wait.  Lengths   *)
(* are not followed: main passes read_packet a limit of 0, which is none   *)
(* (HSM.c:155, host_messaging.c:186), and the commands check their own.    *)
Packet(c) ==
    /\ Running /\ pc = "host"
    /\ IF c = "bad" THEN Loop
       ELSE /\ Goto(StageOf(c))
            /\ cmd' = c
            /\ wd' = 0
            /\ IF c \in Exchanging
               THEN words' = NonceWords /\ late' \in 0 .. PeerBytes
               ELSE words' = 0 /\ late' = 0
            /\ UNCHANGED <<trng, reliable>>

(* pin_gate: a wrong PIN is recorded and delayed; a right one may have to  *)
(* clear the count; a packet that is too short is refused at once.         *)
Gate ==
    /\ Running /\ pc = "gate"
    /\ \/ Loop
       \/ Stage("missWrite") /\ UNCHANGED <<words, late>>
       \/ Stage("pinWrite") /\ UNCHANGED <<words, late>>
       \/ Stage(IF cmd \in Local THEN "work" ELSE "nonce") /\ UNCHANGED <<words, late>>

PinWritten ==
    /\ Running /\ pc = "pinWrite"
    /\ Stage(IF cmd \in Local THEN "work" ELSE "nonce")
    /\ UNCHANGED <<words, late>>

MissWritten ==
    /\ Running /\ pc = "missWrite"
    /\ Stage("delay")
    /\ UNCHANGED <<words, late>>

DelayEnds == Running /\ pc = "delay" /\ used = DelayTicks /\ Loop

NonceDrawn ==
    /\ Running /\ pc = "nonce" /\ words = 0
    /\ Stage("peer")
    /\ UNCHANGED <<words, late>>

(* A byte of the peer arrives before its timeout.                          *)
PeerByte ==
    /\ Running /\ pc = "peer" /\ late > 0
    /\ late' = late - 1
    /\ Stage("peer")
    /\ UNCHANGED words

(* The exchange has come to its next step, or has failed: a timeout, a     *)
(* packet that does not fit.  A listener draws its nonce after the request *)
(* and reads a blob for its answer.                                        *)
PeerEnds ==
    /\ Running /\ pc = "peer"
    /\ \/ Loop
       \/ /\ Stage(CASE cmd = "receive" -> "store"
                     [] cmd = "interrogate" -> "answer"
                     [] cmd = "listen" -> IF words > 0 THEN "nonce" ELSE "work")
          /\ UNCHANGED <<words, late>>

(* An error message to the host, which is not ACKed, or the answer.        *)
WorkEnds ==
    /\ Running /\ pc \in {"work", "store"}
    /\ Loop \/ (Stage("answer") /\ UNCHANGED <<words, late>>)

(* The host has ACKed every chunk of the answer, or sent something else.   *)
Answered == Running /\ pc = "answer" /\ Loop

-----------------------------------------------------------------------------
Init ==
    /\ pc = "boot" /\ cmd = "none"
    /\ wd = 0 /\ used = 0 /\ words = 0 /\ late = 0
    /\ trng = "idle"
    /\ reliable \in BOOLEAN

Draw == SendCommand \/ GetWord \/ TrngAnswers

Leave ==
    \/ SelfTestEnds \/ Gate \/ PinWritten \/ MissWritten \/ DelayEnds
    \/ NonceDrawn \/ PeerEnds \/ WorkEnds

Host == Answered \/ \E c \in Commands : Packet(c)

Next == Boot \/ Bite \/ Tick \/ Draw \/ TrngFails \/ TrngRecovers \/ Leave \/ PeerByte \/ Host

Spec ==
    /\ Init /\ [][Next]_vars
    /\ WF_vars(Boot) /\ WF_vars(Bite) /\ WF_vars(Tick)
    /\ WF_vars(Draw) /\ WF_vars(Leave)

-----------------------------------------------------------------------------
(* Properties                                                              *)

(* The variables have their types.                                         *)
TypeOK ==
    /\ pc \in Stages
    /\ cmd \in Commands \cup {"none"}
    /\ wd \in 0 .. Period
    /\ used \in Nat /\ (pc \in Bounded => used <= Longest(pc))
    /\ words \in 0 .. (SeedWords + NonceWords)
    /\ late \in 0 .. PeerBytes
    /\ trng \in {"idle", "capturing", "ready"}
    /\ reliable \in BOOLEAN

(* The watchdog never cuts the rewrite of the PIN page, fail_delay, or the *)
(* flash work of a command that waits for nobody, however long the host    *)
(* waited before it sent the command and however long fail_delay takes: a  *)
(* reset in those is a loss of power.  (A RECEIVE whose peer was slow has  *)
(* no such margin left for its store.)                                     *)
LocalWorkNotBitten ==
    wd = Period =>
        /\ pc \notin {"gate", "pinWrite", "missWrite", "delay"}
        /\ pc = "work" => cmd \notin Local

(* How far the device is from its next command once the TRNG answers: the  *)
(* words to be drawn, three steps each, the stages left, and the ticks     *)
(* until the watchdog resets it.  fail_delay, which restarts the watchdog, *)
(* counts its own ticks.                                                   *)
Draws == 3 * words + IF trng = "idle" THEN 2 ELSE IF trng = "capturing" THEN 1 ELSE 0

AfterReset == 3 * SeedWords + 4

StagesLeft ==
    CASE pc = "gate" -> 6
      [] pc = "pinWrite" -> 5
      [] pc = "peer" -> IF words > 0 THEN 4 ELSE 2
      [] pc = "nonce" -> 3
      [] pc \in {"work", "store"} -> 1
      [] OTHER -> 0

Distance ==
    CASE pc = "host" -> 0
      [] pc = "selftest" -> 1 + Draws + IF wd = Period THEN AfterReset ELSE 0
      [] pc = "boot" -> 3 * SeedWords + 2
                        + IF trng = "idle" THEN 2 ELSE IF trng = "capturing" THEN 1 ELSE 0
      [] pc = "delay" -> AfterReset + 1 + (DelayTicks - used)
      [] pc = "missWrite" -> AfterReset + 2 + DelayTicks + (Period - wd)
      [] OTHER -> AfterReset + 3 + DelayTicks + (Period - wd) + Draws + late + StagesLeft

(* Once the TRNG answers, every tick and every step that is not the host's *)
(* brings the device nearer its next command, or the reset that leads to   *)
(* one; and no host, no peer and no wrong PIN can push it further away.    *)
ServiceNears ==
    [][reliable /\ pc # "host" => Distance' \in 0 .. Distance - 1]_vars

(* Once the TRNG answers again, the device always gets back to reading     *)
(* commands, from a host that does not ACK an answer, a peer that is slow  *)
(* or gone, or a TRNG that has failed the self-test for a while.           *)
BackInService == <>reliable => []<>(pc = "host")
=============================================================================
