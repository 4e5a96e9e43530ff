------------------------------ MODULE PinState ------------------------------
(***************************************************************************)
(* The PIN and its failure counter (security.c): one flash page that holds *)
(* the hash of the PIN and the count of consecutive failures, their RAM    *)
(* copies, check_pin (behind every command's pin_gate), pin_change (the    *)
(* debug build's CHANGE_PIN) and pin_init.                                 *)
(*                                                                         *)
(* write_pin_state erases the page and programs hash and count again.  The *)
(* hash of a PIN is represented by the PIN (HMAC under a device key), and  *)
(* the counter is MaxCount + 1 values wide: MaxCount is all ones, which is *)
(* also what an erased counter reads as.  compute_pin_hash and the check   *)
(* of HSM_PIN's length fail only in a build whose secrets have the wrong   *)
(* length, and then always: a build that no PIN opens is not modelled.     *)
(***************************************************************************)
EXTENDS Naturals

CONSTANTS
    Pins,        \* the PINs a host may send
    HSM_PIN,     \* the provisioned PIN
    MaxCount,    \* 0xFFFFFFFF
    DebugBuild,  \* TRUE: CHANGE_PIN is compiled in
    FlashFails,  \* TRUE: a flash operation may return -1
    MaxResets,   \* bound: resets in one behaviour
    Blank,       \* an erased hash
    Torn         \* a hash only some words of which are programmed

ASSUME PinAssumption ==
    /\ HSM_PIN \in Pins
    /\ MaxCount \in Nat \ {0}
    /\ MaxResets \in Nat
    /\ DebugBuild \in BOOLEAN
    /\ FlashFails \in BOOLEAN
    /\ {Blank, Torn} \cap Pins = {}
    /\ Blank # Torn

VARIABLES
    hashF, countF,   \* the flash page 0x3A800
    g_pin_hash, g_fail_count, g_initialized,
    pc,              \* "boot", "idle", or the next step of the call in progress
    answer,          \* what that call will answer
    reply,           \* the last answer: [kind, pin it was given]
    resets

page == <<hashF, countF>>
vars == <<page, g_pin_hash, g_fail_count, g_initialized, pc, answer, reply, resets>>

Counts == 0 .. MaxCount
Kinds == {"accept", "deny", "changed", "failed", "init", "none"}
Answers == [kind : Kinds, pin : Pins]
NoAnswer == [kind |-> "none", pin |-> HSM_PIN]
Answer(kind, p) == [kind |-> kind, pin |-> p]

-----------------------------------------------------------------------------
(* Writing the page.                                                       *)

ErasePage == hashF' = Blank /\ countF' = MaxCount

(* Hash words first, then the counter's, all of g_pin_hash or some of it.  *)
ProgramPage == hashF' = g_pin_hash /\ countF' = g_fail_count
ProgramPagePartly == hashF' \in {Blank, Torn, g_pin_hash} /\ countF' = MaxCount

Rewriting == pc \in {"erase", "program"}

Interrupted ==
    \/ UNCHANGED page
    \/ pc = "erase" /\ ErasePage
    \/ pc = "program" /\ (ProgramPage \/ ProgramPagePartly)

(* The caller of write_pin_state goes on: a denied PIN pays fail_delay.    *)
Return(ok) ==
    IF answer.kind = "init"
    THEN pc' = "idle" /\ g_initialized' = ok /\ answer' = NoAnswer /\ UNCHANGED reply
    ELSE IF answer.kind = "deny"
    THEN pc' = "delay" /\ UNCHANGED <<g_initialized, answer, reply>>
    ELSE /\ pc' = "idle"
         /\ reply' = IF answer.kind = "changed" /\ ~ ok
                     THEN Answer("failed", answer.pin) ELSE answer
         /\ answer' = NoAnswer
         /\ UNCHANGED g_initialized

Erase ==
    /\ pc = "erase"
    /\ ErasePage
    /\ pc' = "program"
    /\ UNCHANGED <<g_pin_hash, g_fail_count, g_initialized, answer, reply, resets>>

Program ==
    /\ pc = "program"
    /\ ProgramPage
    /\ Return(TRUE)
    /\ UNCHANGED <<g_pin_hash, g_fail_count, resets>>

(* Mutation: the write is tried again until it works.                      *)
WriteRetries ==
    /\ FlashFails
    /\ pc \in {"erase", "program"}
    /\ Interrupted
    /\ pc' = "erase"
    /\ UNCHANGED <<g_pin_hash, g_fail_count, g_initialized, answer, reply, resets>>

(* check_pin does not look at write_pin_state's result; pin_change and     *)
(* pin_init do.                                                            *)
WriteFails ==
    /\ FlashFails
    /\ pc \in {"erase", "program"}
    /\ Interrupted
    /\ Return(FALSE)
    /\ UNCHANGED <<g_pin_hash, g_fail_count, resets>>

FailDelay ==
    /\ pc = "delay"
    /\ pc' = "idle"
    /\ reply' = answer
    /\ answer' = NoAnswer
    /\ UNCHANGED <<page, g_pin_hash, g_fail_count, g_initialized, resets>>

-----------------------------------------------------------------------------
(* Calls.  pin_is_locked is false, so pin_gate is check_pin.               *)

(* Mutations: a counter wider than its flash word; the delay before the    *)
(* write.                                                                  *)
MissUnbounded(p) ==
    /\ g_fail_count' = g_fail_count + 1
    /\ pc' = "erase"
    /\ answer' = Answer("deny", p)
    /\ UNCHANGED <<g_pin_hash, reply>>

MissDelaysFirst(p) ==
    /\ g_fail_count' = (g_fail_count + 1) % (MaxCount + 1)
    /\ pc' = "delay"
    /\ answer' = Answer("deny", p)
    /\ UNCHANGED <<g_pin_hash, reply>>

Miss(p) ==
    /\ g_fail_count' = (g_fail_count + 1) % (MaxCount + 1)
    /\ pc' = "erase"
    /\ answer' = Answer("deny", p)
    /\ UNCHANGED <<g_pin_hash, reply>>

(* Mutation: only the words a torn hash has in common are compared.        *)
check_pin_prefix(p) ==
    /\ pc = "idle"
    /\ g_initialized
    /\ IF p = g_pin_hash \/ g_pin_hash = Torn
       THEN /\ g_fail_count' = 0
            /\ reply' = Answer("accept", p)
            /\ UNCHANGED <<g_pin_hash, pc, answer>>
       ELSE Miss(p)
    /\ UNCHANGED <<page, g_initialized, resets>>

check_pin(p) ==
    /\ pc = "idle"
    /\ \/ /\ ~ g_initialized
          /\ reply' = Answer("deny", p)
          /\ UNCHANGED <<g_pin_hash, g_fail_count, pc, answer>>
       \/ /\ g_initialized /\ p = g_pin_hash
          /\ IF g_fail_count # 0
             THEN pc' = "erase" /\ answer' = Answer("accept", p) /\ UNCHANGED reply
             ELSE reply' = Answer("accept", p) /\ UNCHANGED <<pc, answer>>
          /\ g_fail_count' = 0
          /\ UNCHANGED g_pin_hash
       \/ g_initialized /\ p # g_pin_hash /\ Miss(p)
    /\ UNCHANGED <<page, g_initialized, resets>>

(* Mutation: the failure count is not reset.                               *)
pin_change_keeps_count(old, new) ==
    /\ DebugBuild
    /\ pc = "idle"
    /\ g_initialized
    /\ IF old = g_pin_hash
       THEN /\ g_pin_hash' = new
            /\ pc' = "erase"
            /\ answer' = Answer("changed", new)
            /\ UNCHANGED <<g_fail_count, reply>>
       ELSE Miss(old)
    /\ UNCHANGED <<page, g_initialized, resets>>

pin_change(old, new) ==
    /\ DebugBuild
    /\ pc = "idle"
    /\ \/ /\ ~ g_initialized
          /\ reply' = Answer("deny", old)
          /\ UNCHANGED <<g_pin_hash, g_fail_count, pc, answer>>
       \/ /\ g_initialized /\ old = g_pin_hash
          /\ g_pin_hash' = new
          /\ g_fail_count' = 0
          /\ pc' = "erase"
          /\ answer' = Answer("changed", new)
          /\ UNCHANGED reply
       \/ g_initialized /\ old # g_pin_hash /\ Miss(old)
    /\ UNCHANGED <<page, g_initialized, resets>>

(* Power loss or the watchdog, at any point.                               *)
Reset ==
    /\ resets < MaxResets
    /\ pc # "boot"
    /\ Interrupted
    /\ resets' = resets + 1
    /\ g_pin_hash' = Blank
    /\ g_fail_count' = 0
    /\ g_initialized' = FALSE
    /\ pc' = "boot"
    /\ answer' = NoAnswer
    /\ reply' = NoAnswer

(* pin_init: an erased hash means first boot, and HSM_PIN is provisioned.  *)
pin_init ==
    /\ pc = "boot"
    /\ IF hashF = Blank
       THEN /\ g_pin_hash' = HSM_PIN
            /\ g_fail_count' = 0
            /\ pc' = "erase"
            /\ answer' = Answer("init", HSM_PIN)
            /\ UNCHANGED g_initialized
       ELSE /\ g_pin_hash' = hashF
            /\ g_fail_count' = IF countF = MaxCount THEN 0 ELSE countF
            /\ g_initialized' = TRUE
            /\ pc' = "idle"
            /\ UNCHANGED answer
    /\ UNCHANGED <<page, reply, resets>>

-----------------------------------------------------------------------------
Init ==
    /\ hashF = Blank
    /\ countF = MaxCount
    /\ g_pin_hash = Blank
    /\ g_fail_count = 0
    /\ g_initialized = FALSE
    /\ pc = "boot"
    /\ answer = NoAnswer
    /\ reply = NoAnswer
    /\ resets = 0

Call ==
    \/ \E p \in Pins : check_pin(p)
    \/ \E old, new \in Pins : pin_change(old, new)

Continue == Erase \/ Program \/ WriteFails \/ FailDelay \/ pin_init

Next == Call \/ Continue \/ Reset

Spec == Init /\ [][Next]_vars /\ WF_vars(Continue)

-----------------------------------------------------------------------------
(* Properties                                                              *)

(* The variables have their types.                                         *)
TypeOK ==
    /\ hashF \in Pins \cup {Blank, Torn}
    /\ g_pin_hash \in Pins \cup {Blank, Torn}
    /\ countF \in Counts
    /\ g_fail_count \in Counts
    /\ g_initialized \in BOOLEAN
    /\ pc \in {"boot", "idle", "erase", "program", "delay"}
    /\ answer \in Answers
    /\ reply \in Answers
    /\ resets \in 0 .. MaxResets

(* In a release build no PIN but the provisioned one is ever accepted,     *)
(* whatever resets and flash failures do to the page: a torn hash admits   *)
(* nobody and an erased one is provisioned before it is compared.          *)
OnlyProvisionedPin ==
    reply.kind = "accept" /\ ~ DebugBuild => reply.pin = HSM_PIN

(* README.md:26: "8-Byte Flash ECC Boundary Isolation: Isolates dynamic    *)
(* failure counters from static credentials across 64-bit ECC programming  *)
(* words": a reset while a call to check_pin writes the count to flash     *)
(* does not leave the words of the PIN hash torn.                          *)
CounterIsolatedFromPin ==
    [][Rewriting /\ answer.kind \in {"accept", "deny"} /\ resets' # resets
         => hashF' # Torn]_vars

(* A call that has been made is answered, or the device resets.            *)
CallsEnd == pc # "idle" ~> pc = "idle"
=============================================================================
