------------------------------ MODULE PinLedger ------------------------------
(***************************************************************************)
(* What the host knows of the PIN: PinState with two observer variables,   *)
(* the PINs that may be in force (one, unless a change was not confirmed)  *)
(* and the failures since the last success.                                *)
(***************************************************************************)
EXTENDS PinState

VARIABLES
    valid,   \* PINs that may be in force
    misses,  \* consecutive failed attempts, MaxCount standing for any more
    sure     \* every rewrite of the page so far has gone through

ledgerVars == <<vars, valid, misses, sure>>

LedgerInit == Init /\ valid = {HSM_PIN} /\ misses = 0 /\ sure = TRUE

Answered(kind) == pc' = "idle" /\ reply'.kind = kind

Observe ==
    /\ valid' = IF answer'.kind = "changed" THEN valid \cup {answer'.pin}
                ELSE IF answer.kind = "changed" /\ Answered("changed") THEN {reply'.pin}
                ELSE valid
    /\ misses' = IF pc = "idle" /\ answer'.kind = "deny"
                 THEN IF misses < MaxCount THEN misses + 1 ELSE misses
                 ELSE IF pc = "idle" /\ (Answered("accept") \/ answer'.kind \in {"accept", "changed"})
                 THEN 0 ELSE misses
    /\ sure' = (sure /\ (Rewriting => Erase \/ Program))

(* Next, action by action, each observed.                                  *)
LedgerCall ==
    \/ \E p \in Pins : check_pin(p) /\ Observe
    \/ \E old, new \in Pins : pin_change(old, new) /\ Observe

LedgerContinue ==
    \/ Erase /\ Observe
    \/ Program /\ Observe
    \/ WriteFails /\ Observe
    \/ FailDelay /\ Observe
    \/ pin_init /\ Observe

LedgerReset == Reset /\ Observe

LedgerNext == LedgerCall \/ LedgerContinue \/ LedgerReset

LedgerSpec ==
    LedgerInit /\ [][LedgerNext]_ledgerVars /\ WF_ledgerVars(LedgerContinue)

-----------------------------------------------------------------------------
(* A wrong PIN is answered only once its failure is on flash, so cutting   *)
(* the power during fail_delay does not take the failure back.  check_pin  *)
(* does not look at the result of the write, so this is said of devices on *)
(* which flash operations work, and of others until one has failed.        *)
FailurePersistedBeforeAnswer ==
    pc = "delay" /\ (~ FlashFails \/ sure) => hashF = g_pin_hash /\ countF = g_fail_count

(* Only a PIN that was provisioned, confirmed or at least asked for can be *)
(* in force, and only such a PIN is accepted, after any failure and reset; *)
(* a torn page admits none.  In a release build that leaves HSM_PIN.       *)
NoForeignPin ==
    /\ pc = "idle" => g_pin_hash \in valid \cup {HSM_PIN, Torn}
    /\ reply.kind = "accept" => reply.pin \in valid \cup {HSM_PIN}

(* A confirmed change, and the failure count, survive: until a reset or a  *)
(* flash failure hits a rewrite of the page, the PIN in force is the one   *)
(* last confirmed and the counter is the number of consecutive failures,   *)
(* across any resets in between (up to the all-ones count, which a reset   *)
(* reads as an erased counter).                                            *)
PinAndCountKept ==
    sure /\ pc = "idle" =>
        /\ g_initialized
        /\ \E p \in valid : valid = {p} /\ g_pin_hash = p
        /\ misses < MaxCount => g_fail_count = misses
=============================================================================
