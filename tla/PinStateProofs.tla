--------------------------- MODULE PinStateProofs ---------------------------
(***************************************************************************)
(* Proofs about PinState and PinLedger, for every set of PINs, counter     *)
(* width and combination of failures and resets.                           *)
(***************************************************************************)
EXTENDS PinLedger, TLAPS

Hashes == Pins \cup {Blank, Torn}

(* A release build never holds the hash of another PIN, in RAM or flash,   *)
(* and is about to accept only the provisioned one.                        *)
ReleaseInv ==
    ~ DebugBuild =>
        /\ {hashF, g_pin_hash} \subseteq {HSM_PIN, Blank, Torn}
        /\ answer.kind = "accept" => answer.pin = HSM_PIN
        /\ reply.kind = "accept" => reply.pin = HSM_PIN

Inv == TypeOK /\ ReleaseInv

(* An answer is a well-formed reply that says what it was built from.      *)
LEMMA AnswerFields ==
    /\ \A k \in Kinds, p \in Pins :
          Answer(k, p) \in Answers /\ Answer(k, p).kind = k /\ Answer(k, p).pin = p
    /\ NoAnswer \in Answers /\ NoAnswer.kind = "none"
    /\ \A a \in Answers : a.pin \in Pins
    /\ {"accept", "deny", "changed", "failed", "init", "none"} \subseteq Kinds
BY PinAssumption DEF Answer, Answers, NoAnswer, Kinds

LEMMA InitInv == Init => Inv
<1> SUFFICES ASSUME Init PROVE Inv
    OBVIOUS
<1>1. TypeOK
    <2>1. g_initialized \in BOOLEAN
        BY Zenon DEF Init
    <2>2. answer \in Answers /\ reply \in Answers
        BY AnswerFields DEF Init
    <2>3. countF \in Counts /\ g_fail_count \in Counts /\ resets \in 0 .. MaxResets
        BY PinAssumption DEF Init, Counts
    <2> QED BY <2>1, <2>2, <2>3 DEF Init, TypeOK
<1>2. ReleaseInv
    BY AnswerFields DEF Init, ReleaseInv
<1> QED BY <1>1, <1>2 DEF Inv

(* Whatever an interrupted write leaves is erased, torn, or what was there *)
(* or meant.                                                               *)
LEMMA InterruptedPage ==
    ASSUME Inv, Interrupted
    PROVE  /\ hashF' \in {hashF, g_pin_hash, Blank, Torn}
           /\ countF' \in Counts
BY PinAssumption
   DEF Inv, TypeOK, Interrupted, ErasePage, ProgramPage, ProgramPagePartly, page, Counts

(* The answers a return or a call produces.                                *)
LEMMA ReturnInv ==
    ASSUME Inv, NEW ok \in BOOLEAN, Return(ok)
    PROVE  /\ pc' \in {"idle", "delay"}
           /\ pc' = "delay" => answer.kind = "deny"
           /\ g_initialized' \in BOOLEAN
           /\ answer' \in {answer, NoAnswer}
           /\ reply' \in {reply, answer, Answer("failed", answer.pin)}
           /\ answer' \in Answers /\ reply' \in Answers
<1>1. g_initialized' \in BOOLEAN
    <2>1. g_initialized \in BOOLEAN
        BY DEF Inv, TypeOK
    <2>2. g_initialized' = ok \/ g_initialized' = g_initialized
        BY DEF Return
    <2> QED BY <2>1, <2>2, Zenon
<1>2. /\ pc' \in {"idle", "delay"}
      /\ pc' = "delay" => answer.kind = "deny"
      /\ answer' \in {answer, NoAnswer}
      /\ reply' \in {reply, answer, Answer("failed", answer.pin)}
    BY DEF Return
<1>3. answer' \in Answers /\ reply' \in Answers
    BY <1>2, AnswerFields DEF Inv, TypeOK
<1> QED BY <1>1, <1>2, <1>3

(* Both steps that end a rewrite of the page keep the invariant.           *)
LEMMA RewriteEnds ==
    ASSUME Inv, NEW ok \in BOOLEAN, Return(ok),
           hashF' \in {hashF, g_pin_hash, Blank, Torn}, countF' \in Counts,
           UNCHANGED <<g_pin_hash, g_fail_count, resets>>
    PROVE  Inv'
<1>1. TypeOK'
    <2>1. hashF' \in Pins \cup {Blank, Torn} /\ g_pin_hash' \in Pins \cup {Blank, Torn}
        BY DEF Inv, TypeOK
    <2>2. g_fail_count' \in Counts /\ resets' \in 0 .. MaxResets
        BY DEF Inv, TypeOK
    <2>3. /\ pc' \in {"boot", "idle", "erase", "program", "delay"}
          /\ g_initialized' \in BOOLEAN
          /\ answer' \in Answers /\ reply' \in Answers
        BY ReturnInv, Zenon
    <2> QED BY <2>1, <2>2, <2>3, Zenon DEF TypeOK
<1>2. ReleaseInv'
    <2> SUFFICES ASSUME ~ DebugBuild
                 PROVE  /\ {hashF', g_pin_hash'} \subseteq {HSM_PIN, Blank, Torn}
                        /\ answer'.kind = "accept" => answer'.pin = HSM_PIN
                        /\ reply'.kind = "accept" => reply'.pin = HSM_PIN
        BY DEF ReleaseInv
    <2>1. /\ {hashF, g_pin_hash} \subseteq {HSM_PIN, Blank, Torn}
          /\ answer.kind = "accept" => answer.pin = HSM_PIN
          /\ reply.kind = "accept" => reply.pin = HSM_PIN
        BY DEF Inv, ReleaseInv
    <2>2. {hashF', g_pin_hash'} \subseteq {HSM_PIN, Blank, Torn}
        BY <2>1
    <2>3. answer'.kind = "accept" => answer'.pin = HSM_PIN
        <3>1. CASE answer' = answer
            BY <2>1, <3>1
        <3>2. CASE answer' = NoAnswer
            BY <3>2, AnswerFields
        <3> QED BY <3>1, <3>2, ReturnInv
    <2>4. reply'.kind = "accept" => reply'.pin = HSM_PIN
        <3>1. CASE reply' = reply
            BY <2>1, <3>1
        <3>2. CASE reply' = answer
            BY <2>1, <3>2
        <3>3. CASE reply' = Answer("failed", answer.pin)
            <4>1. answer.pin \in Pins
                BY AnswerFields DEF Inv, TypeOK
            <4>2. reply'.kind = "failed"
                BY <3>3, <4>1, AnswerFields
            <4> QED BY <4>2
        <3> QED BY <3>1, <3>2, <3>3, ReturnInv
    <2> QED BY <2>2, <2>3, <2>4
<1> QED BY <1>1, <1>2 DEF Inv

LEMMA NextInv == Inv /\ [Next]_vars => Inv'
<1> SUFFICES ASSUME Inv, [Next]_vars PROVE Inv'
    OBVIOUS
<1> USE PinAssumption, AnswerFields DEF Counts
<1>1. CASE Erase
    BY <1>1 DEF Erase, ErasePage, Inv, TypeOK, ReleaseInv
<1>2. CASE Program
    <2>1. /\ hashF' = g_pin_hash /\ countF' = g_fail_count
          /\ UNCHANGED <<g_pin_hash, g_fail_count, resets>>
        BY <1>2 DEF Program, ProgramPage
    <2>2. Return(TRUE)
        BY <1>2 DEF Program
    <2>3. countF' \in Counts
        BY <2>1 DEF Inv, TypeOK
    <2> QED BY <2>1, <2>2, <2>3, RewriteEnds
<1>3. CASE WriteFails
    <2>1. Return(FALSE) /\ UNCHANGED <<g_pin_hash, g_fail_count, resets>>
        BY <1>3 DEF WriteFails
    <2>2. hashF' \in {hashF, g_pin_hash, Blank, Torn} /\ countF' \in Counts
        BY <1>3, InterruptedPage DEF WriteFails
    <2> QED BY <2>1, <2>2, RewriteEnds
<1>4. CASE FailDelay
    BY <1>4 DEF FailDelay, page, Inv, TypeOK, ReleaseInv
<1>5. ASSUME NEW p \in Pins, Miss(p), pc = "idle", UNCHANGED <<page, g_initialized, resets>>
      PROVE  Inv'
    <2>1. (g_fail_count + 1) % (MaxCount + 1) \in 0 .. MaxCount
        BY DEF Inv, TypeOK
    <2> QED BY <1>5, <2>1
            DEF Miss, page, Inv, TypeOK, ReleaseInv
<1>6. ASSUME NEW p \in Pins, check_pin(p)
      PROVE  Inv'
    <2>1. CASE g_initialized /\ p # g_pin_hash /\ Miss(p)
        BY <1>5, <1>6, <2>1 DEF check_pin
    <2>2. CASE /\ ~ g_initialized
               /\ reply' = Answer("deny", p)
               /\ UNCHANGED <<g_pin_hash, g_fail_count, pc, answer>>
        BY <1>6, <2>2
           DEF check_pin, page, Inv, TypeOK, ReleaseInv
    <2>3. CASE /\ p = g_pin_hash /\ g_fail_count' = 0 /\ g_pin_hash' = g_pin_hash
               /\ \/ pc' = "erase" /\ answer' = Answer("accept", p) /\ UNCHANGED reply
                  \/ reply' = Answer("accept", p) /\ UNCHANGED <<pc, answer>>
        BY <1>6, <2>3
           DEF check_pin, page, Inv, TypeOK, ReleaseInv
    <2> QED BY <1>6, <2>1, <2>2, <2>3 DEF check_pin
<1>7. ASSUME NEW old \in Pins, NEW new \in Pins, pin_change(old, new)
      PROVE  Inv'
    <2>1. CASE g_initialized /\ old # g_pin_hash /\ Miss(old)
        BY <1>5, <1>7, <2>1 DEF pin_change
    <2> QED BY <1>7, <2>1
            DEF pin_change, page, Inv, TypeOK, ReleaseInv
<1>8. CASE Reset
    <2>1. hashF' \in {hashF, g_pin_hash, Blank, Torn} /\ countF' \in Counts
        BY <1>8, InterruptedPage DEF Reset
    <2>2. g_initialized' \in BOOLEAN
        BY <1>8, Zenon DEF Reset
    <2>3. resets' \in 0 .. MaxResets
        <3>1. resets \in 0 .. MaxResets /\ resets < MaxResets /\ resets' = resets + 1
            BY <1>8 DEF Reset, Inv, TypeOK
        <3> QED BY <3>1
    <2>4. TypeOK'
        BY <1>8, <2>1, <2>2, <2>3 DEF Reset, Inv, TypeOK
    <2> QED BY <1>8, <2>1, <2>4 DEF Reset, Inv, TypeOK, ReleaseInv
<1>9. CASE pin_init
    <2>1. g_initialized' \in BOOLEAN
        <3>1. g_initialized \in BOOLEAN
            BY DEF Inv, TypeOK
        <3> QED BY <1>9, <3>1, Zenon DEF pin_init
    <2>2. TypeOK'
        BY <1>9, <2>1 DEF pin_init, page, Inv, TypeOK
    <2> QED BY <1>9, <2>2
            DEF pin_init, page, Inv, TypeOK, ReleaseInv
<1>10. CASE UNCHANGED vars
    BY <1>10 DEF vars, page, Inv, TypeOK, ReleaseInv
<1> QED BY <1>1, <1>2, <1>3, <1>4, <1>6, <1>7, <1>8, <1>9, <1>10 DEF Next, Call, Continue

(* Every reachable state of the PIN module is well-typed.                  *)
THEOREM PinTypeCorrect == Spec => []TypeOK
<1>1. Inv => TypeOK
    BY DEF Inv
<1> QED BY InitInv, NextInv, <1>1, PTL DEF Spec

(* A release build accepts the provisioned PIN and no other, whatever      *)
(* resets and failed writes leave on the page.                             *)
THEOREM ProvisionedPinOnly == Spec => []OnlyProvisionedPin
<1>1. Inv => OnlyProvisionedPin
    BY DEF Inv, ReleaseInv, OnlyProvisionedPin
<1> QED BY InitInv, NextInv, <1>1, PTL DEF Spec

-----------------------------------------------------------------------------
(* PinLedger adds observers to PinState and takes none of its steps away.  *)
LEMMA LedgerObserves == LedgerNext <=> Next /\ Observe
BY Zenon DEF LedgerNext, LedgerCall, LedgerContinue, LedgerReset, Next, Call, Continue

LEMMA LedgerSteps ==
    /\ LedgerInit => Inv
    /\ Inv /\ [LedgerNext]_ledgerVars => Inv'
BY InitInv, NextInv, LedgerObserves DEF LedgerInit, ledgerVars

(* What a call is about to answer says where the device is in it, and a    *)
(* change about to be confirmed is already in force in RAM.                *)
CallInv ==
    /\ pc \in {"idle", "boot"} => answer.kind = "none"
    /\ pc = "delay" => answer.kind = "deny"
    /\ answer.kind = "changed" => pc \in {"erase", "program"} /\ answer.pin = g_pin_hash

LEMMA CallInit == Init => CallInv
BY AnswerFields DEF Init, CallInv

LEMMA CallStep ==
    ASSUME Inv, CallInv, [Next]_vars
    PROVE  CallInv'
<1> USE AnswerFields
<1>1. CASE Erase \/ FailDelay \/ Reset \/ UNCHANGED vars
    BY <1>1 DEF Erase, FailDelay, Reset, vars, CallInv
<1>2. CASE Program \/ WriteFails
    <2>1. PICK ok \in BOOLEAN : Return(ok)
        BY <1>2 DEF Program, WriteFails
    <2>2. UNCHANGED g_pin_hash
        BY <1>2 DEF Program, WriteFails
    <2> QED BY <2>1, <2>2 DEF Return, CallInv
<1>3. ASSUME NEW p \in Pins, check_pin(p)
      PROVE  CallInv'
    BY <1>3 DEF check_pin, Miss, CallInv
<1>4. ASSUME NEW old \in Pins, NEW new \in Pins, pin_change(old, new)
      PROVE  CallInv'
    BY <1>4 DEF pin_change, Miss, CallInv
<1>5. CASE pin_init
    <2>1. /\ pc = "boot"
          /\ \/ pc' = "erase" /\ answer' = Answer("init", HSM_PIN)
             \/ pc' = "idle" /\ answer' = answer
        BY <1>5 DEF pin_init
    <2> QED BY <2>1, PinAssumption DEF CallInv
<1> QED BY <1>1, <1>2, <1>3, <1>4, <1>5 DEF Next, Call, Continue

(* No wrong PIN is answered before its failure is on flash: the delay is   *)
(* entered from a write of the page, and only a failed one leaves it       *)
(* without the count.                                                      *)
LEMMA PersistedStep ==
    ASSUME FailurePersistedBeforeAnswer, LedgerNext
    PROVE  FailurePersistedBeforeAnswer'
<1> SUFFICES ASSUME pc' = "delay", ~ FlashFails \/ sure'
             PROVE  hashF' = g_pin_hash' /\ countF' = g_fail_count'
    BY DEF FailurePersistedBeforeAnswer
<1>1. Next /\ (sure' => (Rewriting => Erase \/ Program))
    BY LedgerObserves, Zenon DEF Observe
<1>2. CASE Program
    BY <1>2 DEF Program, ProgramPage
<1>3. CASE WriteFails /\ ~ Program
    <2>1. FlashFails /\ Rewriting
        BY <1>3 DEF WriteFails, Rewriting
    <2>2. Erase
        BY <1>1, <1>3, <2>1, Zenon
    <2> QED BY <2>2 DEF Erase
<1>4. CASE Erase \/ FailDelay \/ pin_init \/ Reset \/ Call
    BY <1>4 DEF Erase, FailDelay, pin_init, Reset, Call, check_pin, pin_change, Miss
<1> QED BY <1>1, <1>2, <1>3, <1>4 DEF Next, Continue

(* A wrong PIN is answered only once its failure is on flash, on a device  *)
(* whose flash operations work and on any other until one has failed.      *)
THEOREM FailuresPersisted == LedgerSpec => []FailurePersistedBeforeAnswer
<1>1. LedgerInit => FailurePersistedBeforeAnswer
    BY DEF LedgerInit, Init, FailurePersistedBeforeAnswer
<1>2. FailurePersistedBeforeAnswer /\ UNCHANGED ledgerVars => FailurePersistedBeforeAnswer'
    BY DEF ledgerVars, vars, page, FailurePersistedBeforeAnswer
<1> QED BY <1>1, <1>2, PersistedStep, PTL DEF LedgerSpec

(* A PIN the host was told of, or asked for, or was provisioned, is what   *)
(* RAM and the page hold, if they hold a whole hash at all.                *)
ForeignInv ==
    /\ {hashF, g_pin_hash} \subseteq valid \cup {HSM_PIN, Blank, Torn}
    /\ g_pin_hash = Blank => pc = "boot"
    /\ answer.kind = "changed" => answer.pin \in valid
    /\ \A a \in {answer, reply} : a.kind = "accept" => a.pin \in valid \cup {HSM_PIN}

LEMMA ForeignStep ==
    ASSUME Inv, CallInv, ForeignInv, LedgerNext
    PROVE  ForeignInv'
<1> USE AnswerFields, PinAssumption
<1>1. Next
    BY LedgerObserves
<1>2. valid' = IF answer'.kind = "changed" THEN valid \cup {answer'.pin}
               ELSE IF answer.kind = "changed" /\ Answered("changed") THEN {reply'.pin}
               ELSE valid
    BY LedgerObserves DEF Observe
<1>3. CASE Program \/ WriteFails
    <2>1. PICK ok \in BOOLEAN : Return(ok) /\ (ok => Program) /\ (~ ok => WriteFails)
        BY <1>3 DEF Program, WriteFails
    <2>2. UNCHANGED g_pin_hash /\ hashF' \in {hashF, g_pin_hash, Blank, Torn}
        BY <1>3, InterruptedPage DEF Program, ProgramPage, WriteFails
    <2>3. answer'.kind # "changed" \/ answer' = answer
        BY <2>1, ReturnInv
    <2>4. CASE answer.kind = "changed" /\ Answered("changed")
        <3>1. ok /\ hashF' = g_pin_hash
            <4>1. answer.pin \in Pins /\ answer.kind = "changed" /\ reply'.kind = "changed"
                BY <2>4 DEF Inv, TypeOK, Answered
            <4>2. CASE ok
                BY <2>1, <4>2 DEF Program, ProgramPage
            <4>3. CASE ~ ok
                <5>1. reply' = Answer("failed", answer.pin)
                    BY <2>1, <4>1, <4>3 DEF Return
                <5> QED BY <4>1, <5>1
            <4> QED BY <4>2, <4>3
        <3>2. reply'.pin = g_pin_hash /\ answer'.kind # "changed"
            BY <2>1, <2>4, <3>1 DEF Return, CallInv
        <3> QED BY <1>2, <2>2, <2>4, <3>1, <3>2, ReturnInv, <2>1 DEF ForeignInv, CallInv
    <2>5. CASE ~ (answer.kind = "changed" /\ Answered("changed"))
        <3>1. pc # "boot" /\ pc' # "boot"
            BY <1>3, <2>1, ReturnInv DEF Program, WriteFails
        <3>2. valid \subseteq valid'
            BY <1>2, <2>5
        <3>3. /\ answer' \in {answer, NoAnswer}
              /\ reply'.kind = "accept" => reply' \in {answer, reply}
            <4>1. answer.pin \in Pins
                BY DEF Inv, TypeOK
            <4> QED BY <2>1, <4>1, ReturnInv
        <3> QED BY <1>2, <2>2, <2>3, <2>5, <3>1, <3>2, <3>3 DEF ForeignInv
    <2> QED BY <2>4, <2>5
<1>4. CASE ~ (Program \/ WriteFails)
    <2>1. ~ (answer.kind = "changed" /\ Answered("changed"))
        BY <1>1, <1>4
           DEF Next, Call, Continue, Erase, FailDelay, pin_init, Reset, check_pin, pin_change,
               Answered, CallInv
    <2>2. valid \subseteq valid' /\ (answer'.kind = "changed" => answer'.pin \in valid')
        BY <1>2, <2>1
    <2>3. CASE Erase \/ FailDelay
        BY <2>2, <2>3 DEF Erase, ErasePage, FailDelay, page, ForeignInv
    <2>4. CASE Reset
        BY <2>2, <2>4, InterruptedPage DEF Reset, ForeignInv
    <2>5. CASE pin_init
        BY <2>2, <2>5 DEF pin_init, page, ForeignInv, Inv, TypeOK
    <2>6. ASSUME NEW p \in Pins, check_pin(p)
          PROVE  ForeignInv'
        BY <2>2, <2>6 DEF check_pin, Miss, page, ForeignInv
    <2>7. ASSUME NEW old \in Pins, NEW new \in Pins, pin_change(old, new)
          PROVE  ForeignInv'
        <3>1. /\ hashF' = hashF
              /\ g_pin_hash' = g_pin_hash \/ (g_pin_hash' = new /\ answer' = Answer("changed", new))
              /\ pc = "idle"
              /\ answer' \in {answer, Answer("changed", new), Answer("deny", old)}
              /\ reply' \in {reply, Answer("deny", old)}
            BY <2>7 DEF pin_change, Miss, page
        <3>2. \A a \in {answer', reply'} :
                  a.kind = "accept" => a.pin \in valid' \cup {HSM_PIN}
            BY <2>2, <3>1 DEF ForeignInv
        <3> QED BY <1>2, <2>2, <3>1, <3>2 DEF ForeignInv
    <2> QED BY <1>1, <1>4, <2>3, <2>4, <2>5, <2>6, <2>7 DEF Next, Call, Continue
<1> QED BY <1>3, <1>4

(* No PIN the host was never told of or did not ask for is ever in force.  *)
THEOREM ForeignPinNever == LedgerSpec => []NoForeignPin
<1> DEFINE All == Inv /\ CallInv /\ ForeignInv
<1>1. LedgerInit => All
    <2>1. LedgerInit => ForeignInv
        BY AnswerFields DEF LedgerInit, Init, ForeignInv
    <2> QED BY <2>1, LedgerSteps, CallInit DEF LedgerInit
<1>2. All /\ [LedgerNext]_ledgerVars => All'
    <2> SUFFICES ASSUME All, [LedgerNext]_ledgerVars PROVE All'
        OBVIOUS
    <2>1. Inv' /\ CallInv'
        BY LedgerSteps, CallStep, LedgerObserves DEF ledgerVars
    <2>2. ForeignInv'
        <3>1. CASE LedgerNext
            BY <3>1, ForeignStep
        <3>2. CASE UNCHANGED ledgerVars
            BY <3>2 DEF ledgerVars, vars, page, ForeignInv
        <3> QED BY <3>1, <3>2
    <2> QED BY <2>1, <2>2
<1>3. All => NoForeignPin
    BY DEF ForeignInv, NoForeignPin
<1> QED BY <1>1, <1>2, <1>3, PTL DEF LedgerSpec
-----------------------------------------------------------------------------
(* The count a reset makes of the one on the page.                         *)
ReadBack(count) == IF count = MaxCount THEN 0 ELSE count

(* Between calls, what a reset would reload.                               *)
PageKept ==
    /\ g_initialized
    /\ valid = {g_pin_hash}
    /\ hashF = g_pin_hash
    /\ g_fail_count \in {countF, ReadBack(countF)}

(* During a rewrite, what the page is to hold once it is over.             *)
RewriteKeeps ==
    /\ answer.kind \in {"init", "deny", "accept", "changed"}
    /\ answer.kind # "init" => g_initialized
    /\ answer.kind # "changed" => valid = {g_pin_hash}

(* Before pin_init, what it is to find.                                    *)
BootKeeps ==
    IF hashF = Blank THEN valid = {HSM_PIN} /\ misses = 0
    ELSE valid = {hashF} /\ (misses < MaxCount => ReadBack(countF) = misses)

KeptInv ==
    /\ misses \in 0 .. MaxCount
    /\ sure =>
        /\ pc \in {"idle", "delay"} => PageKept
        /\ pc \in {"erase", "program"} => RewriteKeeps
        /\ IF pc = "boot" THEN BootKeeps ELSE misses < MaxCount => g_fail_count = misses

(* A miss counts one more, in RAM and for the host, until either is full.  *)
LEMMA MissCounts ==
    ASSUME NEW count \in Counts, NEW m \in 0 .. MaxCount, m < MaxCount => count = m
    PROVE  LET n == IF m < MaxCount THEN m + 1 ELSE m IN
           n \in 0 .. MaxCount /\ (n < MaxCount => (count + 1) % (MaxCount + 1) = n)
<1>1. MaxCount \in Nat
    BY PinAssumption
<1>2. ASSUME m + 1 < MaxCount PROVE (count + 1) % (MaxCount + 1) = m + 1
    <2>1. m + 1 \in 0 .. MaxCount /\ count = m
        BY <1>1, <1>2
    <2> QED BY <1>1, <2>1
<1> QED BY <1>1, <1>2

LEMMA KeptStep ==
    ASSUME Inv, CallInv, ForeignInv, KeptInv, LedgerNext
    PROVE  KeptInv'
<1> USE AnswerFields, PinAssumption
<1>1. Next /\ Observe
    BY LedgerObserves
<1>v. valid' = IF answer'.kind = "changed" THEN valid \cup {answer'.pin}
               ELSE IF answer.kind = "changed" /\ Answered("changed") THEN {reply'.pin}
               ELSE valid
    BY <1>1 DEF Observe
<1>m. misses' = IF pc = "idle" /\ answer'.kind = "deny"
                THEN IF misses < MaxCount THEN misses + 1 ELSE misses
                ELSE IF pc = "idle"
                        /\ (Answered("accept") \/ answer'.kind \in {"accept", "changed"})
                THEN 0 ELSE misses
    BY <1>1 DEF Observe
<1>s. sure' => sure /\ (Rewriting => Erase \/ Program)
    BY <1>1, Zenon DEF Observe
<1>2. misses' \in 0 .. MaxCount
    BY <1>m DEF KeptInv
<1> SUFFICES ASSUME sure', sure
             PROVE  /\ pc' \in {"idle", "delay"} => PageKept'
                    /\ pc' \in {"erase", "program"} => RewriteKeeps'
                    /\ IF pc' = "boot" THEN BootKeeps'
                       ELSE misses' < MaxCount => g_fail_count' = misses'
    BY <1>2, <1>s DEF KeptInv
<1>3. CASE Erase
    BY <1>3, <1>v, <1>m DEF Erase, KeptInv, RewriteKeeps
<1>4. CASE Program
    <2>1. /\ hashF' = g_pin_hash /\ countF' = g_fail_count
          /\ UNCHANGED <<g_pin_hash, g_fail_count>> /\ misses' = misses /\ pc = "program"
        BY <1>4, <1>m DEF Program, ProgramPage
    <2>2. Return(TRUE) /\ RewriteKeeps
        BY <1>4 DEF Program, KeptInv
    <2>3. g_initialized' /\ valid' = {g_pin_hash} /\ pc' \in {"idle", "delay"}
        <3>1. CASE answer.kind = "init"
            BY <2>2, <3>1, <1>v DEF Return, RewriteKeeps
        <3>2. CASE answer.kind = "deny"
            BY <2>2, <3>2, <1>v DEF Return, RewriteKeeps
        <3>3. CASE answer.kind = "accept"
            BY <2>2, <3>3, <1>v DEF Return, RewriteKeeps
        <3>4. CASE answer.kind = "changed"
            BY <2>2, <3>4, <1>v DEF Return, RewriteKeeps, CallInv, Answered
        <3> QED BY <2>2, <3>1, <3>2, <3>3, <3>4 DEF RewriteKeeps
    <2> QED BY <2>1, <2>3 DEF KeptInv, PageKept, ReadBack
<1>5. CASE FailDelay
    BY <1>5, <1>v, <1>m DEF FailDelay, page, CallInv, KeptInv, PageKept
<1>6. CASE Reset
    <2>1. pc \in {"idle", "delay"} /\ UNCHANGED page /\ pc' = "boot"
        BY <1>6, <1>s DEF Reset, Rewriting, Erase, Program, Return, Interrupted, Inv, TypeOK
    <2>2. valid' = valid /\ misses' = misses
        BY <1>6, <1>v, <1>m, <2>1 DEF Reset, Answered
    <2>3. PageKept /\ (misses < MaxCount => g_fail_count = misses) /\ g_pin_hash # Blank
        BY <2>1 DEF KeptInv, ForeignInv
    <2> QED BY <2>1, <2>2, <2>3 DEF PageKept, BootKeeps, page, ReadBack
<1>7. CASE pin_init
    <2>1. misses' = misses /\ valid' = valid
        BY <1>7, <1>v, <1>m DEF pin_init, CallInv
    <2> QED BY <1>7, <2>1
            DEF pin_init, page, KeptInv, BootKeeps, PageKept, RewriteKeeps, ReadBack
<1>8. ASSUME NEW p \in Pins, Miss(p), pc = "idle", g_initialized,
             UNCHANGED <<page, g_initialized>>
      PROVE  /\ pc' \in {"idle", "delay"} => PageKept'
             /\ pc' \in {"erase", "program"} => RewriteKeeps'
             /\ IF pc' = "boot" THEN BootKeeps'
                ELSE misses' < MaxCount => g_fail_count' = misses'
    <2>1. misses' < MaxCount => g_fail_count' = misses'
        BY <1>8, <1>m, MissCounts DEF Miss, KeptInv, Inv, TypeOK
    <2>2. valid' = valid
        BY <1>8, <1>v DEF Miss, CallInv
    <2> QED BY <1>8, <2>1, <2>2 DEF Miss, KeptInv, PageKept, RewriteKeeps
<1>9. ASSUME NEW p \in Pins, check_pin(p)
      PROVE  /\ pc' \in {"idle", "delay"} => PageKept'
             /\ pc' \in {"erase", "program"} => RewriteKeeps'
             /\ IF pc' = "boot" THEN BootKeeps'
                ELSE misses' < MaxCount => g_fail_count' = misses'
    <2>1. CASE Miss(p) /\ g_initialized
        BY <1>8, <1>9, <2>1 DEF check_pin
    <2>2. CASE p = g_pin_hash /\ g_fail_count # 0 /\ answer' = Answer("accept", p)
        BY <1>9, <1>v, <1>m, <2>2 DEF check_pin, Miss, page, CallInv, KeptInv, PageKept,
                                       RewriteKeeps
    <2>3. CASE p = g_pin_hash /\ g_fail_count = 0 /\ reply' = Answer("accept", p)
        BY <1>9, <1>v, <1>m, <2>3 DEF check_pin, Miss, page, CallInv, KeptInv, PageKept,
                                       ReadBack, Answered
    <2> QED BY <1>9, <2>1, <2>2, <2>3 DEF check_pin, KeptInv, PageKept
<1>10. ASSUME NEW old \in Pins, NEW new \in Pins, pin_change(old, new)
       PROVE  /\ pc' \in {"idle", "delay"} => PageKept'
              /\ pc' \in {"erase", "program"} => RewriteKeeps'
              /\ IF pc' = "boot" THEN BootKeeps'
                 ELSE misses' < MaxCount => g_fail_count' = misses'
    <2>1. CASE Miss(old) /\ g_initialized
        BY <1>8, <1>10, <2>1 DEF pin_change
    <2>2. CASE answer' = Answer("changed", new)
        <3>1. /\ pc = "idle" /\ pc' = "erase" /\ g_initialized /\ g_initialized'
              /\ g_fail_count' = 0
            BY <1>10, <2>2 DEF pin_change, Miss, CallInv
        <3>2. misses' = 0
            BY <1>m, <2>2, <3>1
        <3> QED BY <2>2, <3>1, <3>2 DEF RewriteKeeps
    <2> QED BY <1>10, <2>1, <2>2 DEF pin_change, KeptInv, PageKept
<1>11. CASE WriteFails /\ ~ Erase /\ ~ Program
    BY <1>11, <1>s DEF WriteFails, Rewriting
<1> QED BY <1>1, <1>3, <1>4, <1>5, <1>6, <1>7, <1>9, <1>10, <1>11 DEF Next, Call, Continue

(* A confirmed PIN and the count of failures survive every reset and       *)
(* everything else, until a rewrite of the page fails or is cut short.     *)
THEOREM PinAndCountSurvive == LedgerSpec => []PinAndCountKept
<1> DEFINE All == Inv /\ CallInv /\ ForeignInv /\ KeptInv
<1>1. LedgerInit => All
    <2>1. LedgerInit => ForeignInv
        BY AnswerFields DEF LedgerInit, Init, ForeignInv
    <2>2. LedgerInit => KeptInv
        BY PinAssumption DEF LedgerInit, Init, KeptInv, BootKeeps
    <2> QED BY <2>1, <2>2, LedgerSteps, CallInit DEF LedgerInit
<1>2. All /\ [LedgerNext]_ledgerVars => All'
    <2> SUFFICES ASSUME All, [LedgerNext]_ledgerVars PROVE All'
        OBVIOUS
    <2>1. CASE LedgerNext
        BY <2>1, LedgerSteps, CallStep, LedgerObserves, ForeignStep, KeptStep
    <2>2. CASE UNCHANGED ledgerVars
        <3>1. Inv' /\ CallInv'
            BY LedgerSteps, CallStep, <2>2 DEF ledgerVars
        <3>2. ForeignInv' /\ KeptInv'
            BY <2>2 DEF ledgerVars, vars, page, ForeignInv, KeptInv, BootKeeps, PageKept,
                        RewriteKeeps
        <3> QED BY <3>1, <3>2
    <2> QED BY <2>1, <2>2
<1>3. All => PinAndCountKept
    <2> SUFFICES ASSUME All, sure, pc = "idle"
                 PROVE  /\ g_initialized
                        /\ \E p \in valid : valid = {p} /\ g_pin_hash = p
                        /\ misses < MaxCount => g_fail_count = misses
        BY DEF PinAndCountKept
    <2> QED BY DEF KeptInv, PageKept
<1> QED BY <1>1, <1>2, <1>3, PTL DEF LedgerSpec
=============================================================================
