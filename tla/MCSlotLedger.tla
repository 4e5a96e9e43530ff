---------------------------- MODULE MCSlotLedger ----------------------------
(* Model values and symmetry for the runs of SlotLedger.                   *)
EXTENDS SlotLedger, TLC

CONSTANTS n1, n2

MCNames == {n1, n2}
MCSymmetry == Permutations(MCNames)
=============================================================================
