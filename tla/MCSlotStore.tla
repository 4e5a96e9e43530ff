---------------------------- MODULE MCSlotStore ----------------------------
(* Model values and symmetry for the runs of SlotStore.                    *)
EXTENDS SlotStore, TLC

CONSTANTS n1, n2

MCNames == {n1, n2}
MCSymmetry == Permutations(MCNames)
=============================================================================
