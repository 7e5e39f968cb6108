------------------------- MODULE MCEnergyAccounting -------------------------
(***************************************************************************)
(* Small instances of EnergyAccounting.  An uninitialised field may hold   *)
(* zero, a small number or the largest word, which is what makes sums wrap.*)
(***************************************************************************)
EXTENDS EnergyAccounting

MCGarbage == {0, 1, WORD - 1}
=============================================================================
