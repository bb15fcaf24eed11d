--------------------------- MODULE MCThermalPower ---------------------------
EXTENDS ThermalPower, TLC

(* Inputs at the edges of the checks: 0 (disable), 100 and 101 around the *)
(* thermal maximum, 128 just above PWR_THRESHOLD_MAX and the 7-bit field  *)
(* width, and text kstrtou8 rejects.                                       *)
MCInputs == {0, 100, 101, 128, ParseFail}

ThreadSymmetry == Permutations(Threads)
=============================================================================
