----------------------------- MODULE MCAccumulator -----------------------------
(***************************************************************************)
(* Constants for checking Accumulator with TLC.                              *)
(***************************************************************************)
EXTENDS Accumulator

\* Digits at the limits of the decimal adjustment, and bytes that are no numbers.
EdgeBytes == {0, 9, 16, 80, 128, 144, 153, 154, 255}

AllInstructions ==
  {"adc", "sbc", "lda", "logic", "cmp", "shift", "arr", "rra", "isc", "flags", "plp"}
=============================================================================
