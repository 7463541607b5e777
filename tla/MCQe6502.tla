------------------------------- MODULE MCQe6502 -------------------------------
(***************************************************************************)
(* Constants for checking Qe6502 with TLC.                                   *)
(***************************************************************************)
EXTENDS Qe6502

AllOpcodes == UNION {OpcodeRows(m) : m \in AllModels}

\* Programs without taken page-crossing branches, the opcodes that sample twice.
SingleSampling == AllOpcodes \ {"branch", "bra", "bbr_bbs"}
=============================================================================
