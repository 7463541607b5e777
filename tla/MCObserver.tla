------------------------------ MODULE MCObserver ------------------------------
(***************************************************************************)
(* Constants for checking Observer with TLC.                                 *)
(***************************************************************************)
EXTENDS Observer

MCOptions ==
  [opcode : 0..255, case : {NoFilter}, mode : {"nmi", "irq"}, hold : {1, 3}]
    \cup [opcode : {NoFilter}, case : {NoFilter, 1}, mode : {"nmi"}, hold : {2}]
=============================================================================
