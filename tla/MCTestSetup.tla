----------------------------- MODULE MCTestSetup ------------------------------
(***************************************************************************)
(* Constants for checking TestSetup with TLC: a test where the NOPs go and    *)
(* one beside them, with handlers of their own and with none.                *)
(***************************************************************************)
EXTENDS TestSetup

MCTests == {[start |-> s, reset |-> "wild", nmi |-> n, irq |-> "handler"] :
              s \in {"safe", "start"}, n \in {"handler", "start"}}
=============================================================================
