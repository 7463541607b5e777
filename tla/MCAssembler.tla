----------------------------- MODULE MCAssembler ------------------------------
(***************************************************************************)
(* The programs TLC compiles: every list of up to MaxCalls of the calls       *)
(* below, which place code in the middle, at the end and in front of the     *)
(* vectors, and refer to symbols before and after their definition.          *)
(***************************************************************************)
EXTENDS Assembler, SequencesExt

CONSTANTS MaxCalls, first, second, third

MCCalls == {<<Org(9)>>, <<OrgName(first)>>, <<Label(first)>>, <<Label(second)>>, <<Set(first, 15)>>,
            <<SetFrom(second, first, 1)>>, <<SetFrom(third, second, -2)>>, <<SetFrom(first, third, 1)>>,
            <<Low(Target(third, 0))>>, <<NmiVector(Target(second, 0))>>,
            Branch(second, 0), Addressed(TRUE, Target(first, 1))}

\* The vectors in front of code, as bootstrap_program writes them, with code that
\* fits under them and code that does not.
MCVectors(entry) == <<ResetVector(Target(NoName, entry)), NmiVector(Target(first, 0)),
                      BrkIrqVector(Target(second, 1))>> \o OrgLabel(entry, first)
MCWhole == {MCVectors(e) \o Branch(second, -1) \o <<Label(second)>> \o Addressed(FALSE, Target(first, 0)) :
              e \in {5, 6, 7}}

MCPrograms == MCWhole \cup
  {FlattenSeq(calls) : calls \in UNION {[1 .. n -> MCCalls] : n \in 1 .. MaxCalls}}
=============================================================================
