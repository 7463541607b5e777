------------------------------ MODULE MCBusCycles ------------------------------
(***************************************************************************)
(* Constants for checking BusCycles with TLC: from several starts, in which     *)
(* indices, pointers, operands and the program counter cross pages and wrap,    *)
(* opcodes that cover every row shape and every mnemonic; from two, every opcode *)
(* of every model.                                                            *)
(***************************************************************************)
EXTENDS OpcodeTables, BusCycles

MCAlu(mn, a, v, p) ==
  CASE mn = "adc" -> (a + v + p) % B
    [] mn = "sbc" -> (a - v - 1 + p) % B
    [] mn = "arr" -> (a * v + p) % B
    [] mn = "rol" -> (2 * v + (p % 2)) % B
    [] mn = "ror" -> (v + B * (p % 2)) \div 2

\* The first opcode of each row shape, and of each mnemonic in a class.
Representatives(m) ==
  LET Same(o, q) ==
        LET i == Opcodes[m][o + 1]
            j == Opcodes[m][q + 1]
        IN  [shape |-> i.kind = j.kind /\ i.mode = j.mode, name |-> i.kind = j.kind /\ i.mn = j.mn]
  IN  {o \in 0..255 : \/ \A q \in 0..o - 1 : ~Same(o, q).shape
                      \/ \A q \in 0..o - 1 : ~Same(o, q).name}

Start(pc, lo, hi, x, y) ==
  [pc |-> pc, s |-> (lo + x) % B, a |-> (x + 3) % B, x |-> x, y |-> y,
   p |-> (IF lo % 2 = 1 THEN DFlag ELSE 0) + (IF x = 1 THEN IFlag ELSE 0) + (IF y = 1 THEN BFlag ELSE 0),
   la |-> Word(hi, lo), ld |-> hi,
   mem |-> [k \in Addresses |->
              CASE k = Wrap(pc + 1) -> lo
                [] k = Wrap(pc + 2) -> hi
                [] OTHER            -> (5 * k + Hi(k) + 3) % B]]

Case(start, model, menus) == [start |-> start, model |-> model, program |-> menus]

ManyStarts ==
  {Start(62, 3, 2, 0, 1), Start(62, 3, 2, 1, 7), Start(62, 3, 2, 7, 0),
   Start(61, 0, 3, 1, 7), Start(31, 7, 1, 7, 2)}
FewStarts == {Start(62, 7, 2, 1, 7), Start(22, 3, 7, 7, 0)}

MCCases ==
  {Case(start, model, <<Representatives(model)>>) : start \in ManyStarts, model \in {"nmos", "wdc"}}
    \cup {Case(start, model, <<{GotoSlot}, Interrupts>>) : start \in ManyStarts, model \in {"nmos", "wdc"}}
    \cup {Case(start, model, <<0..255>>) : start \in FewStarts, model \in Models}
=============================================================================
