------------------------- MODULE MCFoldTemporaries -------------------------
(***************************************************************************)
(* Every sequence of up to MaxLen loads, additions and returns over the     *)
(* temporaries 1..MaxTemp.                                                 *)
(***************************************************************************)
EXTENDS FoldTemporaries, SequencesExt

CONSTANT MaxLen

Temporary == 1..MaxTemp
Sample == {Inst(r, "LOAD_INT", 0, 0) : r \in Temporary}
          \cup {Inst(r, "ADD", a, b) : r, a, b \in Temporary}
          \cup {Inst(0, "RETURN_VAL", a, 0) : a \in Temporary}
MCCodes == {code \in BoundedSeq({s \in Sample : s.function = "ADD" => s.x <= s.y}, MaxLen) :
              OperandsCovered(code)}
=============================================================================
