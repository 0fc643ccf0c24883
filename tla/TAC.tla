-------------------------------- MODULE TAC --------------------------------
(***************************************************************************)
(* The intermediate representation of src/src/tac.h: three-address         *)
(* instructions over numbered temporaries, and the tables of tac.c that     *)
(* say how many operands an operation reads, whether it may be dropped      *)
(* when its result is unused, and whether it sets the return value.         *)
(*                                                                         *)
(* An instruction is a record [result, function, x, y].  Temporary 0 is     *)
(* "no result".  The fields x and y are temporaries, immediates, symbol or  *)
(* argument indices or labels, as the operation says.                       *)
(***************************************************************************)
EXTENDS Integers, Sequences

Inst(r, f, a, b) == [result |-> r, function |-> f, x |-> a, y |-> b]

(* get_arity: the operations by the number of temporaries they read.       *)
BinaryOps == {"ADD", "SUB", "LT", "PHI"}
UnaryOps  == {"CALL_REG", "CALL_PUSH", "RETURN_VAL", "BIZ", "MOV",
              "ADDI", "SUBI", "LTI"}
NullaryOps == {"RETURN_INT", "LOAD_ARG", "LOAD_SYM", "LOAD_INT",
               "CALL_PUSH_INT", "CALL_PUSH_SYM", "CALL_SYM",
               "LABEL", "GOTO", "NOP", "EXIT"}
Ops == BinaryOps \cup UnaryOps \cup NullaryOps

(* ispure: safe to drop when nobody reads the result.                      *)
PureOps == {"ADD", "SUB", "LT", "MOV", "ADDI", "SUBI", "NOP", "LOAD_INT",
            "LOAD_ARG", "LOAD_SYM", "LTI", "PHI"}

(* is_set_ret.                                                             *)
SetRetOps == {"RETURN_VAL", "RETURN_INT"}

(* Mutant: a call may be dropped too.                                      *)
IsPureOrCall(inst) == inst.function \in PureOps \cup {"CALL_SYM"}

IsPure(inst) == inst.function \in PureOps

(* The temporaries an instruction reads: x for a unary operation, x and y  *)
(* for a binary one.  The passes read and rewrite exactly these fields.    *)
Reads(inst) == CASE inst.function \in BinaryOps -> {inst.x, inst.y}
                 [] inst.function \in UnaryOps -> {inst.x}
                 [] OTHER -> {}

(* The temporaries find_first_last_usage counts as used at an instruction: *)
(* a result of 0 does not count, an operand of 0 does.                     *)
Mentions(inst) == Reads(inst) \cup ({inst.result} \ {0})

(* Apply m to every temporary of an instruction and to nothing else.       *)
MapTemps(m, inst) ==
  [inst EXCEPT !.result = m[@],
               !.x = IF inst.function \in BinaryOps \cup UnaryOps THEN m[@] ELSE @,
               !.y = IF inst.function \in BinaryOps THEN m[@] ELSE @]

(* Nothing mentioned between two mentions of t shares the register of t;    *)
(* with i = k = j: an instruction never writes over its own operands.       *)
Separates(m, code) ==
  \A i, j, k \in DOMAIN code : i <= k /\ k <= j =>
    \A t \in Mentions(code[i]) \cap Mentions(code[j]), u \in Mentions(code[k]) :
      t # u => m[t] # m[u]

(* Only "no result" becomes "no result".                                   *)
KeepsResults(m, code) ==
  m[0] = 0 /\ \A i \in DOMAIN code : \A t \in Mentions(code[i]) : m[t] = 0 => t = 0

NopOut(inst) == [inst EXCEPT !.function = "NOP"]

Results(code) == {code[i].result : i \in DOMAIN code}

(* Every nonzero temporary has at most one instruction that sets it.       *)
IsSSA(code) == \A i, j \in DOMAIN code :
                 code[i].result = code[j].result /\ code[i].result # 0 => i = j
=============================================================================
