--------------------------- MODULE TACSemantics ---------------------------
(***************************************************************************)
(* What a sequence of TAC instructions means: the reference the passes are  *)
(* checked against.  It is read off the instruction table of                *)
(* src/src/targets/x86.c (one machine sequence per operation) and the       *)
(* comments of src/src/tac.h, with the width of a machine word reduced.     *)
(*                                                                         *)
(* A call is opaque: its effect is an entry in the trace (callee and        *)
(* arguments), its answer a number that depends on the position in the      *)
(* trace, so that no two calls may be merged, dropped or reordered.         *)
(***************************************************************************)
EXTENDS TAC

(* A machine word: 32 bits in the compiler (uint32_t immediates) and in the *)
(* registers of its targets, fewer in the runs.                            *)
CONSTANT WordBits

ASSUME WordAssumption == WordBits \in Nat \ {0}

Word == 2 ^ WordBits

(* Said apart because the provers do not compute powers.                   *)
ASSUME WordPositive == Word \in Nat \ {0}

Signed(n) == IF 2 * n >= Word THEN n - Word ELSE n

(* Values are tagged: numbers, symbols (by name), and "nothing yet".       *)
IntVal(n) == <<"int", n % Word>>
SymVal(s) == <<"sym", s>>
NoVal == <<"none", 0>>

IsInt(v) == v[1] = "int"

Plus(a, b)  == IF IsInt(a) /\ IsInt(b) THEN IntVal(a[2] + b[2]) ELSE NoVal
Minus(a, b) == IF IsInt(a) /\ IsInt(b) THEN IntVal(Word + a[2] - b[2]) ELSE NoVal
Less(a, b)  == IF IsInt(a) /\ IsInt(b)
               THEN IntVal(IF Signed(a[2]) < Signed(b[2]) THEN 1 ELSE 0)
               ELSE NoVal

(* The k-th call of a run answers seed + k.                                *)
Answer(seed, k) == IntVal(seed + k)

(***************************************************************************)
(* One run.  mode is "run", "skip" (a jump is looking for its label: every  *)
(* jump the code generator makes is forward), "done" after EXIT, and "bad"  *)
(* after a read of a register nothing has set.  jumped says how the last    *)
(* label was reached, which is what a PHI behind it selects on.             *)
(***************************************************************************)
Start(in) ==
  [reg |-> <<>>, pushed |-> <<>>, trace |-> <<>>, ret |-> NoVal,
   mode |-> "run", target |-> 0, jumped |-> FALSE, in |-> in]

Reg(m, t) == IF t \in DOMAIN m.reg THEN m.reg[t] ELSE NoVal

SetReg(m, t, v) ==
  [m EXCEPT !.reg = [u \in DOMAIN @ \cup {t} |-> IF u = t THEN v ELSE @[u]]]

Goto(m, l) == [m EXCEPT !.mode = "skip", !.target = l]

CallTo(m, callee, inst) ==
  LET called == [m EXCEPT !.trace = Append(@, <<callee, SubSeq(m.pushed, 1, inst.y)>>),
                          !.pushed = SubSeq(@, inst.y + 1, Len(@))]
  IN  SetReg(called, inst.result, Answer(m.in.seed, Len(called.trace)))

Push(m, v) == [m EXCEPT !.pushed = <<v>> \o @]

(* symbols is the name table of the IR: symbols[x] is the name of symbol x. *)
Execute(m, inst, symbols) ==
  LET x == Reg(m, inst.x)
      y == Reg(m, inst.y)
  IN CASE inst.function = "LOAD_ARG" -> SetReg(m, inst.result, m.in.args[inst.x + 1])
       [] inst.function = "LOAD_INT" -> SetReg(m, inst.result, IntVal(inst.x))
       [] inst.function = "LOAD_SYM" -> SetReg(m, inst.result, SymVal(symbols[inst.x]))
       [] inst.function = "MOV"  -> SetReg(m, inst.result, x)
       [] inst.function = "ADD"  -> SetReg(m, inst.result, Plus(x, y))
       [] inst.function = "ADDI" -> SetReg(m, inst.result, Plus(x, IntVal(inst.y)))
       [] inst.function = "SUB"  -> SetReg(m, inst.result, Minus(x, y))
       [] inst.function = "SUBI" -> SetReg(m, inst.result, Minus(x, IntVal(inst.y)))
       [] inst.function = "LT"   -> SetReg(m, inst.result, Less(x, y))
       [] inst.function = "LTI"  -> SetReg(m, inst.result, Less(x, IntVal(inst.y)))
       [] inst.function = "PHI"  -> SetReg(m, inst.result, IF m.jumped THEN x ELSE y)
       [] inst.function = "CALL_PUSH"     -> Push(m, x)
       [] inst.function = "CALL_PUSH_INT" -> Push(m, IntVal(inst.x))
       [] inst.function = "CALL_PUSH_SYM" -> Push(m, SymVal(symbols[inst.x]))
       [] inst.function = "CALL_SYM" -> CallTo(m, SymVal(symbols[inst.x]), inst)
       [] inst.function = "CALL_REG" -> CallTo(m, x, inst)
       [] inst.function = "RETURN_VAL" -> [m EXCEPT !.ret = x]
       [] inst.function = "RETURN_INT" -> [m EXCEPT !.ret = IntVal(inst.x)]
       [] inst.function = "EXIT"  -> [m EXCEPT !.mode = "done"]
       [] inst.function = "GOTO"  -> Goto(m, inst.x)
       [] inst.function = "BIZ"   -> IF x = NoVal THEN [m EXCEPT !.mode = "bad"]
                                     ELSE IF x = IntVal(0) THEN Goto(m, inst.y)
                                     ELSE m
       [] inst.function = "LABEL" -> [m EXCEPT !.jumped = FALSE]
       [] OTHER -> m

Step(m, inst, symbols) ==
  CASE m.mode = "run" -> Execute(m, inst, symbols)
    [] m.mode = "skip" /\ inst.function = "LABEL" /\ inst.x = m.target ->
         [m EXCEPT !.mode = "run", !.jumped = TRUE]
    [] OTHER -> m

(* The machine after each prefix of the code, and after all of it.          *)
States(code, symbols, in) ==
  LET after[i \in 0..Len(code)] ==
        IF i = 0 THEN Start(in) ELSE Step(after[i - 1], code[i], symbols)
  IN  after

Run(code, symbols, in) == States(code, symbols, in)[Len(code)]

(* What a caller can see of a run.  A jump whose label is missing never     *)
(* ends well, and a function that returns nothing leaves NoVal behind.      *)
Outcome(code, symbols, in) ==
  LET m == Run(code, symbols, in)
  IN  [ret |-> m.ret, trace |-> m.trace,
       ok |-> m.mode \in {"run", "done"} /\ m.pushed = <<>>]

Meaning(code, symbols, inputs) == [in \in inputs |-> Outcome(code, symbols, in)]
=============================================================================
