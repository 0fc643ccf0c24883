------------------------------ MODULE Machine ------------------------------
(***************************************************************************)
(* The machines the back ends of src/src/targets write assembly for, cut    *)
(* down to what that assembly uses: registers, a stack of words, calls.     *)
(* The mnemonics are those of no target: each back end writes these in      *)
(* place of its own, one for one.                                          *)
(*                                                                         *)
(* An abi names the registers of a calling convention:                      *)
(*   ret      the register of the answer                                   *)
(*   args     the registers of the first arguments; the others, from there  *)
(*            on, are on the stack, the first argument lowest               *)
(*   first    where on the stack argument 0 is, or would be, on entry       *)
(*   home     how many arguments have a word there though they are passed   *)
(*            in registers                                                 *)
(*   saved    the registers a callee must leave as they were                *)
(*   link     the register with the return address, as a set: when empty,   *)
(*            the address is on top of the stack                           *)
(*   linkage  other words of the caller's frame that a callee may write     *)
(*   traps    whether signed overflow ends the program                      *)
(***************************************************************************)
EXTENDS TACSemantics, FiniteSets

EPILOGUE == 0       \* the label in front of the epilogue; the others are positive

Asm(op, d, a, b) == [op |-> op, d |-> d, a |-> a, b |-> b]

ReturnAddress == <<"return address", 0>>
Saved(r) == <<"saved", r>>

-----------------------------------------------------------------------------
(* A machine state.  Registers and words that nothing has set hold NoVal.   *)
RegOf(m, r) == IF r \in DOMAIN m.reg THEN m.reg[r] ELSE NoVal
WordAt(m, a) == IF a \in DOMAIN m.mem THEN m.mem[a] ELSE NoVal

(* The words of its caller that a callee owns, relative to its entry.       *)
OwnWords(n, abi) ==
  abi.linkage \cup
  {abi.first + 4 * k :
     k \in {k \in 0..(n + abi.home) : k < abi.home \/ k \in Len(abi.args)..(n - 1)}}

With(f, k, v) == [u \in DOMAIN f \cup {k} |-> IF u = k THEN v ELSE f[u]]
SetR(m, r, v) == [m EXCEPT !.reg = With(@, r, v)]
SetW(m, a, v) == [m EXCEPT !.mem = With(@, a, v), !.written = @ \cup {a}]

Entry(abi, in) ==
  LET n == Len(in.args)
      regs == {k \in 1..n : k <= Len(abi.args)}
      argReg == [r \in {abi.args[k] : k \in regs} |->
                   in.args[CHOOSE k \in regs : abi.args[k] = r]]
      stack == {abi.first + 4 * (k - 1) : k \in (1..n) \ regs}
  IN  [reg |-> [r \in abi.saved \cup DOMAIN argReg \cup abi.link |->
                  IF r \in DOMAIN argReg THEN argReg[r]
                  ELSE IF r \in abi.link THEN ReturnAddress ELSE Saved(r)],
       mem |-> [a \in stack \cup (IF abi.link = {} THEN {0} ELSE {}) |->
                  IF a \in stack THEN in.args[(a - abi.first) \div 4 + 1] ELSE ReturnAddress],
       sp |-> 0, written |-> {}, trace |-> <<>>, mode |-> "run", target |-> 0, in |-> in]

(* A call of what v names with n arguments.  The callee may do what it likes *)
(* to the registers that are not saved, to the words below its entry and to *)
(* those it owns.                                                          *)
Called(m, v, n, abi) ==
  LET entry == IF abi.link = {} THEN m.sp - 4 ELSE m.sp
      arg(k) == IF k <= Len(abi.args) THEN RegOf(m, abi.args[k])
                ELSE WordAt(m, entry + abi.first + 4 * (k - 1))
      trace == Append(m.trace, <<v, [k \in 1..n |-> arg(k)]>>)
      kept == {a \in DOMAIN m.mem : /\ a >= m.sp
                                     /\ a - entry \notin OwnWords(n, abi)}
  IN  [m EXCEPT !.trace = trace,
                !.reg = [r \in (abi.saved \cap DOMAIN @) \cup {abi.ret} |->
                           IF r = abi.ret THEN Answer(m.in.seed, Len(trace)) ELSE @[r]],
                !.mem = [a \in kept |-> @[a]]]

Overflows(n) == n >= Word \div 2 \/ n < -(Word \div 2)
Sum(m, abi, d, v, w, sign) ==
  IF /\ abi.traps /\ IsInt(v) /\ IsInt(w)
     /\ Overflows(Signed(v[2]) + sign * Signed(w[2]))
  THEN [m EXCEPT !.mode = "trap"]
  ELSE SetR(m, d, IF sign = 1 THEN Plus(v, w) ELSE Minus(v, w))

(* Half words: what an immediate of a RISC instruction holds.              *)
Half == 2 ^ (WordBits \div 2)

(* One instruction.                                                        *)
Do(m, i, abi, symbols) ==
  LET a == RegOf(m, i.a)
      b == RegOf(m, i.b)
      imm == IntVal(i.b)
  IN CASE i.op = "li"    -> SetR(m, i.d, imm)
       [] i.op = "la"    -> SetR(m, i.d, SymVal(symbols[i.b]))
       [] i.op = "lis"   -> SetR(m, i.d, IntVal(i.b * Half))
       [] i.op = "ori"   -> SetR(m, i.d, Plus(RegOf(m, i.d), imm))
       [] i.op = "mov"   -> SetR(m, i.d, a)
       [] i.op = "add"   -> Sum(m, abi, i.d, a, b, 1)
       [] i.op = "addi"  -> Sum(m, abi, i.d, a, imm, 1)
       [] i.op = "sub"   -> Sum(m, abi, i.d, a, b, -1)
       [] i.op = "subi"  -> Sum(m, abi, i.d, a, imm, -1)
       [] i.op = "slt"   -> SetR(m, i.d, Less(a, b))
       [] i.op = "slti"  -> SetR(m, i.d, Less(a, imm))
       [] i.op = "load"  -> SetR(m, i.d, WordAt(m, m.sp + i.b))
       [] i.op = "store" -> SetW(m, m.sp + i.b, a)
       [] i.op = "sp"    -> [m EXCEPT !.sp = @ + i.b]
       [] i.op = "push"  -> [SetW(m, m.sp - 4, a) EXCEPT !.sp = @ - 4]
       [] i.op = "pushi" -> [SetW(m, m.sp - 4, imm) EXCEPT !.sp = @ - 4]
       [] i.op = "pusha" -> [SetW(m, m.sp - 4, SymVal(symbols[i.b])) EXCEPT !.sp = @ - 4]
       [] i.op = "call"  -> Called(m, SymVal(symbols[i.a]), i.b, abi)
       [] i.op = "callr" -> Called(m, a, i.b, abi)
       [] i.op = "jump"  -> Goto(m, i.b)
       [] i.op = "jz"    -> IF a = NoVal THEN [m EXCEPT !.mode = "bad"]
                            ELSE IF a = IntVal(0) THEN Goto(m, i.b) ELSE m
       [] i.op = "ret"   ->
            [m EXCEPT !.mode =
               IF /\ m.sp = 0
                  /\ \A r \in abi.link : RegOf(m, r) = ReturnAddress
                  /\ abi.link = {} => WordAt(m, 0) = ReturnAddress
               THEN "returned" ELSE "lost"]
       [] OTHER -> m

Advance(m, i, abi, symbols) ==
  CASE m.mode = "run" -> Do(m, i, abi, symbols)
    [] m.mode = "skip" /\ i.op = "label" /\ i.b = m.target -> [m EXCEPT !.mode = "run"]
    [] OTHER -> m

(* From entry to the end of the text.                                      *)
RunText(text, abi, symbols, in) ==
  LET after[k \in 0..Len(text)] ==
        IF k = 0 THEN Entry(abi, in)
        ELSE LET m == after[k - 1] IN Advance(m, text[k], abi, symbols)
  IN  after[Len(text)]

-----------------------------------------------------------------------------
(* What a function owes its caller: the saved registers as they were, and   *)
(* no word written above its entry but those it owns.                      *)
KeepsCaller(m, abi) ==
  /\ \A r \in abi.saved : RegOf(m, r) = Saved(r)
  /\ {a \in m.written : a >= 0} \subseteq OwnWords(Len(m.in.args), abi)
=============================================================================
