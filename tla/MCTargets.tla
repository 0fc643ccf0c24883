----------------------------- MODULE MCTargets -----------------------------
(***************************************************************************)
(* The three back ends on functions with a few temporaries more than the    *)
(* target has registers: every operation with every operand in a register   *)
(* and in the frame, and in the end all temporaries shown to an external    *)
(* function.  The text is run on the target's machine and compared with     *)
(* what the TAC means.                                                      *)
(***************************************************************************)
EXTENDS Targets, SequencesExt

CONSTANT Family     \* "all", or the name of a disagreement to show

symbols == <<"g", "h", "s">>

(* Constants of more than half a word, and one below zero.                  *)
Large == {Half + 5, Word - 3}

(* A function begins with loading its N arguments, into its first            *)
(* temporaries or, turned, into its last, and gives the others values.      *)
Fill(T, N, turned) ==
  LET into(k) == IF turned THEN T + 1 - k ELSE k
  IN  [k \in 1..T |-> IF k <= N THEN Inst(into(k), "LOAD_ARG", k - 1, 0)
                      ELSE Inst(into(k), "LOAD_INT", IF k = T - 1 THEN 0 ELSE k, 0)]
Arguments(T) == Lesser(T, 6)    \* x86 has all, MIPS two, on the stack

(* Call g with temporaries first..last and drop the answer.                *)
Show(first, last) ==
  LET n == last - first + 1
  IN  [k \in 1..n |-> Inst(0, "CALL_PUSH", last + 1 - k, n)] \o <<Inst(0, "CALL_SYM", 1, n)>>
ShowAll(T) ==
  FlattenSeq([c \in 1..((T + 5) \div 6) |-> Show(6 * c - 5, Lesser(6 * c, T))])

(* The operations on temporaries in P, which lie on both sides of the line. *)
Computations(P) ==
  {<<Inst(r, f, x, y)>> : r \in P, f \in {"ADD", "SUB", "LT"}, x \in P, y \in P}
    \ {<<Inst(r, f, x, r)>> : r \in P, f \in {"ADD", "SUB"}, x \in P}
Copies(P) ==
  {<<Inst(r, f, x, 3)>> : r \in P, f \in {"MOV", "ADDI", "SUBI", "LTI"}, x \in P}
  \cup {<<Inst(r, "LOAD_SYM", 2, 0)>> : r \in P}
  \cup {<<Inst(r, "LOAD_INT", n, 0)>> : r \in P, n \in Large}
CallsOf(P) ==
  {<<Inst(0, "CALL_PUSH_INT", 5, 3), Inst(0, "CALL_PUSH", x, 3), Inst(0, "CALL_PUSH_SYM", 3, 3),
     Inst(r, "CALL_SYM", 2, 3)>> : r \in P, x \in P}
  \cup {<<Inst(0, "CALL_PUSH", x, 1), Inst(r, "CALL_REG", x, 1)>> : r \in P, x \in P}
  \cup {<<Inst(r, "CALL_SYM", 2, 0)>> : r \in P}
  \cup {<<Inst(0, "CALL_PUSH_INT", n, 1), Inst(0, "CALL_SYM", 2, 1)>> : n \in Large}
Jumps(P) ==
  {<<Inst(0, "BIZ", x, 1), Inst(r, "LOAD_INT", 1, 0), Inst(0, "GOTO", 2, 0),
     Inst(0, "LABEL", 1, 0), Inst(r, "MOV", x, 0), Inst(0, "LABEL", 2, 0)>> : x \in P, r \in P}
  \cup {<<Inst(0, "BIZ", x, 1), Inst(0, "RETURN_INT", n, 0), Inst(0, "EXIT", 0, 0),
          Inst(0, "LABEL", 1, 0)>> : x \in P, n \in {3} \cup Large}

(* More arguments than PowerPC has registers left when r10 is a scratch       *)
(* register, and one more than it has registers: argument s is temporary x. *)
Wide == 7..9
WideCalls(P) ==
  {[k \in 1..n |-> IF n - k = s THEN Inst(0, "CALL_PUSH", x, n)
                   ELSE Inst(0, "CALL_PUSH_INT", 20 + k, n)] \o <<Inst(r, f, 1, n)>> :
     n \in Wide, s \in {0, 1, 4, 5, 6, 7}, x \in P, r \in P \cup {0}, f \in {"CALL_SYM", "CALL_REG"}}

(* With T temporaries: shown in the end, or a leaf that only returns one.   *)
ShownFrom(T, N, turned, code) ==
  [code |-> Fill(T, N, turned) \o code \o ShowAll(T) \o <<Inst(0, "RETURN_VAL", T, 0)>>,
   temps_count |-> T]
Shown(T, code) == ShownFrom(T, Arguments(T), FALSE, code)
Leaf(T, code) ==
  [code |-> Fill(T, Arguments(T), FALSE) \o code \o <<Inst(0, "RETURN_VAL", code[1].result, 0)>>,
   temps_count |-> T]

(* Functions of many arguments, alone and behind one with a frame.          *)
WideFunctions(H) ==
  LET wide(T) == {ShownFrom(T, N, turned, <<>>) : N \in Wide \cup {6}, turned \in BOOLEAN}
  IN  UNION {{<<f>>, <<Leaf(H + 2, <<Inst(2, "MOV", 1, 0)>>), f>>} :
               f \in UNION {wide(T) : T \in {9, H, H + 2} \ (0..8)}}

(* A target with H registers: temporaries 2, H, H + 1 and H + 2.            *)
For(H) ==
  LET P == {2, H, H + 1, H + 2}
  IN  {<<Shown(H + 2, c)>> :
         c \in Computations(P) \cup Copies(P) \cup CallsOf(P) \cup Jumps(P) \cup WideCalls({2, H + 1})}
      \cup {<<Leaf(H, c), Leaf(H + 2, d), Leaf(2, <<Inst(2, "MOV", 1, 0)>>)>> :
              c \in Computations({2, H}), d \in {<<Inst(H + 1, "ADD", H, H + 2)>>}}
      \cup WideFunctions(H)

MCUnits ==
  CASE Family = "all" -> [x86_32 |-> For(4), mips |-> For(8), ppc |-> For(17)]
    [] Family = "x86 call" ->
         [x86_32 |-> {<<Shown(5, <<Inst(0, "CALL_PUSH", 1, 1), Inst(5, "CALL_SYM", 2, 1)>>)>>}]
    [] Family = "ppc call" ->
         [ppc |-> {<<Shown(3, <<Inst(3, "ADD", 1, 2)>>)>>}]

-----------------------------------------------------------------------------
Is(f, ops) == {q \in DOMAIN f.code : f.code[q].function \in ops}

(* As many arguments as the function loads; all differ, and a condition is   *)
(* 0 or not.                                                               *)
Inputs(f) ==
  {[args |-> [k \in 1..Cardinality(Is(f, {"LOAD_ARG"})) |-> IntVal(Word + first - 3 * (k - 1))],
    seed |-> 100] : first \in {20, 3, 12}}

(* PowerPC's scratch registers that are loaded at instruction p, or in front *)
(* of the first: r10 downwards, one for each operand in the frame, before    *)
(* them one in a prologue with an eighteenth register to save, and before    *)
(* that one which the epilogue of such a function has left in use.          *)
Loaded(k, p) ==
  LET inst == functions[k].code[p]
      saves(q) == IF functions[q].temps_count >= 18 THEN 1 ELSE 0
      left == IF p = 1 /\ k > 1 THEN saves(k - 1) ELSE 0
      prologue == IF p = 1 THEN saves(k) ELSE 0
      spilled(t) == IF t > 17 THEN 1 ELSE 0
      own == spilled(inst.result)
             + (IF inst.function \in NullaryOps THEN 0 ELSE spilled(inst.x))
             + (IF inst.function \in BinaryOps THEN spilled(inst.y) ELSE 0)
  IN  {11 - n : n \in (left + 1)..(left + prologue + own)}

(* PowerPC, of which ppc.c:38-40 says that it "might break": an argument is   *)
(* still, or already, in a register that is loaded as a scratch register, or *)
(* is the ninth, which the convention passes on the stack.  In the run no    *)
(* other argument is exempted but the old value of a spilled result, which  *)
(* comes back unharmed when it is the eighth.                              *)
ArgumentLost(k) ==
  LET code == functions[k].code
  IN  \/ \E q \in Is(functions[k], {"LOAD_ARG"}) :
           code[q].x > 7 \/ \E p \in 1..q : code[q].x + 3 \in Loaded(k, p)
      \/ \E q \in Is(functions[k], {"CALL_SYM", "CALL_REG"}) :
           \/ code[q].y > 8
           \/ \E a \in 0..(code[q].y - 1) : \E p \in (q - a)..q : a + 3 \in Loaded(k, p)

(* What the back ends get wrong.  x86: a call with arguments whose result    *)
(* belongs in the frame (it is stored when the frame has moved).  The        *)
(* others: a call through a temporary in the frame (the scratch register it  *)
(* was in is stored back after the callee has used it), and a constant of    *)
(* more than half a word, which MIPS returns and PowerPC loads from the      *)
(* wrong halves.  PowerPC: arguments in its scratch registers.              *)
InRegisters == [x86_32 |-> 4, mips |-> 8, ppc |-> 17]
LargeFails == [x86_32 |-> {}, mips |-> {"RETURN_INT"}, ppc |-> {"RETURN_INT", "LOAD_INT", "CALL_PUSH_INT"}]
Mishandled(k) ==
  LET f == functions[k]
  IN  \/ \E q \in Is(f, LargeFails[target]) : f.code[q].x >= Half
      \/ target = "x86_32" /\
           \E q \in Is(f, {"CALL_SYM", "CALL_REG"}) : f.code[q].y > 0 /\ f.code[q].result > InRegisters[target]
      \/ target # "x86_32" /\ \E q \in Is(f, {"CALL_REG"}) : f.code[q].x > InRegisters[target]
      \/ target = "ppc" /\ ArgumentLost(k)

(* For every function, argument and answer of the functions it calls, the   *)
(* text calls the same functions with the same arguments in the same order  *)
(* and returns the same value, to the right place.                         *)
SameBehaviour(k, in) ==
  LET m == RunText(out[k], abi, symbols, in)
      o == Outcome(functions[k].code, symbols, in)
  IN  m.mode = "returned" /\ m.trace = o.trace /\ RegOf(m, abi.ret) = o.ret

RightText ==
  status = "done" =>
    \A k \in DOMAIN functions :
      \/ Mishandled(k)
      \/ \A in \in Inputs(functions[k]) : SameBehaviour(k, in)

(* PowerPC: functions with more temporaries than registers, those written    *)
(* out behind one (a scratch register is still in use), and those that call *)
(* (a callee may put its return address where a register is saved).         *)
Unconventional(k) ==
  \/ \E q \in 1..k : functions[q].temps_count >= 18
  \/ Is(functions[k], {"CALL_SYM", "CALL_REG"}) # {}

(* A function leaves its caller's registers and frame as it found them.     *)
CallersKept ==
  status = "done" =>
    \A k \in DOMAIN functions :
      \/ Mishandled(k)
      \/ target = "ppc" /\ Unconventional(k)
      \/ \A in \in Inputs(functions[k]) : KeepsCaller(RunText(out[k], abi, symbols, in), abi)

(* x86.c:54 says of frame-relative accesses while arguments are on the       *)
(* stack that "changing `frame` value seems to fix it".                     *)
FrameFixed == status = "done" => \A k \in DOMAIN functions : \A in \in Inputs(functions[k]) : SameBehaviour(k, in)

(* ppc.c:33 counts the nonvolatile registers: a function restores them.     *)
NonvolatileKept ==
  status = "done" =>
    \A k \in DOMAIN functions : \A in \in Inputs(functions[k]) : KeepsCaller(RunText(out[k], abi, symbols, in), abi)
=============================================================================
