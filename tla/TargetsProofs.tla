--------------------------- MODULE TargetsProofs ---------------------------
(***************************************************************************)
(* Proofs about the back ends for every IR of the shape the compiler hands  *)
(* over: no assert on the scratch registers fails, and what is tracked along *)
(* the text is right at every jump.                                        *)
(***************************************************************************)
EXTENDS Targets, TLAPS

-----------------------------------------------------------------------------
(* The inductive invariant.                                                *)

(* Before instruction n of the code, a call at q is being prepared.        *)
Preparing(code, q, n) == Calls(code[q]) /\ q - code[q].y <= n /\ n <= q

(* c arguments of the call being prepared before instruction n have been    *)
(* passed: those between the first of them and n, and none outside a call.  *)
Passed(code, n, c) ==
  /\ \A q \in DOMAIN code : Preparing(code, q, n) => c = n - (q - code[q].y)
  /\ (\A q \in DOMAIN code : ~Preparing(code, q, n)) => c = 0

(* The scratch registers in use between two instructions: only PowerPC has  *)
(* any, one from an epilogue and one from a prologue.                      *)
InUse ==
  CASE target # "ppc" -> 0
    [] target = "ppc" /\ j = 0 -> 1
    [] target = "ppc" /\ j = 1 -> IF func = <<>> THEN 1 ELSE 2
    [] OTHER -> 0

PlaceInv ==
  /\ target \in {"x86_32", "mips", "ppc"} /\ target \in DOMAIN Units
  /\ functions \in Units[target]
  /\ i \in Nat \ {0} /\ j \in Nat /\ i <= Len(functions) + 1
  /\ j > 0 => i <= Len(functions) /\ j <= Len(func) + 1
  /\ status \in {"running", "done"} /\ frame \in Int /\ call_count \in Nat

ScratchInv ==
  /\ register_map \in Seq(Int)
  /\ i <= Len(functions) => Len(register_map) <= InUse

PassedInv ==
  IF target = "x86_32"
  THEN /\ call_count = 0
       /\ j > 0 => \E c \in Nat : Passed(func, j, c) /\ frame = 4 * (temps_count + c)
  ELSE /\ j = 0 => call_count = 0
       /\ j > 0 => Passed(func, j, call_count)

IInv == PlaceInv /\ ScratchInv /\ PassedInv

-----------------------------------------------------------------------------
(* Codes and IRs.                                                          *)
LEMMA UnitsShape ==
  ASSUME NEW t \in DOMAIN Units, NEW ir \in Units[t], NEW k \in 1..Len(ir)
  PROVE  /\ Len(ir) \in Nat
         /\ ir[k].code \in Seq(Instructions) /\ ir[k].temps_count \in Nat
         /\ Paired(ir[k].code)
         /\ t = "ppc" => PowerPC!Supported(ir[k])
<1>1. ir \in Seq(StaticFunctions)
  BY UnitsAssumption DEF IRs
<1>2. Len(ir) \in Nat /\ DOMAIN ir = 1..Len(ir) /\ ir[k] \in StaticFunctions
  BY <1>1
<1>3. Paired(ir[k].code) /\ (t = "ppc" => PowerPC!Supported(ir[k]))
  BY <1>2, UnitsAssumption
<1>4. QED
  BY <1>2, <1>3 DEF StaticFunctions

LEMMA CodeShape ==
  ASSUME NEW code \in Seq(Instructions)
  PROVE  /\ Len(code) \in Nat /\ DOMAIN code = 1..Len(code)
         /\ \A q \in DOMAIN code :
              /\ code[q].result \in Nat /\ code[q].x \in Nat /\ code[q].y \in Nat
              /\ code[q].function \in Ops
<1>1. \A q \in 1..Len(code) : code[q] \in Instructions
  OBVIOUS
<1>2. Len(code) \in Nat /\ DOMAIN code = 1..Len(code)
  OBVIOUS
<1>3. QED
  BY <1>1, <1>2 DEF Instructions

(* The function the loop is at.                                            *)
LEMMA Current ==
  ASSUME PlaceInv, i <= Len(functions)
  PROVE  /\ Len(functions) \in Nat
         /\ func \in Seq(Instructions) /\ temps_count \in Nat /\ Paired(func)
         /\ target = "ppc" => PowerPC!Supported(functions[i])
BY UnitsShape DEF PlaceInv, func, temps_count

-----------------------------------------------------------------------------
(* Passing arguments.                                                      *)

(* A call is prepared at a time.                                           *)
LEMMA OneCall ==
  ASSUME NEW code \in Seq(Instructions), Paired(code), NEW n \in Nat,
         NEW p \in DOMAIN code, NEW q \in DOMAIN code,
         Preparing(code, p, n), Preparing(code, q, n)
  PROVE  p = q
<1>1. ASSUME NEW a \in DOMAIN code, NEW b \in DOMAIN code, a < b,
             Preparing(code, a, n), Preparing(code, b, n)
      PROVE  FALSE
  <2>1. a \in Int /\ b \in Int /\ code[a].y \in Nat /\ code[b].y \in Nat
    BY CodeShape
  <2>2. a \in Passing(code, b)
    BY <1>1, <2>1 DEF Preparing, Passing
  <2>3. Passes(code[a])
    BY <1>1, <2>2 DEF Paired, Preparing
  <2>4. QED
    BY <1>1, <2>3 DEF Preparing, Calls, Passes
<1>2. p \in Int /\ q \in Int
  BY CodeShape
<1>3. QED
  BY <1>1, <1>2

(* At the first instruction nothing has been passed.                       *)
LEMMA NothingPassed ==
  ASSUME NEW code \in Seq(Instructions), Paired(code)
  PROVE  Passed(code, 1, 0)
<1> SUFFICES ASSUME NEW q \in DOMAIN code, Preparing(code, q, 1)
             PROVE  q - code[q].y = 1
  BY CodeShape DEF Passed, Preparing
<1>1. q \in 1..Len(code) /\ Len(code) \in Nat /\ code[q].y \in Nat
  BY CodeShape
<1>2. CASE code[q].y = 0
  BY <1>1, <1>2 DEF Preparing
<1>3. CASE code[q].y > 0
  <2>1. q - code[q].y \in Passing(code, q)
    BY <1>1, <1>3 DEF Passing
  <2>2. q - code[q].y \in 1..Len(code)
    BY <2>1, CodeShape DEF Paired, Preparing
  <2>3. QED
    BY <1>1, <2>2 DEF Preparing
<1>4. QED
  BY <1>1, <1>2, <1>3

(* The count after an instruction.                                         *)
Counts(inst, c) == IF Passes(inst) THEN c + 1 ELSE IF Calls(inst) THEN 0 ELSE c

LEMMA PassedStep ==
  ASSUME NEW code \in Seq(Instructions), Paired(code), NEW n \in DOMAIN code,
         NEW c \in Nat, Passed(code, n, c)
  PROVE  Passed(code, n + 1, Counts(code[n], c))
<1> USE CodeShape
<1>1. n \in 1..Len(code) /\ Len(code) \in Nat /\ code[n].y \in Nat
  OBVIOUS
<1>2. CASE Passes(code[n])
  <2>1. PICK q \in DOMAIN code : Calls(code[q]) /\ n \in Passing(code, q)
    BY <1>2 DEF Paired
  <2>2. q \in Int /\ code[q].y \in Nat
    OBVIOUS
  <2>3. Preparing(code, q, n) /\ Preparing(code, q, n + 1)
    BY <1>1, <2>1, <2>2 DEF Preparing, Passing
  <2>4. c = n - (q - code[q].y)
    BY <2>3 DEF Passed
  <2>5. \A p \in DOMAIN code : Preparing(code, p, n + 1) => p = q
    BY <1>1, <2>3, OneCall
  <2>6. QED
    BY <1>1, <1>2, <2>2, <2>3, <2>4, <2>5, SMTT(20) DEF Passed, Counts
<1>3. ~Passes(code[n]) => \A q \in DOMAIN code : Preparing(code, q, n) => q = n
  <2> SUFFICES ASSUME ~Passes(code[n]), NEW q \in DOMAIN code, Preparing(code, q, n), q # n
               PROVE  FALSE
    OBVIOUS
  <2>1. n \in Passing(code, q)
    BY <1>1 DEF Preparing, Passing
  <2>2. QED
    BY <2>1 DEF Paired, Preparing
(* What is prepared next begins next.                                      *)
<1>4. ASSUME ~Passes(code[n]), NEW q \in DOMAIN code, Preparing(code, q, n + 1)
      PROVE  q - code[q].y = n + 1
  <2>1. q \in Int /\ code[q].y \in Nat /\ q >= n + 1 /\ q - code[q].y <= n + 1
    BY <1>1, <1>4 DEF Preparing
  <2>2. ~Preparing(code, q, n)
    BY <1>1, <1>3, <1>4, <2>1
  <2>3. QED
    BY <1>1, <1>4, <2>1, <2>2 DEF Preparing
<1>5. CASE Calls(code[n])
  <2>1. ~Passes(code[n])
    BY <1>5 DEF Calls, Passes
  <2>2. QED
    BY <1>1, <1>4, <1>5, <2>1 DEF Passed, Counts
<1>6. CASE ~Passes(code[n]) /\ ~Calls(code[n])
  <2>1. \A q \in DOMAIN code : ~Preparing(code, q, n)
    BY <1>3, <1>6 DEF Preparing
  <2>2. c = 0
    BY <2>1 DEF Passed
  <2>3. QED
    BY <1>1, <1>4, <1>6, <2>2 DEF Passed, Counts
<1>7. QED
  BY <1>2, <1>5, <1>6

(* A call has had its arguments passed, and no jump is among them.         *)
LEMMA PassedAt ==
  ASSUME NEW code \in Seq(Instructions), Paired(code), NEW n \in Nat,
         NEW c \in Nat, Passed(code, n, c)
  PROVE  /\ n \in DOMAIN code /\ Calls(code[n]) => c = code[n].y
         /\ n \in DOMAIN code /\ ~Calls(code[n]) /\ ~Passes(code[n]) => c = 0
         /\ n = Len(code) + 1 => c = 0
<1> USE CodeShape
<1>1. ASSUME n \in DOMAIN code, Calls(code[n]) PROVE c = code[n].y
  <2>1. Preparing(code, n, n)
    BY <1>1 DEF Preparing
  <2>2. QED
    BY <1>1, <2>1 DEF Passed
<1>2. ASSUME n \in DOMAIN code, ~Calls(code[n]), ~Passes(code[n]) PROVE c = 0
  <2>1. ASSUME NEW q \in DOMAIN code, Preparing(code, q, n) PROVE FALSE
    <3>1. n \in Passing(code, q)
      BY <1>2, <2>1 DEF Preparing, Passing
    <3>2. QED
      BY <1>2, <2>1, <3>1 DEF Paired, Preparing
  <2>2. QED
    BY <2>1 DEF Passed
<1>3. ASSUME n = Len(code) + 1 PROVE c = 0
  BY <1>3 DEF Passed, Preparing
<1>4. QED
  BY <1>1, <1>2, <1>3

-----------------------------------------------------------------------------
(* Scratch registers.  A state of the table that no assert has stopped,     *)
(* with at most n registers in use.                                        *)
InOrder(st, n) ==
  /\ DOMAIN st = {"map", "text", "reg", "ok"}
  /\ st.map \in Seq(Int) /\ Len(st.map) <= n /\ st.ok = TRUE

LEMMA InOrderBefore ==
  ASSUME register_map \in Seq(Int), NEW n \in Nat, Len(register_map) <= n
  PROVE  InOrder(Before, n) /\ InOrder(X86_32!Before, n) /\ InOrder(Mips!Before, n)
         /\ InOrder(PowerPC!Before, n)
BY DEF InOrder, Before, X86_32!Before, Mips!Before, PowerPC!Before

(* Finding a register takes none; spilling takes one.                      *)
LEMMA InOrderFound ==
  ASSUME NEW st, NEW n \in Nat, InOrder(st, n), NEW reg
  PROVE  InOrder(Found(st, reg), n)
BY DEF InOrder, Found

LEMMA InOrderPrinted ==
  ASSUME NEW st, NEW n \in Nat, InOrder(st, n), NEW text
  PROVE  InOrder([st EXCEPT !.text = text], n)
BY DEF InOrder

LEMMA InOrderSpilled ==
  ASSUME NEW st, NEW n \in Nat, InOrder(st, n), NEW reg, NEW slot \in Int, NEW text
  PROVE  InOrder(Spilled(st, reg, slot, text), n + 1)
<1>1. Append(st.map, slot) \in Seq(Int) /\ Len(Append(st.map, slot)) = Len(st.map) + 1
      /\ Len(st.map) \in Nat
  BY DEF InOrder
<1>2. QED
  BY <1>1 DEF InOrder, Spilled

LEMMA InOrderMore ==
  ASSUME NEW st, NEW n \in Nat, NEW m \in Nat, n <= m, InOrder(st, n)
  PROVE  InOrder(st, m)
BY DEF InOrder

(* Access for reading and for writing.                                     *)
ReadX86(st, reg) == X86_32!access_register(st, reg, FALSE)
WrittenX86(st, reg) == X86_32!access_register(st, reg, TRUE)
ReadMIPS(st, reg) == Mips!access_register(st, reg, FALSE)
WrittenMIPS(st, reg) == Mips!access_register(st, reg, TRUE)
ReadPPC(st, reg) == PowerPC!access_register(st, reg, FALSE)
WrittenPPC(st, reg) == PowerPC!access_register(st, reg, TRUE)

(* One access to a register takes at most one scratch register, when there  *)
(* is one: x86 has three, MIPS uses nine, PowerPC four.                    *)
LEMMA AccessX86 ==
  ASSUME NEW st, NEW n \in 0..2, InOrder(st, n), NEW reg \in Nat, frame \in Int
  PROVE  InOrder(ReadX86(st, reg), n + 1) /\ InOrder(WrittenX86(st, reg), n + 1)
<1>1. \A r : InOrder(X86_32!Found(st, r), n + 1)
  BY InOrderFound, InOrderMore DEF Found, X86_32!Found
<1>2. ASSUME NEW r, NEW slot \in Int, NEW text PROVE InOrder(X86_32!Spilled(st, r, slot, text), n + 1)
  <2>1. Spilled(st, r, slot, text) = X86_32!Spilled(st, r, slot, text)
    BY DEF Spilled, X86_32!Spilled
  <2>2. InOrder(Spilled(st, r, slot, text), n + 1)
    BY InOrderSpilled
  <2>3. QED
    BY <2>1, <2>2
<1>3. ~(Len(st.map) >= 3)
  BY DEF InOrder
<1>4. frame - (reg - 4) * 4 \in Int
  OBVIOUS
<1>5. QED
  BY <1>1, <1>2, <1>3, <1>4 DEF X86_32!access_register, ReadX86, WrittenX86

LEMMA InTempMIPS ==
  ASSUME NEW st, NEW n \in 0..8, InOrder(st, n), NEW slot \in Int
  PROVE  InOrder(Mips!InTemp(st, slot), n + 1)
<1>1. ~(Len(st.map) + 1 >= Mips!MAX_TEMP_REGISTERS)
  BY DEF InOrder, Mips!MAX_TEMP_REGISTERS
<1>2. ASSUME NEW r, NEW text PROVE InOrder(Mips!Spilled(st, r, slot, text), n + 1)
  <2>1. Spilled(st, r, slot, text) = Mips!Spilled(st, r, slot, text)
    BY DEF Spilled, Mips!Spilled
  <2>2. InOrder(Spilled(st, r, slot, text), n + 1)
    BY InOrderSpilled
  <2>3. QED
    BY <2>1, <2>2
<1>3. QED
  BY <1>1, <1>2 DEF Mips!InTemp

LEMMA AccessMIPS ==
  ASSUME NEW st, NEW n \in 0..8, InOrder(st, n), NEW reg \in Nat, frame \in Int
  PROVE  InOrder(ReadMIPS(st, reg), n + 1) /\ InOrder(WrittenMIPS(st, reg), n + 1)
<1>1. \A r : InOrder(Mips!Found(st, r), n + 1)
  BY InOrderFound, InOrderMore DEF Found, Mips!Found
<1>2. InOrder(Mips!InTemp(st, frame - reg * 4 - 4), n + 1)
  BY InTempMIPS
<1>3. QED
  BY <1>1, <1>2 DEF Mips!access_register, ReadMIPS, WrittenMIPS

LEMMA AccessArgumentMIPS ==
  ASSUME NEW st, NEW n \in 0..8, InOrder(st, n), NEW reg \in Nat, NEW total \in Nat, frame \in Int
  PROVE  /\ InOrder(Mips!access_call_register(st, reg), n + 1)
         /\ InOrder(Mips!access_local_call_register(st, reg, total), n + 1)
<1>1. \A r : InOrder(Mips!Found(st, r), n + 1)
  BY InOrderFound, InOrderMore DEF Found, Mips!Found
<1>2. InOrder(Mips!InTemp(st, frame + reg * 4), n + 1) /\ InOrder(Mips!InTemp(st, -reg * 4 - 4), n + 1)
  <2>1. frame + reg * 4 \in Int /\ -reg * 4 - 4 \in Int
    OBVIOUS
  <2>2. QED
    BY <2>1, InTempMIPS
<1>3. QED
  BY <1>1, <1>2 DEF Mips!access_call_register, Mips!access_local_call_register

LEMMA AccessPPC ==
  ASSUME NEW st, NEW n \in 0..3, InOrder(st, n), NEW reg \in Nat, NEW top
  PROVE  InOrder(PowerPC!access_in(st, reg, top), n + 1)
<1>1. ASSUME NEW r PROVE InOrder(PowerPC!Found(st, r), n + 1)
  BY n \in Nat, n + 1 \in Nat, InOrderFound, InOrderMore DEF Found, PowerPC!Found
<1>2. ~(Len(st.map) + 1 >= PowerPC!MAX_TEMP_REGISTERS)
  BY DEF InOrder, PowerPC!MAX_TEMP_REGISTERS
<1>3. ASSUME NEW r, NEW text PROVE InOrder(PowerPC!Spilled(st, r, reg, text), n + 1)
  <2>1. Spilled(st, r, reg, text) = PowerPC!Spilled(st, r, reg, text)
    BY DEF Spilled, PowerPC!Spilled
  <2>2. InOrder(Spilled(st, r, reg, text), n + 1)
    BY InOrderSpilled
  <2>3. QED
    BY <2>1, <2>2
<1>4. QED
  BY <1>1, <1>2, <1>3 DEF PowerPC!access_in

LEMMA OperandsX86 ==
  ASSUME register_map = <<>>, frame \in Int,
         NEW inst, inst.x \in Nat, inst.y \in Nat, inst.result \in Nat
  PROVE  InOrder(X86_32!Operands(inst).st, 3)
<1> DEFINE y == IF inst.function \in BinaryOps THEN ReadX86(X86_32!Before, inst.y)
                ELSE X86_32!Before
           x == IF inst.function \in NullaryOps THEN y ELSE ReadX86(y, inst.x)
           r == WrittenX86(x, inst.result)
<1>1. InOrder(X86_32!Before, 0)
  BY InOrderBefore
<1>2. InOrder(y, 1)
  <2>1. InOrder(ReadX86(X86_32!Before, inst.y), 0 + 1)
    BY <1>1, AccessX86
  <2>2. InOrder(X86_32!Before, 1)
    BY <1>1, InOrderMore
  <2>3. QED
    BY <2>1, <2>2
<1> HIDE DEF y
<1>3. InOrder(x, 2)
  <2>1. InOrder(ReadX86(y, inst.x), 1 + 1)
    BY <1>2, AccessX86
  <2>2. InOrder(y, 2)
    BY <1>2, InOrderMore
  <2>3. QED
    BY <2>1, <2>2
<1> HIDE DEF x
<1>4. InOrder(r, 2 + 1)
  BY <1>3, AccessX86
<1> HIDE DEF r
<1>5. X86_32!Operands(inst).st = r
  BY DEF X86_32!Operands, X86_32!BinaryOps, BinaryOps, X86_32!NullaryOps, NullaryOps,
         ReadX86, WrittenX86, y, x, r
<1>6. QED
  BY <1>4, <1>5

LEMMA OperandsMIPS ==
  ASSUME register_map = <<>>, frame \in Int,
         NEW inst, inst.x \in Nat, inst.y \in Nat, inst.result \in Nat
  PROVE  InOrder(Mips!Operands(inst).st, 3)
<1> DEFINE y == IF inst.function \in BinaryOps THEN ReadMIPS(Mips!Before, inst.y)
                ELSE Mips!Before
           x == IF inst.function \in NullaryOps THEN y ELSE ReadMIPS(y, inst.x)
           r == WrittenMIPS(x, inst.result)
<1>1. InOrder(Mips!Before, 0)
  BY InOrderBefore
<1>2. InOrder(y, 1)
  <2>1. InOrder(ReadMIPS(Mips!Before, inst.y), 0 + 1)
    BY <1>1, 0 \in 0..8, AccessMIPS
  <2>2. InOrder(Mips!Before, 1)
    BY <1>1, InOrderMore
  <2>3. QED
    BY <2>1, <2>2
<1> HIDE DEF y
<1>3. InOrder(x, 2)
  <2>1. InOrder(ReadMIPS(y, inst.x), 1 + 1)
    BY <1>2, 1 \in 0..8, AccessMIPS
  <2>2. InOrder(y, 2)
    BY <1>2, InOrderMore
  <2>3. QED
    BY <2>1, <2>2
<1> HIDE DEF x
<1>4. InOrder(r, 2 + 1)
  BY <1>3, 2 \in 0..8, AccessMIPS
<1> HIDE DEF r
<1>5. Mips!Operands(inst).st = r
  BY DEF Mips!Operands, Mips!BinaryOps, BinaryOps, Mips!NullaryOps, NullaryOps,
         ReadMIPS, WrittenMIPS, y, x, r
<1>6. QED
  BY <1>4, <1>5

(* Three scratch registers more at most, and one when there is nothing to   *)
(* read.                                                                   *)
LEMMA OperandsPPC ==
  ASSUME register_map \in Seq(Int), NEW n \in 0..2, Len(register_map) <= n,
         NEW inst, inst.x \in Nat, inst.y \in Nat, inst.result \in Nat,
         inst.function \in Ops, n = 2 => Reads(inst) = {}
  PROVE  InOrder(PowerPC!Operands(inst).st, 4)
<1> DEFINE y == IF inst.function \in BinaryOps THEN ReadPPC(PowerPC!Before, inst.y)
                ELSE PowerPC!Before
           x == IF inst.function \in NullaryOps THEN y ELSE ReadPPC(y, inst.x)
           r == WrittenPPC(x, inst.result)
<1>1. InOrder(PowerPC!Before, n)
  BY InOrderBefore
<1>2. ASSUME NEW st, NEW m \in 0..3, InOrder(st, m), NEW k \in Nat
      PROVE  InOrder(ReadPPC(st, k), m + 1) /\ InOrder(WrittenPPC(st, k), m + 1)
  <2>1. InOrder(PowerPC!access_in(st, k, frame), m + 1)
    BY <1>2, AccessPPC
  <2>2. QED
    BY <2>1 DEF ReadPPC, WrittenPPC, PowerPC!access_register
<1>3. InOrder(x, 3)
  <2>1. CASE n = 2
    <3>1. inst.function \notin BinaryOps /\ inst.function \in NullaryOps
      BY <2>1 DEF Reads, Ops
    <3>2. QED
      BY <1>1, <2>1, <3>1, InOrderMore
  <2>2. CASE n < 2
    <3>1. InOrder(PowerPC!Before, 1)
      BY <1>1, <2>2, InOrderMore
    <3>2. InOrder(y, 2)
      <4>1. InOrder(ReadPPC(PowerPC!Before, inst.y), 1 + 1)
        BY <1>2, <3>1
      <4>2. InOrder(PowerPC!Before, 2)
        BY <3>1, InOrderMore
      <4>3. QED
        BY <4>1, <4>2
    <3> HIDE DEF y
    <3>3. InOrder(ReadPPC(y, inst.x), 2 + 1)
      BY <1>2, <3>2
    <3>4. InOrder(y, 3)
      BY <3>2, InOrderMore
    <3>5. QED
      BY <3>3, <3>4
  <2>3. QED
    BY <2>1, <2>2
<1> HIDE DEF x
<1>4. InOrder(r, 3 + 1)
  BY <1>2, <1>3
<1> HIDE DEF r
<1>5. PowerPC!Operands(inst).st = r
  BY DEF PowerPC!Operands, PowerPC!BinaryOps, BinaryOps, PowerPC!NullaryOps, NullaryOps,
         ReadPPC, WrittenPPC, y, x, r
<1>6. QED
  BY <1>4, <1>5

(* The prologue and the epilogue take one when there is an eighteenth.      *)
LEMMA SavingPPC ==
  ASSUME register_map \in Seq(Int), NEW n \in 0..1, Len(register_map) <= n,
         NEW op, NEW top, temps_count \in Nat
  PROVE  /\ InOrder(PowerPC!EachRegister(op, top), n + 1)
         /\ temps_count < 18 => InOrder(PowerPC!EachRegister(op, top), n)
<1>1. InOrder(PowerPC!Before, n)
  BY InOrderBefore
<1>2. InOrder(PowerPC!access_in(PowerPC!Before, 18, top), n + 1)
  BY <1>1, AccessPPC
<1>3. PowerPC!real_registers < 18 <=> temps_count < 18
  BY DEF PowerPC!real_registers, PowerPC!Lesser, PowerPC!temps_count, temps_count
<1>4. CASE temps_count < 18
  <2>1. PICK text : PowerPC!EachRegister(op, top) = [PowerPC!Before EXCEPT !.text = text]
    BY <1>3, <1>4 DEF PowerPC!EachRegister
  <2>2. InOrder([PowerPC!Before EXCEPT !.text = text], n)
    BY <1>1, n \in Nat, InOrderPrinted
  <2>3. QED
    BY <2>1, <2>2, InOrderMore
<1>5. CASE ~(temps_count < 18)
  <2>1. PICK text : PowerPC!EachRegister(op, top) =
                      [PowerPC!access_in(PowerPC!Before, 18, top) EXCEPT !.text = text]
    BY <1>3, <1>5 DEF PowerPC!EachRegister
  <2>2. InOrder([PowerPC!access_in(PowerPC!Before, 18, top) EXCEPT !.text = text], n + 1)
    BY <1>2, n + 1 \in Nat, InOrderPrinted
  <2>3. QED
    BY <1>5, <2>1, <2>2
<1>6. QED
  BY <1>4, <1>5

-----------------------------------------------------------------------------
(* What the actions of all targets have in common.                         *)
Opened ==
  /\ status = "running" /\ i <= Len(functions) /\ j = 0 /\ j' = 1
  /\ UNCHANGED <<functions, i, call_count, target>>
Written ==
  /\ status = "running" /\ i <= Len(functions) /\ j \in 1..Len(func) /\ j' = j + 1
  /\ UNCHANGED <<functions, i, target>>
Closed ==
  /\ status = "running" /\ i <= Len(functions) /\ j = Len(func) + 1
  /\ i' = i + 1 /\ j' = 0 /\ call_count' = 0
  /\ UNCHANGED <<functions, frame, target>>

LEMMA PlaceStep ==
  ASSUME PlaceInv, Opened \/ Written \/ Closed,
         status' \in {"running", "done"}, frame' \in Int, call_count' \in Nat
  PROVE  PlaceInv'
<1>1. Len(functions) \in Nat /\ Len(func) \in Nat
  BY Current, CodeShape DEF Opened, Written, Closed
<1>2. CASE Opened
  BY <1>1, <1>2 DEF Opened, PlaceInv, func
<1>3. CASE Written
  BY <1>1, <1>3 DEF Written, PlaceInv, func
<1>4. CASE Closed
  BY <1>1, <1>4 DEF Closed, PlaceInv, func
<1>5. QED
  BY <1>2, <1>3, <1>4

-----------------------------------------------------------------------------
(* The actions of x86.                                                     *)
LEMMA PrologueX86 ==
  ASSUME X86_32!Prologue, UNCHANGED target
  PROVE  /\ Opened /\ frame' = temps_count * 4
         /\ register_map' = register_map /\ status' = "running"
BY DEF X86_32!Prologue, X86_32!Open, X86_32!AtPrologue, X86_32!Before, X86_32!temps_count,
       Opened, temps_count

LEMMA InstructionX86 ==
  ASSUME X86_32!Instruction, UNCHANGED target
  PROVE  /\ Written /\ UNCHANGED call_count /\ register_map' = <<>>
         /\ frame' = frame + X86_32!Moved(func[j])
         /\ status' = IF X86_32!Operands(func[j]).st.ok THEN "running" ELSE "aborted"
BY DEF X86_32!Instruction, X86_32!Write, X86_32!AtInstruction, X86_32!func, Written, func

LEMMA EpilogueX86 ==
  ASSUME X86_32!Epilogue, UNCHANGED target
  PROVE  /\ Closed /\ register_map' = register_map /\ status' \in {"running", "done"}
BY DEF X86_32!Epilogue, X86_32!Shut, X86_32!AtEpilogue, X86_32!Before, X86_32!func, Closed, func

LEMMA StepX86 ==
  ASSUME IInv, target = "x86_32", X86_32!Next, UNCHANGED target
  PROVE  IInv'
<1>1. PlaceInv /\ ScratchInv /\ PassedInv
  BY DEF IInv
<1>2. ASSUME i <= Len(functions)
      PROVE  /\ register_map = <<>> /\ call_count = 0
             /\ func \in Seq(Instructions) /\ Paired(func) /\ temps_count \in Nat
             /\ Len(func) \in Nat /\ Len(functions) \in Nat /\ frame \in Int
  BY <1>1, <1>2, Current, CodeShape DEF ScratchInv, InUse, PassedInv, PlaceInv
<1>3. CASE X86_32!Prologue
  <2>1. Opened /\ frame' = temps_count * 4 /\ register_map' = <<>> /\ status' = "running"
        /\ call_count' = 0 /\ func' = func /\ temps_count' = temps_count
    BY <1>2, <1>3, PrologueX86 DEF Opened, func, temps_count
  <2>2. PlaceInv'
    BY <1>1, <1>2, <2>1, PlaceStep DEF Opened
  <2>3. Passed(func', 1, 0) /\ 0 \in Nat /\ frame' = 4 * (temps_count' + 0)
    BY <1>2, <2>1, NothingPassed DEF Opened
  <2>4. PassedInv' /\ ScratchInv'
    BY <2>1, <2>3 DEF Opened, PassedInv, ScratchInv, InUse
  <2>5. QED
    BY <2>2, <2>4 DEF IInv
<1>4. CASE X86_32!Instruction
  <2>1. /\ Written /\ call_count' = call_count /\ register_map' = <<>>
        /\ frame' = frame + X86_32!Moved(func[j])
        /\ status' = IF X86_32!Operands(func[j]).st.ok THEN "running" ELSE "aborted"
        /\ func' = func /\ temps_count' = temps_count
    BY <1>4, InstructionX86 DEF Written, func, temps_count
  <2>2. j \in DOMAIN func /\ j \in Nat /\ j > 0 /\ j' = j + 1 /\ i <= Len(functions)
    BY <1>2, <2>1, CodeShape DEF Written
  <2>3. func[j].x \in Nat /\ func[j].y \in Nat /\ func[j].result \in Nat
    BY <1>2, <2>2, CodeShape
  <2>4. status' = "running"
    BY <1>2, <2>1, <2>2, <2>3, OperandsX86 DEF InOrder
  <2>5. PICK c \in Nat : Passed(func, j, c) /\ frame = 4 * (temps_count + c)
    BY <1>1, <2>2 DEF PassedInv
  <2>6. /\ Counts(func[j], c) \in Nat
        /\ X86_32!Moved(func[j]) = 4 * (Counts(func[j], c) - c)
    <3>1. Calls(func[j]) => c = func[j].y
      BY <1>2, <2>2, <2>5, PassedAt
    <3>2. CASE Passes(func[j])
      BY <3>2 DEF X86_32!Moved, Counts, Passes
    <3>3. CASE Calls(func[j])
      BY <2>3, <3>1, <3>3 DEF X86_32!Moved, Counts, Passes, Calls
    <3>4. CASE ~Passes(func[j]) /\ ~Calls(func[j])
      BY <3>4 DEF X86_32!Moved, Counts, Passes, Calls
    <3>5. QED
      BY <3>2, <3>3, <3>4
  <2>7. Passed(func', j', Counts(func[j], c))
    BY <1>2, <2>1, <2>2, <2>5, PassedStep
  <2>8. frame' = 4 * (temps_count' + Counts(func[j], c)) /\ frame' \in Int
    <3> DEFINE d == Counts(func[j], c)
               m == X86_32!Moved(func[j])
    <3>1. d \in Nat /\ m = 4 * (d - c) /\ frame' = frame + m
      BY <2>1, <2>6
    <3>2. temps_count' = temps_count /\ temps_count \in Nat /\ frame = 4 * (temps_count + c)
      BY <1>2, <2>1, <2>2, <2>5
    <3> HIDE DEF d, m
    <3>3. frame' = 4 * (temps_count' + d) /\ frame' \in Int
      BY <3>1, <3>2
    <3>4. QED
      BY <3>3 DEF d
  <2>9. PlaceInv'
    BY <1>1, <1>2, <2>1, <2>2, <2>4, <2>8, PlaceStep
  <2>10. PassedInv'
    BY <1>2, <2>1, <2>2, <2>6, <2>7, <2>8 DEF Written, PassedInv
  <2>11. ScratchInv'
    BY <2>1 DEF Written, ScratchInv, InUse
  <2>12. QED
    BY <2>9, <2>10, <2>11 DEF IInv
<1>5. CASE X86_32!Epilogue
  <2>1. Closed /\ register_map' = <<>> /\ status' \in {"running", "done"}
    BY <1>2, <1>5, EpilogueX86 DEF Closed
  <2>2. PlaceInv'
    BY <1>1, <1>2, <2>1, PlaceStep DEF Closed
  <2>3. PassedInv' /\ ScratchInv'
    BY <2>1 DEF Closed, PassedInv, ScratchInv, InUse
  <2>4. QED
    BY <2>2, <2>3 DEF IInv
<1>6. QED
  BY <1>3, <1>4, <1>5 DEF X86_32!Next

-----------------------------------------------------------------------------
(* The actions of MIPS.                                                    *)
LEMMA PrologueMIPS ==
  ASSUME Mips!Prologue, UNCHANGED target
  PROVE  /\ Opened /\ frame' = Align16(4 * (temps_count + 1))
         /\ register_map' = register_map /\ status' = "running"
BY DEF Mips!Prologue, Mips!Open, Mips!AtPrologue, Mips!Before, Mips!temps_count, Mips!Align16,
       Opened, temps_count, Align16

(* The last access of an instruction, for the argument it passes or loads.  *)
LastMIPS(inst) ==
  LET o == Mips!Operands(inst)
  IN  IF Mips!Passes(inst) THEN Mips!access_local_call_register(o.st, call_count, inst.y)
      ELSE IF inst.function = "LOAD_ARG" THEN Mips!access_call_register(o.st, inst.x)
      ELSE o.st

LEMMA InstructionMIPS ==
  ASSUME Mips!Instruction, UNCHANGED target
  PROVE  /\ Written /\ UNCHANGED frame /\ register_map' = <<>>
         /\ call_count' = Counts(func[j], call_count)
         /\ status' = IF LastMIPS(func[j]).ok THEN "running" ELSE "aborted"
BY DEF Mips!Instruction, Mips!Write, Mips!AtInstruction, Mips!func, Mips!Passes, Mips!Calls,
       LastMIPS, Counts, Passes, Calls, Written, func

LEMMA LastInOrderMIPS ==
  ASSUME register_map = <<>>, frame \in Int, call_count \in Nat,
         NEW inst, inst.x \in Nat, inst.y \in Nat, inst.result \in Nat
  PROVE  InOrder(LastMIPS(inst), 4)
<1> DEFINE st == Mips!Operands(inst).st
<1>1. InOrder(st, 3)
  BY OperandsMIPS
<1> HIDE DEF st
<1>2. /\ InOrder(Mips!access_local_call_register(st, call_count, inst.y), 3 + 1)
      /\ InOrder(Mips!access_call_register(st, inst.x), 3 + 1)
  BY <1>1, 3 \in 0..8, AccessArgumentMIPS
<1>3. InOrder(st, 4)
  BY <1>1, InOrderMore
<1>4. QED
  BY <1>2, <1>3 DEF LastMIPS, st

LEMMA EpilogueMIPS ==
  ASSUME Mips!Epilogue, UNCHANGED target
  PROVE  /\ Closed /\ register_map' = register_map /\ status' \in {"running", "done"}
BY DEF Mips!Epilogue, Mips!Shut, Mips!AtEpilogue, Mips!Before, Mips!func, Closed, func

(* The frames of MIPS and PowerPC.                                         *)
LEMMA AlignedFrame ==
  ASSUME NEW n \in Nat
  PROVE  Align16(4 * (n + 1)) \in Int /\ Align16(16 + 4 * n) \in Int
BY DEF Align16

LEMMA StepMIPS ==
  ASSUME IInv, target = "mips", Mips!Next, UNCHANGED target
  PROVE  IInv'
<1>1. PlaceInv /\ ScratchInv /\ PassedInv
  BY DEF IInv
<1>2. ASSUME i <= Len(functions)
      PROVE  /\ register_map = <<>> /\ call_count \in Nat
             /\ func \in Seq(Instructions) /\ Paired(func) /\ temps_count \in Nat
             /\ Len(func) \in Nat /\ Len(functions) \in Nat /\ frame \in Int
  BY <1>1, <1>2, Current, CodeShape DEF ScratchInv, InUse, PlaceInv
<1>3. CASE Mips!Prologue
  <2>1. Opened /\ frame' \in Int /\ register_map' = <<>> /\ status' = "running" /\ func' = func
    BY <1>2, <1>3, PrologueMIPS, AlignedFrame DEF Opened, func
  <2>2. PlaceInv'
    BY <1>1, <1>2, <2>1, PlaceStep DEF Opened
  <2>3. Passed(func', 1, 0) /\ call_count' = 0
    BY <1>1, <1>2, <2>1, NothingPassed DEF Opened, PassedInv
  <2>4. PassedInv' /\ ScratchInv'
    BY <2>1, <2>3 DEF Opened, PassedInv, ScratchInv, InUse
  <2>5. QED
    BY <2>2, <2>4 DEF IInv
<1>4. CASE Mips!Instruction
  <2>1. /\ Written /\ frame' = frame /\ register_map' = <<>> /\ func' = func
        /\ call_count' = Counts(func[j], call_count)
        /\ status' = IF LastMIPS(func[j]).ok THEN "running" ELSE "aborted"
    BY <1>4, InstructionMIPS DEF Written, func
  <2>2. j \in DOMAIN func /\ j \in Nat /\ j > 0 /\ j' = j + 1 /\ i <= Len(functions)
    BY <1>2, <2>1, CodeShape DEF Written
  <2>3. func[j].x \in Nat /\ func[j].y \in Nat /\ func[j].result \in Nat
    BY <1>2, <2>2, CodeShape
  <2>4. status' = "running"
    BY <1>2, <2>1, <2>2, <2>3, LastInOrderMIPS DEF InOrder
  <2>5. Counts(func[j], call_count) \in Nat
    BY <1>2, <2>2 DEF Counts
  <2>6. Passed(func', j', call_count')
    BY <1>1, <1>2, <2>1, <2>2, PassedStep DEF PassedInv
  <2>7. PlaceInv'
    BY <1>1, <1>2, <2>1, <2>2, <2>4, <2>5, PlaceStep
  <2>8. PassedInv' /\ ScratchInv'
    BY <2>1, <2>2, <2>6 DEF Written, PassedInv, ScratchInv, InUse
  <2>9. QED
    BY <2>7, <2>8 DEF IInv
<1>5. CASE Mips!Epilogue
  <2>1. Closed /\ register_map' = <<>> /\ status' \in {"running", "done"}
    BY <1>2, <1>5, EpilogueMIPS DEF Closed
  <2>2. PlaceInv'
    BY <1>1, <1>2, <2>1, PlaceStep DEF Closed
  <2>3. PassedInv' /\ ScratchInv'
    BY <2>1 DEF Closed, PassedInv, ScratchInv, InUse
  <2>4. QED
    BY <2>2, <2>3 DEF IInv
<1>6. QED
  BY <1>3, <1>4, <1>5 DEF Mips!Next

-----------------------------------------------------------------------------
(* The actions of PowerPC.                                                 *)
LEMMA ProloguePPC ==
  ASSUME PowerPC!Prologue, UNCHANGED target
  PROVE  /\ Opened /\ frame' = Align16(16 + 4 * temps_count)
         /\ \E top : LET saved == PowerPC!EachRegister("store", top)
                     IN  /\ register_map' = saved.map
                         /\ status' = IF saved.ok THEN "running" ELSE "aborted"
BY DEF PowerPC!Prologue, PowerPC!Open, PowerPC!AtPrologue, PowerPC!temps_count, PowerPC!Align16,
       Opened, temps_count, Align16

(* The last access of an instruction.                                      *)
LastPPC(inst) ==
  LET o == PowerPC!Operands(inst)
  IN  IF PowerPC!Passes(inst) THEN PowerPC!access_call_register(o.st, inst.y - 1 - call_count)
      ELSE IF inst.function = "LOAD_ARG" THEN PowerPC!access_call_register(o.st, inst.x)
      ELSE o.st

LEMMA InstructionPPC ==
  ASSUME PowerPC!Instruction, UNCHANGED target
  PROVE  /\ Written /\ UNCHANGED frame /\ register_map' = <<>>
         /\ call_count' = Counts(func[j], call_count)
         /\ status' = IF LastPPC(func[j]).ok THEN "running" ELSE "aborted"
BY DEF PowerPC!Instruction, PowerPC!Write, PowerPC!AtInstruction, PowerPC!func, PowerPC!Passes,
       PowerPC!Calls, LastPPC, Counts, Passes, Calls, Written, func

LEMMA LastInOrderPPC ==
  ASSUME register_map \in Seq(Int), NEW n \in 0..2, Len(register_map) <= n, call_count \in Nat,
         NEW inst, inst.x \in Nat, inst.y \in Nat, inst.result \in Nat, inst.function \in Ops,
         n = 2 => Reads(inst) = {},
         Passes(inst) => inst.y <= 9, inst.function = "LOAD_ARG" => inst.x <= 8
  PROVE  InOrder(LastPPC(inst), 4)
<1> DEFINE st == PowerPC!Operands(inst).st
<1>1. InOrder(st, 4)
  BY OperandsPPC
<1> HIDE DEF st
<1>2. ASSUME NEW reg \in Int, reg <= 8
      PROVE  InOrder(PowerPC!access_call_register(st, reg), 4)
  <2>1. InOrder(PowerPC!Found(st, reg + PowerPC!call_base), 4)
    BY <1>1, 4 \in Nat, InOrderFound DEF Found, PowerPC!Found
  <2>2. QED
    BY <1>2, <2>1 DEF PowerPC!access_call_register
<1>3. CASE Passes(inst)
  <2>1. InOrder(PowerPC!access_call_register(st, inst.y - 1 - call_count), 4)
    BY <1>2, <1>3
  <2>2. QED
    BY <1>3, <2>1 DEF LastPPC, PowerPC!Passes, Passes, st
<1>4. CASE ~Passes(inst) /\ inst.function = "LOAD_ARG"
  <2>1. InOrder(PowerPC!access_call_register(st, inst.x), 4)
    BY <1>2, <1>4
  <2>2. QED
    BY <1>4, <2>1 DEF LastPPC, PowerPC!Passes, Passes, st
<1>5. CASE ~Passes(inst) /\ inst.function # "LOAD_ARG"
  BY <1>1, <1>5 DEF LastPPC, PowerPC!Passes, Passes, st
<1>6. QED
  BY <1>3, <1>4, <1>5

LEMMA EpiloguePPC ==
  ASSUME PowerPC!Epilogue, UNCHANGED target
  PROVE  /\ Closed
         /\ LET saved == PowerPC!EachRegister("load", frame)
            IN  /\ register_map' = saved.map
                /\ saved.ok => status' \in {"running", "done"}
BY DEF PowerPC!Epilogue, PowerPC!Shut, PowerPC!AtEpilogue, PowerPC!func, Closed, func

LEMMA StepPPC ==
  ASSUME IInv, target = "ppc", PowerPC!Next, UNCHANGED target
  PROVE  IInv'
<1>1. PlaceInv /\ ScratchInv /\ PassedInv
  BY DEF IInv
<1>2. ASSUME i <= Len(functions)
      PROVE  /\ register_map \in Seq(Int) /\ call_count \in Nat
             /\ func \in Seq(Instructions) /\ Paired(func) /\ temps_count \in Nat
             /\ Len(func) \in Nat /\ Len(functions) \in Nat /\ frame \in Int
             /\ PowerPC!Supported(functions[i])
  BY <1>1, <1>2, Current, CodeShape DEF ScratchInv, PlaceInv
(* A function without instructions has no temporaries.                     *)
<1>3. ASSUME i <= Len(functions), func = <<>> PROVE temps_count < 18
  BY <1>2, <1>3 DEF PowerPC!Supported, func, temps_count
<1>4. CASE PowerPC!Prologue
  <2>1. Opened /\ frame' \in Int /\ func' = func
    BY <1>2, <1>4, ProloguePPC, AlignedFrame DEF Opened, func
  <2>2. PICK top : LET saved == PowerPC!EachRegister("store", top)
                   IN  /\ register_map' = saved.map
                       /\ status' = IF saved.ok THEN "running" ELSE "aborted"
    BY <1>4, ProloguePPC
  <2> DEFINE saved == PowerPC!EachRegister("store", top)
  <2>3. i <= Len(functions) /\ Len(register_map) <= 1
    BY <1>1, <2>1 DEF Opened, ScratchInv, InUse
  <2>4. InOrder(saved, 1 + 1) /\ (temps_count < 18 => InOrder(saved, 1))
    BY <1>2, <2>3, 1 \in 0..1, SavingPPC
  <2> HIDE DEF saved
  <2>5. register_map' = saved.map /\ status' = IF saved.ok THEN "running" ELSE "aborted"
    BY <2>2 DEF saved
  <2>6. /\ register_map' \in Seq(Int) /\ status' = "running"
        /\ Len(register_map') <= 2 /\ (func = <<>> => Len(register_map') <= 1)
    BY <1>3, <2>3, <2>4, <2>5 DEF InOrder
  <2>7. PlaceInv'
    BY <1>1, <1>2, <2>1, <2>6, PlaceStep DEF Opened
  <2>8. Passed(func', 1, 0) /\ call_count' = 0
    BY <1>1, <1>2, <2>1, NothingPassed DEF Opened, PassedInv
  <2>9. PassedInv' /\ ScratchInv'
    BY <2>1, <2>6, <2>8 DEF Opened, PassedInv, ScratchInv, InUse
  <2>10. QED
    BY <2>7, <2>9 DEF IInv
<1>5. CASE PowerPC!Instruction
  <2>1. /\ Written /\ frame' = frame /\ register_map' = <<>> /\ func' = func
        /\ call_count' = Counts(func[j], call_count)
        /\ status' = IF LastPPC(func[j]).ok THEN "running" ELSE "aborted"
    BY <1>5, InstructionPPC DEF Written, func
  <2>2. /\ j \in DOMAIN func /\ j \in Nat /\ j > 0 /\ j' = j + 1 /\ i <= Len(functions)
        /\ func # <<>>
    BY <1>2, <2>1, CodeShape DEF Written
  <2>3. /\ func[j].x \in Nat /\ func[j].y \in Nat /\ func[j].result \in Nat
        /\ func[j].function \in Ops
    BY <1>2, <2>2, CodeShape
  <2>4. /\ Passes(func[j]) => func[j].y <= 9
        /\ func[j].function = "LOAD_ARG" => func[j].x <= 8
        /\ j = 1 => Reads(func[j]) = {}
    BY <1>2, <2>2 DEF PowerPC!Supported, PowerPC!Passes, Passes, PowerPC!Reads, Reads, func,
       PowerPC!BinaryOps, BinaryOps, PowerPC!UnaryOps, UnaryOps
  <2>5. InOrder(LastPPC(func[j]), 4)
    <3>1. CASE j = 1
      <4>1. Len(register_map) <= 2
        BY <1>1, <2>2, <3>1 DEF ScratchInv, InUse
      <4>2. QED
        BY <1>2, <2>2, <2>3, <2>4, <3>1, <4>1, 2 \in 0..2, LastInOrderPPC
    <3>2. CASE j # 1
      <4>1. Len(register_map) <= 0
        BY <1>1, <2>2, <3>2 DEF ScratchInv, InUse
      <4>2. QED
        BY <1>2, <2>2, <2>3, <2>4, <4>1, 0 \in 0..2, LastInOrderPPC, SMTT(20)
    <3>3. QED
      BY <3>1, <3>2
  <2>6. status' = "running"
    BY <2>1, <2>5 DEF InOrder
  <2>7. Counts(func[j], call_count) \in Nat
    BY <1>2, <2>2 DEF Counts
  <2>8. Passed(func', j', call_count')
    BY <1>1, <1>2, <2>1, <2>2, PassedStep DEF PassedInv
  <2>9. PlaceInv'
    BY <1>1, <1>2, <2>1, <2>2, <2>6, <2>7, PlaceStep
  <2>10. PassedInv' /\ ScratchInv'
    BY <2>1, <2>2, <2>8 DEF Written, PassedInv, ScratchInv, InUse
  <2>11. QED
    BY <2>9, <2>10 DEF IInv
<1>6. CASE PowerPC!Epilogue
  <2> DEFINE saved == PowerPC!EachRegister("load", frame)
  <2>1. Closed
    BY <1>6, EpiloguePPC
  <2>2. register_map' = saved.map /\ (saved.ok => status' \in {"running", "done"})
    BY <1>6, EpiloguePPC
  <2>3. i <= Len(functions) /\ Len(func) \in Nat
    BY <1>2, <2>1 DEF Closed
  <2>4. IF func = <<>> THEN Len(register_map) <= 1 ELSE Len(register_map) <= 0
    <3>1. func = <<>> <=> Len(func) = 0
      BY <1>2, <2>3
    <3>2. QED
      BY <1>1, <2>1, <2>3, <3>1 DEF Closed, ScratchInv, InUse
  <2>5. InOrder(saved, 1)
    <3>1. CASE func = <<>>
      BY <1>2, <1>3, <2>3, <2>4, <3>1, 1 \in 0..1, SavingPPC
    <3>2. CASE func # <<>>
      <4>1. InOrder(saved, 0 + 1)
        BY <1>2, <2>3, <2>4, <3>2, 0 \in 0..1, SavingPPC
      <4>2. QED
        BY <4>1
    <3>3. QED
      BY <3>1, <3>2
  <2> HIDE DEF saved
  <2>6. /\ register_map' \in Seq(Int) /\ Len(register_map') <= 1
        /\ status' \in {"running", "done"}
    BY <2>2, <2>5 DEF InOrder
  <2>7. PlaceInv'
    BY <1>1, <1>2, <2>1, <2>6, PlaceStep DEF Closed
  <2>8. PassedInv' /\ ScratchInv'
    BY <2>1, <2>6 DEF Closed, PassedInv, ScratchInv, InUse
  <2>9. QED
    BY <2>7, <2>8 DEF IInv
<1>7. QED
  BY <1>4, <1>5, <1>6 DEF PowerPC!Next

-----------------------------------------------------------------------------
LEMMA InitIInv == Init => IInv
<1> SUFFICES ASSUME Init PROVE IInv
  OBVIOUS
<1>1. /\ target \in DOMAIN Units /\ functions \in Units[target]
      /\ i = 1 /\ j = 0 /\ frame = 0 /\ register_map = <<>> /\ call_count = 0 /\ status = "running"
  BY DEF Init, BackEndInit
<1>2. Len(functions) \in Nat
  BY <1>1, UnitsAssumption DEF IRs
<1>3. PlaceInv
  BY <1>1, <1>2, TargetsAssumption DEF PlaceInv
<1>4. ScratchInv /\ PassedInv
  BY <1>1 DEF ScratchInv, InUse, PassedInv
<1>5. QED
  BY <1>3, <1>4 DEF IInv

LEMMA NextIInv == IInv /\ [Next]_tvars => IInv'
<1> SUFFICES ASSUME IInv, [Next]_tvars PROVE IInv'
  OBVIOUS
<1>1. CASE Next
  BY <1>1, StepX86, StepMIPS, StepPPC DEF Next
<1>2. CASE UNCHANGED tvars
  BY <1>2 DEF tvars, bvars, IInv, PlaceInv, ScratchInv, PassedInv, InUse, func, temps_count
<1>3. QED
  BY <1>1, <1>2

(* For every IR of the assumed form the invariant holds all along the text.*)
THEOREM Invariance == Spec => []IInv
BY InitIInv, NextIInv, PTL DEF Spec

(* Whatever the functions, in whatever order, with however many             *)
(* temporaries: no assert on the number of scratch registers fails, not     *)
(* even when a PowerPC epilogue and the next prologue leave two in use.     *)
THEOREM ScratchRegistersSuffice == Spec => []ScratchSuffices
<1>1. IInv => ScratchSuffices
  BY DEF IInv, PlaceInv, ScratchSuffices
<1>2. QED
  BY <1>1, Invariance, PTL

LEMMA TrackedAtJumps == IInv => FrameTracked
<1> SUFFICES ASSUME IInv, AtJump
             PROVE  /\ target = "x86_32" => frame = temps_count * 4
                    /\ j > 1 => register_map = <<>>
                    /\ call_count = 0
  BY DEF FrameTracked
<1>1. PlaceInv /\ ScratchInv /\ PassedInv
  BY DEF IInv
<1>2. i <= Len(functions) /\ j \in Nat
  BY <1>1 DEF AtJump, AtEpilogue, AtInstruction, PlaceInv
<1>3. /\ func \in Seq(Instructions) /\ Paired(func) /\ temps_count \in Nat /\ Len(func) \in Nat
      /\ register_map \in Seq(Int)
  BY <1>1, <1>2, Current, CodeShape DEF ScratchInv
<1>4. j > 0
  BY <1>3 DEF AtJump, AtEpilogue, AtInstruction
<1>5. ASSUME NEW c \in Nat, Passed(func, j, c) PROVE c = 0
  <2>1. CASE AtEpilogue
    BY <1>2, <1>3, <1>5, <2>1, PassedAt DEF AtEpilogue
  <2>2. CASE AtInstruction /\ func[j].function \in {"LABEL", "GOTO", "BIZ", "EXIT"}
    <3>1. j \in DOMAIN func /\ ~Calls(func[j]) /\ ~Passes(func[j])
      BY <1>3, <2>2, CodeShape DEF AtInstruction, Calls, Passes
    <3>2. QED
      BY <1>2, <1>3, <1>5, <3>1, PassedAt
  <2>3. QED
    BY <2>1, <2>2 DEF AtJump
<1>6. target = "x86_32" => frame = temps_count * 4
  <2> SUFFICES ASSUME target = "x86_32" PROVE frame = temps_count * 4
    OBVIOUS
  <2>1. PICK c \in Nat : Passed(func, j, c) /\ frame = 4 * (temps_count + c)
    BY <1>1, <1>4 DEF PassedInv
  <2>2. QED
    BY <1>3, <1>5, <2>1
<1>7. call_count = 0
  BY <1>1, <1>4, <1>5 DEF PassedInv, PlaceInv
<1>8. j > 1 => register_map = <<>>
  <2> SUFFICES ASSUME j > 1 PROVE register_map = <<>>
    OBVIOUS
  <2>1. Len(register_map) <= 0
    BY <1>1, <1>2 DEF ScratchInv, InUse
  <2>2. QED
    BY <1>3, <2>1
<1>9. QED
  BY <1>6, <1>7, <1>8

(* At every jump, label and end of every function the x86 back end's idea   *)
(* of the distance to the frame is the whole frame, whichever way execution *)
(* comes, and no scratch register or argument is pending.                  *)
THEOREM TrackedAlongText == Spec => []FrameTracked
BY TrackedAtJumps, Invariance, PTL
=============================================================================
