-------------------------------- MODULE PPC --------------------------------
(***************************************************************************)
(* codegen_powerpc() of src/src/targets/ppc.c.  Registers have their        *)
(* numbers; the frame pointer is the stack pointer, register 1.             *)
(***************************************************************************)
EXTENDS BackEnd

MAX_TEMP_REGISTERS == 5
LR == 99            \* the link register, next to the numbered ones
call_base == 3

abi == [ret |-> 3, args |-> <<3, 4, 5, 6, 7, 8, 9, 10>>, first |-> 8, home |-> 0,
        saved |-> 14..31, link |-> {LR}, linkage |-> {4}, traps |-> FALSE]

(* Argument registers; with more than nine the compiler gives up.          *)
access_call_register(st, reg) ==
  IF reg > 8 THEN OutOfScratch(st) ELSE Found(st, reg + call_base)

(* The slot is kept as the temporary's number.                             *)
access_in(st, reg, stack_frame) ==
  IF reg = 0 THEN Found(st, 0)
  ELSE IF reg < 18 THEN Found(st, reg + 13)
  ELSE IF Len(st.map) + 1 >= MAX_TEMP_REGISTERS THEN OutOfScratch(st)
  ELSE Spilled(st, 10 - Len(st.map), reg,
               <<Asm("load", 10 - Len(st.map), 0, stack_frame - reg * 4)>>)

access_register(st, reg, write) == access_in(st, reg, frame)

(* The operands in the order the code asks for them: y, x, result.         *)
Operands(inst) ==
  LET y == IF inst.function \in BinaryOps THEN access_register(Before, inst.y, FALSE) ELSE Before
      x == IF inst.function \in NullaryOps THEN y ELSE access_register(y, inst.x, FALSE)
      r == access_register(x, inst.result, TRUE)
  IN  [y |-> y.reg, x |-> x.reg, r |-> r.reg, st |-> r]

free_temp_registers(map) ==
  [k \in DOMAIN map |-> Asm("store", 0, 11 - k, frame - map[k] * 4)]

real_registers == Lesser(temps_count, 18)

(* Save or restore (op) all registers; the eighteenth is not one, but a     *)
(* scratch register that stays in use.                                     *)
EachRegister(op, stack_frame) ==
  LET offset(k) == (real_registers - (k - 1)) * 4
      move(reg, k) == IF op = "store" THEN Asm(op, 0, reg, offset(k)) ELSE Asm(op, reg, 0, offset(k))
      direct == [k \in 1..Lesser(real_registers, 17) |-> move(access_in(Before, k, stack_frame).reg, k)]
      last == access_in(Before, 18, stack_frame)
  IN  IF real_registers < 18 THEN [Before EXCEPT !.text = direct]
      ELSE [last EXCEPT !.text = direct \o Append(@, move(last.reg, 18))]

(* The back chain, the return address, the registers.                      *)
Prologue ==
  /\ AtPrologue
  /\ frame' = Align16(16 + 4 * temps_count)
  /\ LET saved == EachRegister("store", frame')
     IN  Open(saved,
              <<Asm("sp", 0, 0, -frame'), Asm("store", 0, 1, 0), Asm("mov", 0, LR, 0),
                Asm("store", 0, 0, frame' + 4)>> \o saved.text)

(* A constant that does not fit half a register is put together from its     *)
(* halves, in the order the code has them.                                 *)
LoadImmediate(r, n) ==
  IF n < Half THEN <<Asm("li", r, 0, n)>>
  ELSE <<Asm("lis", r, 0, n % Half), Asm("ori", r, 0, n \div Half)>>

ReturnImmediate(n) ==
  IF n < Half THEN <<Asm("li", 3, 0, n)>>
  ELSE <<Asm("li", 3, 0, n % Half), Asm("ori", 3, 0, n \div Half)>>

CallText(op, callee, inst, o) ==
  <<Asm(op, 0, callee, inst.y)>>
  \o (IF inst.result # 0 THEN <<Asm("mov", o.r, 3, 0)>> ELSE <<>>)

Text(inst, o, c) ==
  CASE inst.function = "CALL_REG" -> CallText("callr", o.x, inst, o)
    [] inst.function = "CALL_SYM" -> CallText("call", inst.x, inst, o)
    [] inst.function = "CALL_PUSH"     -> <<Asm("mov", c, o.x, 0)>>
    [] inst.function = "CALL_PUSH_INT" -> LoadImmediate(c, inst.x)
    [] inst.function = "CALL_PUSH_SYM" -> <<Asm("la", c, 0, inst.x)>>
    [] inst.function = "RETURN_VAL" -> <<Asm("mov", 3, o.x, 0)>>
    [] inst.function = "RETURN_INT" -> ReturnImmediate(inst.x)
    [] inst.function = "LABEL" -> <<Asm("label", 0, 0, inst.x)>>
    [] inst.function = "GOTO"  -> <<Asm("jump", 0, 0, inst.x)>>
    [] inst.function = "BIZ"   -> <<Asm("jz", 0, o.x, inst.y)>>
    [] inst.function = "EXIT"  -> <<Asm("jump", 0, 0, EPILOGUE)>>
    [] inst.function = "NOP"   -> <<>>
    [] inst.result = 0         -> <<>>
    [] inst.function = "LOAD_INT" -> LoadImmediate(o.r, inst.x)
    [] inst.function = "LOAD_ARG" -> <<Asm("mov", o.r, c, 0)>>
    [] inst.function = "LOAD_SYM" -> <<Asm("la", o.r, 0, inst.x)>>
    [] inst.function = "MOV"  -> <<Asm("mov", o.r, o.x, 0)>>
    [] inst.function = "ADD"  -> <<Asm("add", o.r, o.x, o.y)>>
    [] inst.function = "ADDI" -> <<Asm("addi", o.r, o.x, inst.y)>>
    [] inst.function = "SUB"  -> <<Asm("sub", o.r, o.x, o.y)>>
    [] inst.function = "SUBI" -> <<Asm("subi", o.r, o.x, inst.y)>>
    [] inst.function = "LT"   -> <<Asm("slt", o.r, o.x, o.y)>>
    [] inst.function = "LTI"  -> <<Asm("slti", o.r, o.x, inst.y)>>

(* What the compiler does not give up on (TODO(), line 24): no argument      *)
(* behind the ninth.  And what holds of compiled code: the first            *)
(* instruction has nothing to read yet.                                    *)
Supported(f) ==
  /\ \A q \in DOMAIN f.code :
       /\ Passes(f.code[q]) => f.code[q].y <= 9
       /\ f.code[q].function = "LOAD_ARG" => f.code[q].x <= 8
  /\ IF f.code = <<>> THEN f.temps_count = 0 ELSE Reads(f.code[1]) = {}

Instruction ==
  /\ AtInstruction /\ func[j].function # "PHI"
  /\ LET inst == func[j]
         o == Operands(inst)
         c == IF Passes(inst) THEN access_call_register(o.st, inst.y - 1 - call_count)
              ELSE IF inst.function = "LOAD_ARG" THEN access_call_register(o.st, inst.x)
              ELSE o.st
     IN  /\ Write(c, Text(inst, o, c.reg), free_temp_registers(c.map))
         /\ call_count' = IF Passes(inst) THEN call_count + 1
                          ELSE IF Calls(inst) THEN 0 ELSE call_count
  /\ UNCHANGED frame

Epilogue ==
  /\ AtEpilogue
  /\ LET saved == EachRegister("load", frame)
     IN  Shut(saved,
              saved.text \o
              <<Asm("load", 0, 0, frame + 4), Asm("mov", LR, 0, 0),
                Asm("sp", 0, 0, frame), Asm("ret", 0, 0, 0)>>)

Next == Prologue \/ Instruction \/ Epilogue
=============================================================================
