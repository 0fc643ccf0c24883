-------------------------------- MODULE MIPS --------------------------------
(***************************************************************************)
(* codegen_mips() of src/src/targets/mips.c.  Registers have their numbers; *)
(* nops and delay slots are left out.                                      *)
(***************************************************************************)
EXTENDS BackEnd

TEMP_REGISTERS == <<25, 24, 15, 14, 13, 12, 11, 10, 9, 8>>
MAX_TEMP_REGISTERS == 10
RA == 31
V0 == 2

abi == [ret |-> V0, args |-> <<4, 5, 6, 7>>, first |-> 0, home |-> 4,
        saved |-> 16..23, link |-> {RA}, linkage |-> {}, traps |-> TRUE]

(* Load a word into the next scratch register.                             *)
InTemp(st, stack_offset) ==
  IF Len(st.map) + 1 >= MAX_TEMP_REGISTERS THEN OutOfScratch(st)
  ELSE LET reg == TEMP_REGISTERS[Len(st.map) + 1]
       IN  Spilled(st, reg, stack_offset, <<Asm("load", reg, 0, stack_offset)>>)

(* Where the caller left argument reg of this function.                    *)
access_call_register(st, reg) ==
  IF reg < 4 THEN Found(st, reg + 4) ELSE InTemp(st, frame + reg * 4)

(* Where to put argument number total_count - 1 - reg of a call.  The stack *)
(* is lowered only just before the jump.                                   *)
access_local_call_register(st, reg, total_count) ==
  IF total_count - 1 - reg < 4 THEN Found(st, total_count - 1 - reg + 4)
  ELSE InTemp(st, -reg * 4 - 4)

access_register(st, reg, write) ==
  IF reg = 0 THEN Found(st, 0)
  ELSE IF reg <= 8 THEN Found(st, reg + 15)
  ELSE InTemp(st, frame - reg * 4 - 4)

(* The operands in the order the code asks for them: y, x, result.         *)
Operands(inst) ==
  LET y == IF inst.function \in BinaryOps THEN access_register(Before, inst.y, FALSE) ELSE Before
      x == IF inst.function \in NullaryOps THEN y ELSE access_register(y, inst.x, FALSE)
      r == access_register(x, inst.result, TRUE)
  IN  [y |-> y.reg, x |-> x.reg, r |-> r.reg, st |-> r]

free_temp_registers(map) ==
  [k \in DOMAIN map |-> Asm("store", 0, TEMP_REGISTERS[k], map[k])]

real_registers == Lesser(temps_count, 8)

(* Mutant: one word too low, where the ninth temporary is.                 *)
SlotTooLow(top, k) == top - (k + 2) * 4

(* The word register number k of the frame is saved in.                    *)
Slot(top, k) == top - (k + 1) * 4

Prologue ==
  /\ AtPrologue
  /\ frame' = Align16(4 * (temps_count + 1))
  /\ Open(Before,
          <<Asm("sp", 0, 0, -frame'), Asm("store", 0, RA, frame' - 4)>>
          \o [k \in 1..real_registers |-> Asm("store", 0, k + 15, Slot(frame', k))])

Larger(a, b) == IF a < b THEN b ELSE a

CallText(op, callee, inst, o) ==
  <<Asm("sp", 0, 0, -Larger(inst.y, 4) * 4), Asm(op, 0, callee, inst.y)>>
  \o (IF inst.result # 0 THEN <<Asm("mov", o.r, V0, 0)>> ELSE <<>>)
  \o <<Asm("sp", 0, 0, Larger(inst.y, 4) * 4)>>

Text(inst, o, c) ==
  CASE inst.function = "LOAD_ARG" -> <<Asm("mov", o.r, c, 0)>>
    [] inst.function = "LOAD_SYM" -> <<Asm("la", o.r, 0, inst.x)>>
    [] inst.function = "LOAD_INT" -> <<Asm("li", o.r, 0, inst.x)>>
    [] inst.function = "CALL_PUSH"     -> <<Asm("mov", c, o.x, 0)>>
    [] inst.function = "CALL_PUSH_INT" -> <<Asm("li", c, 0, inst.x)>>
    [] inst.function = "CALL_PUSH_SYM" -> <<Asm("la", c, 0, inst.x)>>
    [] inst.function = "CALL_REG" -> CallText("callr", o.x, inst, o)
    [] inst.function = "CALL_SYM" -> CallText("call", inst.x, inst, o)
    [] inst.function = "RETURN_VAL" -> <<Asm("mov", V0, o.x, 0)>>
    [] inst.function = "RETURN_INT" /\ inst.x < Half -> <<Asm("li", V0, 0, inst.x)>>
    [] inst.function = "RETURN_INT" /\ inst.x >= Half ->
         <<Asm("lis", V0, 0, inst.x), Asm("ori", V0, 0, inst.x)>>
    [] inst.function = "MOV"  -> <<Asm("mov", o.r, o.x, 0)>>
    [] inst.function = "ADD"  -> <<Asm("add", o.r, o.x, o.y)>>
    [] inst.function = "ADDI" -> <<Asm("addi", o.r, o.x, inst.y)>>
    [] inst.function = "SUB"  -> <<Asm("sub", o.r, o.x, o.y)>>
    [] inst.function = "SUBI" -> <<Asm("addi", o.r, o.x, -inst.y)>>
    [] inst.function = "LT"   -> <<Asm("slt", o.r, o.x, o.y)>>
    [] inst.function = "LTI"  -> <<Asm("slti", o.r, o.x, inst.y)>>
    [] inst.function = "LABEL" -> <<Asm("label", 0, 0, inst.x)>>
    [] inst.function = "GOTO"  -> <<Asm("jump", 0, 0, inst.x)>>
    [] inst.function = "BIZ"   -> <<Asm("jz", 0, o.x, inst.y)>>
    [] inst.function = "EXIT"  -> <<Asm("jump", 0, 0, EPILOGUE)>>

(* What the compiler does not give up on (TODO(), line 233): no TAC_NOP.     *)
(* Compiled code has none, whatever the target (BackEndReady of MCCompiler). *)
Supported(f) == \A q \in DOMAIN f.code : f.code[q].function # "NOP"

Instruction ==
  /\ AtInstruction /\ func[j].function \notin {"PHI", "NOP"}
  /\ LET inst == func[j]
         o == Operands(inst)
         c == IF Passes(inst) THEN access_local_call_register(o.st, call_count, inst.y)
              ELSE IF inst.function = "LOAD_ARG" THEN access_call_register(o.st, inst.x)
              ELSE o.st
     IN  /\ Write(c, Text(inst, o, c.reg), free_temp_registers(c.map))
         /\ call_count' = IF Passes(inst) THEN call_count + 1
                          ELSE IF Calls(inst) THEN 0 ELSE call_count
  /\ UNCHANGED frame

Epilogue ==
  /\ AtEpilogue
  /\ Shut(Before,
          <<Asm("load", RA, 0, frame - 4)>>
          \o [k \in 1..real_registers |-> Asm("load", k + 15, 0, Slot(frame, k))]
          \o <<Asm("sp", 0, 0, frame), Asm("ret", 0, 0, 0)>>)

Next == Prologue \/ Instruction \/ Epilogue
=============================================================================
