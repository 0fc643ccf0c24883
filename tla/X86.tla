-------------------------------- MODULE X86 --------------------------------
(***************************************************************************)
(* codegen_x86_32() of src/src/targets/x86.c.                              *)
(***************************************************************************)
EXTENDS BackEnd

preserved_registers == <<"ebx", "esi", "edi", "ebp">>
scratch_registers == <<"ecx", "edx", "eax">>
NULL == "null"

abi == [ret |-> "eax", args |-> <<>>, first |-> 4, home |-> 0,
        saved |-> {"ebx", "esi", "edi", "ebp"}, link |-> {}, linkage |-> {},
        traps |-> FALSE]

(* The first four temporaries have registers, the others words at the top   *)
(* of the frame, loaded into a scratch register for one instruction.  Only  *)
(* a result is written back.                                               *)
access_register(st, reg, write) ==
  IF reg = 0 THEN Found(st, NULL)
  ELSE IF reg <= 4 THEN Found(st, preserved_registers[reg])
  ELSE IF Len(st.map) >= 3 THEN OutOfScratch(st)
  ELSE LET stack_offset == frame - (reg - 4) * 4
           rreg == scratch_registers[Len(st.map) + 1]
       IN  Spilled(st, rreg, IF write THEN stack_offset ELSE 0,
                   <<Asm("load", rreg, 0, stack_offset)>>)

(* The operands in the order the code asks for them: y, x, result.         *)
Operands(inst) ==
  LET y == IF inst.function \in BinaryOps THEN access_register(Before, inst.y, FALSE) ELSE Before
      x == IF inst.function \in NullaryOps THEN y ELSE access_register(y, inst.x, FALSE)
      r == access_register(x, inst.result, TRUE)
  IN  [y |-> y.reg, x |-> x.reg, r |-> r.reg, st |-> r]

free_scratch_registers(map) ==
  LET used == SelectSeq([k \in DOMAIN map |-> <<scratch_registers[k], map[k]>>],
                        LAMBDA u : u[2] # 0)
  IN  [k \in DOMAIN used |-> Asm("store", 0, used[k][1], used[k][2])]

hard_registers == Lesser(temps_count, 4)

Prologue ==
  /\ AtPrologue
  /\ frame' = temps_count * 4
  /\ Open(Before,
          <<Asm("sp", 0, 0, -frame')>>
          \o [k \in 1..hard_registers |->
                Asm("store", 0, preserved_registers[k], (k - 1) * 4)])

(* x = r compares pointers: two temporaries in scratch registers are never  *)
(* in the same one.                                                        *)
Arith(op, o, b) ==
  (IF o.x # o.r THEN <<Asm("mov", o.r, o.x, 0)>> ELSE <<>>) \o <<Asm(op, o.r, o.r, b)>>

Compare(op, o, b) == <<Asm(op, "eax", o.x, b), Asm("mov", o.r, "eax", 0)>>

(* Taking the arguments off the stack moves the frame.                     *)
CallText(op, callee, inst, o) ==
  <<Asm(op, 0, callee, inst.y)>>
  \o (IF inst.result # 0 THEN <<Asm("mov", o.r, "eax", 0)>> ELSE <<>>)
  \o (IF inst.y # 0 THEN <<Asm("sp", 0, 0, inst.y * 4)>> ELSE <<>>)

Text(inst, o) ==
  CASE inst.function = "LOAD_ARG" -> <<Asm("load", o.r, 0, frame + inst.x * 4 + 4)>>
    [] inst.function = "LOAD_SYM" -> <<Asm("la", o.r, 0, inst.x)>>
    [] inst.function = "LOAD_INT" -> <<Asm("li", o.r, 0, inst.x)>>
    [] inst.function = "CALL_PUSH"     -> <<Asm("push", 0, o.x, 0)>>
    [] inst.function = "CALL_PUSH_SYM" -> <<Asm("pusha", 0, 0, inst.x)>>
    [] inst.function = "CALL_PUSH_INT" -> <<Asm("pushi", 0, 0, inst.x)>>
    [] inst.function = "CALL_REG" -> CallText("callr", o.x, inst, o)
    [] inst.function = "CALL_SYM" -> CallText("call", inst.x, inst, o)
    [] inst.function = "RETURN_VAL" -> <<Asm("mov", "eax", o.x, 0)>>
    [] inst.function = "RETURN_INT" -> <<Asm("li", "eax", 0, inst.x)>>
    [] inst.function = "MOV"  -> <<Asm("mov", o.r, o.x, 0)>>
    [] inst.function = "ADD"  -> Arith("add", o, o.y)
    [] inst.function = "ADDI" -> Arith("addi", o, inst.y)
    [] inst.function = "SUB"  -> Arith("sub", o, o.y)
    [] inst.function = "SUBI" -> Arith("subi", o, inst.y)
    [] inst.function = "LT"   -> Compare("slt", o, o.y)
    [] inst.function = "LTI"  -> Compare("slti", o, inst.y)
    [] inst.function = "LABEL" -> <<Asm("label", 0, 0, inst.x)>>
    [] inst.function = "GOTO"  -> <<Asm("jump", 0, 0, inst.x)>>
    [] inst.function = "BIZ"   -> <<Asm("jz", 0, o.x, inst.y)>>
    [] inst.function = "EXIT"  -> <<Asm("jump", 0, 0, EPILOGUE)>>
    [] inst.function = "NOP"   -> <<>>

(* Mutant: the frame stays where it is.                                    *)
MovedNever(inst) == 0

(* Mutant: a call does not move it back.                                   *)
MovedByPushes(inst) ==
  IF inst.function \in {"CALL_PUSH", "CALL_PUSH_SYM", "CALL_PUSH_INT"} THEN 4 ELSE 0

(* How an instruction moves the stack pointer away from the frame.         *)
Moved(inst) ==
  CASE inst.function \in {"CALL_PUSH", "CALL_PUSH_SYM", "CALL_PUSH_INT"} -> 4
    [] inst.function \in {"CALL_REG", "CALL_SYM"} -> -inst.y * 4
    [] OTHER -> 0

Instruction ==
  /\ AtInstruction /\ func[j].function # "PHI"
  /\ LET o == Operands(func[j])
     IN  Write(o.st, Text(func[j], o), free_scratch_registers(o.st.map))
  /\ frame' = frame + Moved(func[j])
  /\ UNCHANGED call_count

Epilogue ==
  /\ AtEpilogue
  /\ Shut(Before,
          [k \in 1..hard_registers |-> Asm("load", preserved_registers[k], 0, (k - 1) * 4)]
          \o <<Asm("sp", 0, 0, temps_count * 4), Asm("ret", 0, 0, 0)>>)

Next == Prologue \/ Instruction \/ Epilogue
=============================================================================
