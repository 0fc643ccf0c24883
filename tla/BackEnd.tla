------------------------------ MODULE BackEnd ------------------------------
(***************************************************************************)
(* What codegen_x86_32(), codegen_mips() and codegen_powerpc() of           *)
(* src/src/targets share: for each function a prologue, one instruction     *)
(* after the other, an epilogue, and the file-static table of scratch       *)
(* registers in use.  One action is one turn of the loop over instructions. *)
(* Symbols and the data section are text only and left out.                *)
(***************************************************************************)
EXTENDS Machine

(* The instructions that pass an argument, and those that call.            *)
Passes(inst) == inst.function \in {"CALL_PUSH", "CALL_PUSH_INT", "CALL_PUSH_SYM"}
Calls(inst) == inst.function \in {"CALL_REG", "CALL_SYM"}

(* What the back ends take for granted: the instructions that pass the      *)
(* arguments of a call are right in front of it, and there are no others.   *)
Passing(code, q) == (q - code[q].y)..(q - 1)
Paired(code) ==
  /\ \A q \in DOMAIN code : Calls(code[q]) =>
       \A p \in Passing(code, q) : p \in DOMAIN code /\ Passes(code[p])
  /\ \A p \in DOMAIN code : Passes(code[p]) =>
       \E q \in DOMAIN code : Calls(code[q]) /\ p \in Passing(code, q)

Instructions == [result : Nat, function : Ops, x : Nat, y : Nat]
StaticFunctions == [code : Seq(Instructions), temps_count : Nat]
IRs == Seq(StaticFunctions)

VARIABLES
  functions,        \* ir.functions: [code, temps_count]
  i, j,             \* the function, and the instruction: 0 before the first
  frame,            \* distance of the frame's top from the stack pointer
  register_map,     \* the slots of the scratch registers in use
  call_count,       \* arguments of the current call passed so far
  out,              \* the text of every function
  status            \* "running", "done", or "aborted" (a failed assert)

bvars == <<functions, i, j, frame, register_map, call_count, out, status>>

BackEndInit(units) ==
  /\ functions \in units
  /\ i = 1 /\ j = 0 /\ frame = 0
  /\ register_map = <<>> /\ call_count = 0
  /\ out = [k \in DOMAIN functions |-> <<>>] /\ status = "running"

func == functions[i].code
temps_count == functions[i].temps_count
Lesser(a, b) == IF a < b THEN a ELSE b
Align16(n) == ((n + 15) \div 16) * 16

AtPrologue == status = "running" /\ i <= Len(functions) /\ j = 0
AtInstruction == status = "running" /\ i <= Len(functions) /\ j \in 1..Len(func)
AtEpilogue == status = "running" /\ i <= Len(functions) /\ j = Len(func) + 1

(* How an access_register() changes the scratch table, prints and answers.  *)
Before == [map |-> register_map, text |-> <<>>, reg |-> 0, ok |-> TRUE]
Found(st, reg) == [st EXCEPT !.reg = reg]
Spilled(st, reg, slot, text) ==
  [st EXCEPT !.map = Append(@, slot), !.text = @ \o text, !.reg = reg]
OutOfScratch(st) == [st EXCEPT !.ok = FALSE]

(* Mutant: the scratch registers stay in use.                              *)
WriteUnfreed(st, text, freed) ==
  /\ out' = [out EXCEPT ![i] = @ \o st.text \o text \o freed]
  /\ register_map' = st.map
  /\ status' = IF st.ok THEN "running" ELSE "aborted"
  /\ j' = j + 1
  /\ UNCHANGED <<functions, i>>

(* Print st's loads, then the instruction, then free the scratch registers. *)
Write(st, text, freed) ==
  /\ out' = [out EXCEPT ![i] = @ \o st.text \o text \o freed]
  /\ register_map' = <<>>
  /\ status' = IF st.ok THEN "running" ELSE "aborted"
  /\ j' = j + 1
  /\ UNCHANGED <<functions, i>>

(* Print the prologue; scratch registers it took stay taken.               *)
Open(st, text) ==
  /\ out' = [out EXCEPT ![i] = text]
  /\ register_map' = st.map
  /\ status' = IF st.ok THEN "running" ELSE "aborted"
  /\ j' = 1
  /\ UNCHANGED <<functions, i, call_count>>

(* Print the epilogue, likewise, and go on to the next function.           *)
Shut(st, text) ==
  /\ out' = [out EXCEPT ![i] = @ \o <<Asm("label", 0, 0, EPILOGUE)>> \o text]
  /\ register_map' = st.map
  /\ i' = i + 1 /\ j' = 0 /\ call_count' = 0
  /\ status' = IF ~st.ok THEN "aborted" ELSE IF i = Len(functions) THEN "done" ELSE "running"
  /\ UNCHANGED <<functions, frame>>
=============================================================================
