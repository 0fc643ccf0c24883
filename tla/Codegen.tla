------------------------------ MODULE Codegen ------------------------------
(***************************************************************************)
(* codegen() of src/src/codegen.c: from the syntax tree to TAC.             *)
(*                                                                         *)
(* The C function recurses over the tree.  Here the pending part of the     *)
(* recursion is the sequence work: the nodes still to visit and, between    *)
(* them, the rest of each call that a visit interrupted.  One action is one *)
(* stretch of C code between two recursive calls.                           *)
(***************************************************************************)
EXTENDS TAC, AST, SequencesExt

CONSTANTS
  Programs,     \* the parsed programs to compile: a set of node lists
  Nodes         \* the nodes of their trees

ASSUME ProgramsAssumption == Programs # {} /\ Programs \subseteq Seq(Nodes)

(* What parse() builds: each kind of node with its lists of nodes, and, for  *)
(* every name a let binds, something it is bound to.                        *)
ASSUME NodesAssumption ==
  \A n \in Nodes :
    /\ n.kind \in {"DEF", "FUNC", "VARDEF"} => n.body \in Seq(Nodes)
    /\ n.kind = "FUNC" => n.args \in Seq(STRING)
    /\ n.kind = "CALL" => n.args \in Seq(Nodes)
    /\ n.kind = "VARDEF" =>
         /\ DOMAIN n.variables = 1..Len(n.variables) /\ Len(n.variables) \in Nat
         /\ \A j \in DOMAIN n.variables : n.variables[j].value \in Seq(Nodes) \ {<<>>}

(* A function that returns something has a body that says what.  typecheck() *)
(* marks those without one, but does not look into the values of a let.     *)
ASSUME BodiesAssumption ==
  \A n \in Nodes : n.kind = "FUNC" => n.ret_type_void \/ n.body # <<>>

VARIABLES
  ast,                \* the program being compiled
  work,               \* what is left of the recursion
  heap,               \* every buffer ir.functions.data ever pointed to, in order
  current_function,   \* pointer into a buffer: <<generation, index>>, or Null
  symbols,            \* ir.symbols: names, "" for a string literal
  data,               \* ir.data: [name, data]
  global_symbols,     \* name -> index in symbols, for the names defined so far
  variables,          \* name -> temporary, for the names bound so far
  args_stack, temp_num, branch_id,
  status              \* "running", "done", or "aborted" (a failed assert)

vars == <<ast, work, heap, current_function, symbols, data, global_symbols,
          variables, args_stack, temp_num, branch_id, status>>

Null == <<0, 0>>
UInt16 == 65536
FirstCapacity == 4

Without(f, S) == [n \in DOMAIN f \ S |-> f[n]]
Put(f, key, v) == [n \in DOMAIN f \cup {key} |-> IF n = key THEN v ELSE f[n]]
Unbound == [n \in {} |-> 0]

(* The buffer the IR owns: growing leaves the older ones behind, as         *)
(* arena_realloc never frees, and a pointer into one keeps working there.   *)
functions == heap[Len(heap)]
Capacity(generation) == FirstCapacity * 2 ^ (generation - 1)

(* da_append(ir.functions, f).                                             *)
Grown(f) == IF Len(functions) = Capacity(Len(heap))
            THEN Append(heap, Append(functions, f))
            ELSE [heap EXCEPT ![Len(heap)] = Append(@, f)]

Emit(code) ==
  heap' = [heap EXCEPT ![current_function[1]][current_function[2]].code = @ \o code]

NextTemp == (temp_num + 1) % UInt16
NextBranch(k) == (branch_id + k) % UInt16

-----------------------------------------------------------------------------
(* The control stack.                                                      *)
Visits(nodes) == [i \in DOMAIN nodes |-> [op |-> "visit", node |-> nodes[i]]]
Rest(op, arg) == <<[op |-> op, arg |-> arg]>>

At(op) == status = "running" /\ work # <<>> /\ Head(work).op = op
AtNode(kind) == At("visit") /\ Head(work).node.kind = kind
Node == Head(work).node
Arg == Head(work).arg

(* Replace the item in front by these.                                     *)
Proceed(items) == work' = items \o Tail(work)

(* The end of the loop body over a node list: lines 81 and 273-278.        *)
Close == Rest("close", Len(args_stack))

InFunction == current_function # Null

PushTemp(t) == args_stack' = Append(args_stack, t)
Peek(k) == args_stack[Len(args_stack) - k]
Dropped(k) == SubSeq(args_stack, 1, Len(args_stack) - k)

UnchangedNames == UNCHANGED <<symbols, data, global_symbols, variables>>

Fresh ==
  /\ heap = << <<>> >> /\ current_function = Null
  /\ symbols = <<>> /\ data = <<>> /\ global_symbols = Unbound
  /\ variables = Unbound /\ args_stack = <<>>
  /\ temp_num = 0 /\ branch_id = 0 /\ status = "running"

Init == ast \in Programs /\ work = Visits(ast) /\ Fresh

-----------------------------------------------------------------------------
(* Declarations.                                                           *)
GenExtern ==
  /\ AtNode("EXTERN")
  /\ symbols' = Append(symbols, Node.name)
  /\ global_symbols' = Put(global_symbols, Node.name, Len(symbols'))
  /\ Proceed(Close)
  /\ UNCHANGED <<heap, current_function, data, variables, args_stack,
                 temp_num, branch_id, status>>

GenDef ==
  /\ AtNode("DEF")
  /\ symbols' = Append(symbols, Node.name)
  /\ global_symbols' = Put(global_symbols, Node.name, Len(symbols'))
  /\ Proceed(Visits(Node.body) \o Close)
  /\ UNCHANGED <<heap, current_function, data, variables, args_stack,
                 temp_num, branch_id, status>>

(* hms_put() overwrites: of parameters of one name the last one counts.     *)
LastOf(args, name) == SelectLastInSeq(args, LAMBDA a : a = name)

(* A function takes the symbol added last as its name, whatever it is.     *)
GenFunc ==
  /\ AtNode("FUNC")
  /\ LET n == Len(Node.args)
         temp(j) == (temp_num + j) % UInt16
         loads == [j \in 1..n |-> Inst(temp(j), "LOAD_ARG", j - 1, 0)]
         bound(name) == temp(LastOf(Node.args, name))
     IN  /\ heap' = Grown([name |-> Len(symbols), code |-> loads])
         /\ temp_num' = temp(n)
         /\ variables' = [name \in DOMAIN variables \cup ToSet(Node.args) |->
                            IF name \in ToSet(Node.args) THEN bound(name)
                            ELSE variables[name]]
  /\ current_function' = <<Len(heap'), Len(heap'[Len(heap')])>>
  /\ Proceed(Visits(Node.body)
             \o Rest("end_func", [node |-> Node, prev_func |-> current_function])
             \o Close)
  /\ UNCHANGED <<symbols, data, global_symbols, args_stack, branch_id, status>>

(* Mutant: the end of a function unbinds everything.                       *)
EndFuncClears ==
  /\ At("end_func")
  /\ variables' = Unbound
  /\ IF Arg.node.ret_type_void
     THEN UNCHANGED <<heap, args_stack>>
     ELSE /\ Emit(<<Inst(0, "RETURN_VAL", Peek(0), 0)>>)
          /\ args_stack' = Dropped(1)
  /\ current_function' = Arg.prev_func
  /\ Proceed(<<>>)
  /\ UNCHANGED <<symbols, data, global_symbols, temp_num, branch_id, status>>

(* Restoring current_function restores a pointer: if the buffer grew        *)
(* meanwhile, it points into the old one.                                  *)
EndFunc ==
  /\ At("end_func")
  /\ variables' = Without(variables, ToSet(Arg.node.args))
  /\ IF Arg.node.ret_type_void
     THEN UNCHANGED <<heap, args_stack>>
     ELSE /\ Emit(<<Inst(0, "RETURN_VAL", Peek(0), 0)>>)
          /\ args_stack' = Dropped(1)
  /\ current_function' = Arg.prev_func
  /\ Proceed(<<>>)
  /\ UNCHANGED <<symbols, data, global_symbols, temp_num, branch_id, status>>

(* Mutant: the let visits itself.                                          *)
GenVardefAgain ==
  /\ AtNode("VARDEF") /\ InFunction
  /\ Proceed(Visits(<<Node>>))
  /\ UNCHANGED <<heap, current_function, args_stack, temp_num, branch_id, status>>
  /\ UnchangedNames

(* What is left of a let from its jth name on: each value is generated and  *)
(* bound in turn, then the body.                                           *)
BindingsFrom(let, j) ==
  IF j > Len(let.variables) THEN Visits(let.body)
  ELSE Visits(let.variables[j].value) \o Rest("bind", [let |-> let, j |-> j])

GenVardef ==
  /\ AtNode("VARDEF") /\ InFunction
  /\ Proceed(BindingsFrom(Node, 1) \o Close)
  /\ UNCHANGED <<heap, current_function, args_stack, temp_num, branch_id, status>>
  /\ UnchangedNames

Bind ==
  /\ At("bind")
  /\ variables' = Put(variables, Arg.let.variables[Arg.j].name, Peek(0))
  /\ args_stack' = Dropped(1)
  /\ Proceed(BindingsFrom(Arg.let, Arg.j + 1))
  /\ UNCHANGED <<heap, current_function, symbols, data, global_symbols,
                 temp_num, branch_id, status>>

-----------------------------------------------------------------------------
(* Values.                                                                 *)
EmitValue(f, arg) ==
  /\ Emit(<<Inst(NextTemp, f, arg, 0)>>)
  /\ temp_num' = NextTemp
  /\ PushTemp(NextTemp)
  /\ Proceed(Close)

GenNumber ==
  /\ AtNode("NUMBER") /\ InFunction /\ EmitValue("LOAD_INT", Node.number)
  /\ UNCHANGED <<current_function, branch_id, status>> /\ UnchangedNames

GenBool ==
  /\ AtNode("BOOL") /\ InFunction
  /\ EmitValue("LOAD_INT", IF Node.boolean THEN 1 ELSE 0)
  /\ UNCHANGED <<current_function, branch_id, status>> /\ UnchangedNames

GenString ==
  /\ AtNode("STRING") /\ InFunction
  /\ symbols' = Append(symbols, "")
  /\ data' = Append(data, [name |-> Len(symbols'), data |-> Node.string])
  /\ EmitValue("LOAD_SYM", Len(symbols'))
  /\ UNCHANGED <<current_function, global_symbols, variables, branch_id, status>>

(* A name is a variable if any variable of that name is still bound, and    *)
(* only then a global symbol.                                              *)
GenVariable ==
  /\ AtNode("NAME") /\ InFunction /\ Node.name \in DOMAIN variables
  /\ PushTemp(variables[Node.name])
  /\ Proceed(Close)
  /\ UNCHANGED <<heap, current_function, temp_num, branch_id, status>>
  /\ UnchangedNames

GenSymbol ==
  /\ AtNode("NAME") /\ InFunction /\ Node.name \notin DOMAIN variables
  /\ Node.name \in DOMAIN global_symbols
  /\ EmitValue("LOAD_SYM", global_symbols[Node.name])
  /\ UNCHANGED <<current_function, branch_id, status>> /\ UnchangedNames

-----------------------------------------------------------------------------
(* Calls: the arguments first, then the operation on what they pushed.     *)
Builtins == {"+", "-", "<", ">", "if"}

GenCall ==
  /\ AtNode("CALL") /\ InFunction /\ Node.callee # "if"
  /\ Proceed(Visits(Node.args)
             \o Rest(IF Node.callee \in Builtins THEN Node.callee ELSE "call", Node)
             \o Close)
  /\ UNCHANGED <<heap, current_function, args_stack, temp_num, branch_id, status>>
  /\ UnchangedNames

(* The operands of an addition are popped in an initialiser list, in the    *)
(* order the C compiler likes.                                             *)
GenAdd ==
  /\ At("+") /\ Len(Arg.args) >= 2
  /\ \E swapped \in BOOLEAN :
       LET n == Len(Arg.args)
           temp(k) == (temp_num + k) % UInt16
           sum(k) == IF k = 0 THEN Peek(0) ELSE temp(k)
           add(k) == IF swapped THEN Inst(temp(k), "ADD", Peek(k), sum(k - 1))
                     ELSE Inst(temp(k), "ADD", sum(k - 1), Peek(k))
       IN  /\ Emit([k \in 1..(n - 1) |-> add(k)])
           /\ temp_num' = temp(n - 1)
           /\ args_stack' = Append(Dropped(n), temp(n - 1))
  /\ Proceed(<<>>)
  /\ UNCHANGED <<current_function, branch_id, status>> /\ UnchangedNames

(* Mutant: an operation pops one entry too many.                           *)
EmitBinaryDeep(f, x, y) ==
  /\ Len(Arg.args) = 2
  /\ Emit(<<Inst(NextTemp, f, x, y)>>)
  /\ temp_num' = NextTemp
  /\ args_stack' = Append(Dropped(3), NextTemp)
  /\ Proceed(<<>>)
  /\ UNCHANGED <<current_function, branch_id, status>> /\ UnchangedNames

EmitBinary(f, x, y) ==
  /\ Len(Arg.args) = 2
  /\ Emit(<<Inst(NextTemp, f, x, y)>>)
  /\ temp_num' = NextTemp
  /\ args_stack' = Append(Dropped(2), NextTemp)
  /\ Proceed(<<>>)
  /\ UNCHANGED <<current_function, branch_id, status>> /\ UnchangedNames

GenSub == At("-") /\ EmitBinary("SUB", Peek(1), Peek(0))
GenLess == At("<") /\ EmitBinary("LT", Peek(1), Peek(0))
(* Mutant: the operands of > stay as they are.                             *)
GenGreaterAsLess == At(">") /\ EmitBinary("LT", Peek(1), Peek(0))

GenGreater == At(">") /\ EmitBinary("LT", Peek(0), Peek(1))

(* A call to a name: a global symbol first, a variable otherwise.  The last *)
(* argument is pushed first.  A symbol entry is added either way.          *)
GenInvoke ==
  /\ At("call")
  /\ LET n == Len(Arg.args)
         pushes == [k \in 1..n |-> Inst(0, "CALL_PUSH", Peek(k - 1), n)]
         call == IF Arg.callee \in DOMAIN global_symbols
                 THEN Inst(NextTemp, "CALL_SYM", Len(symbols'), n)
                 ELSE Inst(NextTemp, "CALL_REG", variables[Arg.callee], n)
     IN  /\ Arg.callee \in DOMAIN global_symbols \cup DOMAIN variables
         /\ symbols' = Append(symbols, Arg.callee)
         /\ Emit(Append(pushes, call))
         /\ args_stack' = Append(Dropped(n), NextTemp)
  /\ temp_num' = NextTemp
  /\ Proceed(<<>>)
  /\ UNCHANGED <<current_function, data, global_symbols, variables, branch_id, status>>

-----------------------------------------------------------------------------
(* if: two labels and a temporary for the result, reserved as the C code    *)
(* reaches them; the parts of the tree are visited in between.             *)
(* Mutant: one label is reserved where two are used.                       *)
GenIfOneLabel ==
  /\ AtNode("CALL") /\ InFunction /\ Node.callee = "if" /\ Len(Node.args) = 3
  /\ branch_id' = NextBranch(1)
  /\ Proceed(Visits(<<Node.args[1]>>)
             \o Rest("condition", [node |-> Node, false |-> NextBranch(1),
                                   exit |-> NextBranch(2)])
             \o Close)
  /\ UNCHANGED <<heap, current_function, args_stack, temp_num, status>>
  /\ UnchangedNames

GenIf ==
  /\ AtNode("CALL") /\ InFunction /\ Node.callee = "if" /\ Len(Node.args) = 3
  /\ branch_id' = NextBranch(2)
  /\ Proceed(Visits(<<Node.args[1]>>)
             \o Rest("condition", [node |-> Node, false |-> NextBranch(1),
                                   exit |-> NextBranch(2)])
             \o Close)
  /\ UNCHANGED <<heap, current_function, args_stack, temp_num, status>>
  /\ UnchangedNames

(* Mutant: the result's temporary is not reserved.                         *)
IfConditionUnreserved ==
  /\ At("condition")
  /\ Emit(<<Inst(0, "BIZ", Peek(0), Arg.false)>>)
  /\ args_stack' = Dropped(1)
  /\ Proceed(Visits(<<Arg.node.args[2]>>) \o Rest("then", [if |-> Arg, result |-> NextTemp]))
  /\ UNCHANGED <<current_function, temp_num, branch_id, status>> /\ UnchangedNames

IfCondition ==
  /\ At("condition")
  /\ Emit(<<Inst(0, "BIZ", Peek(0), Arg.false)>>)
  /\ args_stack' = Dropped(1)
  /\ temp_num' = NextTemp
  /\ Proceed(Visits(<<Arg.node.args[2]>>) \o Rest("then", [if |-> Arg, result |-> NextTemp]))
  /\ UNCHANGED <<current_function, branch_id, status>> /\ UnchangedNames

IfThen ==
  /\ At("then")
  /\ Emit(<<Inst(0, "GOTO", Arg.if.exit, 0), Inst(0, "LABEL", Arg.if.false, 0)>>)
  /\ args_stack' = Dropped(1)
  /\ Proceed(Visits(<<Arg.if.node.args[3]>>)
             \o Rest("else", [exit |-> Arg.if.exit, result |-> Arg.result,
                              result_1 |-> Peek(0)]))
  /\ UNCHANGED <<current_function, temp_num, branch_id, status>> /\ UnchangedNames

IfElse ==
  /\ At("else")
  /\ Emit(<<Inst(0, "LABEL", Arg.exit, 0),
            Inst(Arg.result, "PHI", Arg.result_1, Peek(0))>>)
  /\ args_stack' = Append(Dropped(1), Arg.result)
  /\ Proceed(<<>>)
  /\ UNCHANGED <<current_function, temp_num, branch_id, status>> /\ UnchangedNames

-----------------------------------------------------------------------------
(* A node leaves exactly one entry: the first it pushed, or a 0.           *)
CloseNode ==
  /\ At("close") /\ Len(args_stack) >= Arg
  /\ args_stack' = IF Len(args_stack) > Arg THEN SubSeq(args_stack, 1, Arg + 1)
                   ELSE Append(args_stack, 0)
  /\ Proceed(<<>>)
  /\ UNCHANGED <<heap, current_function, temp_num, branch_id, status>>
  /\ UnchangedNames

(* The asserts and TODOs: an expression outside any function, a name nobody *)
(* has bound, a call of such a name, an operator with the wrong arity, a     *)
(* list, a node that popped what was not its own.                           *)
Refused ==
  \/ /\ At("visit") /\ Node.kind \in {"CALL", "VARDEF", "NAME", "NUMBER", "BOOL", "STRING"}
     /\ ~InFunction
  \/ AtNode("NAME") /\ Node.name \notin DOMAIN variables \cup DOMAIN global_symbols
  \/ At("call") /\ Arg.callee \notin DOMAIN variables \cup DOMAIN global_symbols
  \/ At("+") /\ Len(Arg.args) < 2
  \/ At("-") /\ Len(Arg.args) # 2
  \/ (At("<") \/ At(">")) /\ Len(Arg.args) # 2
  \/ AtNode("CALL") /\ Node.callee = "if" /\ Len(Node.args) # 3
  \/ At("visit") /\ Node.kind = "LIST"
  \/ At("close") /\ Len(args_stack) < Arg

Abort ==
  /\ Refused
  /\ status' = "aborted"
  /\ UNCHANGED <<work, heap, current_function, args_stack, temp_num, branch_id>>
  /\ UnchangedNames

Finish ==
  /\ status = "running" /\ work = <<>>
  /\ status' = "done"
  /\ UNCHANGED <<work, heap, current_function, args_stack, temp_num, branch_id>>
  /\ UnchangedNames

Generation ==
        \/ GenExtern \/ GenDef \/ GenFunc \/ EndFunc \/ GenVardef \/ Bind
        \/ GenNumber \/ GenBool \/ GenString \/ GenVariable \/ GenSymbol
        \/ GenCall \/ GenAdd \/ GenSub \/ GenLess \/ GenGreater \/ GenInvoke
        \/ GenIf \/ IfCondition \/ IfThen \/ IfElse \/ CloseNode
        \/ Abort \/ Finish

Next == Generation /\ UNCHANGED ast

Spec == Init /\ [][Next]_vars /\ WF_vars(Next)

-----------------------------------------------------------------------------
(* The counter of temporaries does not wrap around in the next step.       *)
Taken ==
  IF AtNode("FUNC") THEN Len(Node.args)
  ELSE IF At("+") THEN Len(Arg.args) - 1
  ELSE IF \/ \E kind \in {"NUMBER", "BOOL", "STRING", "NAME"} : AtNode(kind)
          \/ \E op \in {"-", "<", ">", "call", "condition"} : At(op) THEN 1
  ELSE 0

Room == temp_num + Taken < UInt16

(* Across all functions, nested ones that interrupt another included, no    *)
(* temporary is set twice: every pass of tac.c takes that for granted.      *)
SetOnce ==
  \A f, g \in DOMAIN functions :
    \A i \in DOMAIN functions[f].code, j \in DOMAIN functions[g].code :
      /\ functions[f].code[i].result = functions[g].code[j].result
      /\ functions[f].code[i].result # 0
      => f = g /\ i = j

(* No handler pops what a node around it, or an argument before it, has     *)
(* pushed: a step keeps everything under the base of every node it is in.   *)
LeavesBelow(base) ==
  base <= Len(args_stack') /\ \A k \in 1..base : args_stack'[k] = args_stack[k]

BasesKept ==
  [][status' = "running" =>
       \A c \in DOMAIN work : work[c].op = "close" => LeavesBelow(work[c].arg)]_vars
=============================================================================
