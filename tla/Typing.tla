------------------------------- MODULE Typing -------------------------------
(***************************************************************************)
(* src/src/typing.c: extract_types() collects the declared types of all     *)
(* names in a table, and typecheck() checks the tree against it.            *)
(*                                                                         *)
(* A node is identified by its path from the top: the C code numbers nodes  *)
(* and looks a name up under the numbers of the nodes around it, then       *)
(* under 0, which is <<>> here and belongs to what is declared on top.       *)
(***************************************************************************)
EXTENDS AST, SequencesExt, TLC

(* Type: an enumeration and, for a function, its parts.  No parts: NULL.     *)
Type(t) == [type |-> t, args |-> <<>>, ret |-> <<>>]
FunctionType(args, ret) == [type |-> "function", args |-> args, ret |-> <<ret>>]
Void == Type("void")
TypeNames == {"i32", "cstr", "...", "void"}

(* A NULL among the parts stops the program, as a mismatch does wherever it *)
(* can come up.                                                            *)
types_match(t, u) ==
  /\ t.type = u.type
  /\ t.type = "function" => t.args = u.args /\ t.ret = u.ret /\ t.ret # <<>>

type_int(t) == t.type = "i32"

(* The number a declaration at this path is entered under.                  *)
Scope(path) == IF Len(path) = 1 THEN <<>> ELSE path

insert_type(tt, scope, name, type) ==
  (<<scope, name>> :> type) @@ tt

-----------------------------------------------------------------------------
(* extract_types: [type, tt, ok]; ok is FALSE once an assert or TODO failed. *)
RECURSIVE extract_types(_, _, _)

Within(path, field, i) == Append(path, <<field, i>>)

(* The types of several lists of one node, with the table as it grows.       *)
ExtractEach(lists, path, field, tt) ==
  FoldLeft(LAMBDA s, j :
             LET e == extract_types(lists[j], Within(path, field, j), s.tt)
             IN  [types |-> Append(s.types, e.type), tt |-> e.tt, ok |-> s.ok /\ e.ok],
           [types |-> <<>>, tt |-> tt, ok |-> TRUE], [j \in DOMAIN lists |-> j])

ExtractDef(node, path, s) ==
  LET once == extract_types(node.body, path, s.tt)
      again == extract_types(node.body, path,
                             insert_type(once.tt, Scope(path), node.name, once.type))
  IN  [s EXCEPT !.tt = again.tt, !.ok = once.ok /\ again.ok]

ExtractExtern(node, path, s) ==
  LET e == extract_types(node.body, path, s.tt)
  IN  [s EXCEPT !.tt = insert_type(e.tt, Scope(path), node.name, e.type), !.ok = e.ok]

ExtractFunc(node, path, s) ==
  LET ret == extract_types(<<node.ret>>, Within(path, "ret", 0), s.tt)
      body == extract_types(node.body, path, ret.tt)
      args == ExtractEach([j \in DOMAIN node.types |-> <<node.types[j]>>], path, "type", body.tt)
      entered == FoldLeft(LAMBDA tt, j : insert_type(tt, Scope(path), node.args[j], args.types[j]),
                          args.tt, [j \in DOMAIN node.args |-> j])
  IN  [type |-> FunctionType(args.types, ret.type), tt |-> entered, ok |-> ret.ok /\ body.ok /\ args.ok]

(* The values are only looked through for declarations.                     *)
ExtractVariable(v, path, j, s) ==
  LET type == extract_types(v.type, Within(path, "type", j), s.tt)
      value == extract_types(v.value, Within(path, "value", j),
                             insert_type(type.tt, Scope(path), v.name, type.type))
  IN  [s EXCEPT !.tt = value.tt, !.ok = @ /\ type.ok /\ value.ok]

ExtractVardef(node, path, s) ==
  LET entered == FoldLeft(LAMBDA e, j : IF e.ok THEN ExtractVariable(node.variables[j], path, j, e) ELSE e,
                          s, [j \in DOMAIN node.variables |-> j])
      body == extract_types(node.body, path, entered.tt)
  IN  [s EXCEPT !.tt = body.tt, !.ok = entered.ok /\ body.ok]

(* What is said inside a call is not looked at: no declarations in there.    *)
ExtractNode(node, path, s) ==
  CASE node.kind = "DEF"    -> ExtractDef(node, path, s)
    [] node.kind = "EXTERN" -> ExtractExtern(node, path, s)
    [] node.kind = "FUNC"   -> ExtractFunc(node, path, s)
    [] node.kind = "VARDEF" -> ExtractVardef(node, path, s)
    [] node.kind = "NAME"   -> [s EXCEPT !.type = Type(node.name), !.ok = node.name \in TypeNames]
    [] node.kind = "NUMBER" -> [s EXCEPT !.type.type = "i32"]
    [] node.kind = "BOOL"   -> [s EXCEPT !.type.type = "bool"]
    [] node.kind = "STRING" -> [s EXCEPT !.type.type = "cstr"]
    [] node.kind = "LIST"   -> [s EXCEPT !.ok = FALSE]
    [] OTHER                -> s

extract_types(nodes, path, tt) ==
  FoldLeft(LAMBDA s, i : IF s.ok THEN ExtractNode(nodes[i], Within(path, "node", i), s) ELSE s,
           [type |-> Void, tt |-> tt, ok |-> TRUE], [i \in DOMAIN nodes |-> i])

-----------------------------------------------------------------------------
(* Mutant: only the nearest scope.                                         *)
ScopesNearest(path) == {Front(path)}

(* The scopes find_type() tries, from the node outwards.                     *)
Scopes(path) == {SubSeq(path, 1, k) : k \in 0..(Len(path) - 1)}

(* find_type: the innermost declaration, or none ("Couldn't find name").     *)
Declaring(tt, path, name) == {s \in Scopes(path) : <<s, name>> \in DOMAIN tt}
find_type(tt, path, name) ==
  LET innermost == CHOOSE s \in Declaring(tt, path, name) :
                     \A u \in Declaring(tt, path, name) : Len(u) <= Len(s)
  IN  tt[<<innermost, name>>]

-----------------------------------------------------------------------------
(* typecheck: [type, ok, quiet, sure]; quiet is FALSE once it only           *)
(* complained, sure once it compared with what lies behind a buffer: then   *)
(* ok says what comes of it if that fits, and it may as well not.           *)
RECURSIVE typecheck(_, _, _)

Failed == [type |-> Void, ok |-> FALSE, quiet |-> TRUE, sure |-> TRUE]

(* The types a buffer has room for when n have been appended to it.         *)
TypesCapacity(n) ==
  CHOOSE c \in {0} \cup {4 * 2 ^ k : k \in 0..n} : c >= n /\ (c > 4 => c < 2 * n) /\ (c = 0 => n = 0)

(* How many arguments of a call are looked at: of a function's up to the     *)
(* first that is declared "...".                                           *)
FirstAny(f) == SelectInSeq(f.args, LAMBDA t : t.type = "...")
Examined(node, path, tt) ==
  CASE node.callee \in {"+", "-"} -> Len(node.args)
    [] node.callee \in {"<", ">"} -> 2
    [] node.callee = "if"         -> 3
    [] OTHER -> LET any == FirstAny(find_type(tt, path, node.callee))
                IN  IF any = 0 THEN Len(node.args) ELSE any

(* Each of these is checked in turn.                                       *)
CheckArgs(node, path, tt) ==
  FoldLeft(LAMBDA c, j : Append(c, typecheck(<<node.args[j]>>, Within(path, "arg", j), tt)),
           <<>>, [j \in 1..Examined(node, path, tt) |-> j])

AllOk(checked) == \A j \in DOMAIN checked : checked[j].ok

(* What a call gives, of this type if ok, behind what came before it.       *)
Checked(s, checked, type, ok) ==
  [type |-> type, ok |-> AllOk(checked) /\ ok,
   quiet |-> s.quiet /\ \A j \in DOMAIN checked : checked[j].quiet,
   sure |-> s.sure /\ \A j \in DOMAIN checked : checked[j].sure]

(* + and - only complain of operands that are not of the first one's type.   *)
CheckSum(node, path, tt, s) ==
  LET c == CheckArgs(node, path, tt)
      sum == Checked(s, c, [s.type EXCEPT !.type = c[1].type.type], type_int(c[1].type))
  IN  IF Len(node.args) < 2 THEN Failed
      ELSE [sum EXCEPT !.quiet = @ /\ \A j \in DOMAIN c : types_match(c[1].type, c[j].type)]

(* < and > look at two operands, however many there are.                     *)
CheckOrder(node, path, tt, s) ==
  LET c == CheckArgs(node, path, tt)
  IN  IF Len(node.args) < 2 THEN Failed
      ELSE Checked(s, c, [s.type EXCEPT !.type = "bool"],
                   types_match(c[1].type, c[2].type) /\ type_int(c[1].type))

(* Mutant: the branches may differ.                                        *)
CheckIfLoose(node, path, tt, s) ==
  LET c == CheckArgs(node, path, tt)
  IN  IF Len(node.args) # 3 THEN Failed
      ELSE Checked(s, c, [s.type EXCEPT !.type = c[2].type.type], c[1].type.type = "bool")

CheckIf(node, path, tt, s) ==
  LET c == CheckArgs(node, path, tt)
  IN  IF Len(node.args) # 3 THEN Failed
      ELSE Checked(s, c, [s.type EXCEPT !.type = c[2].type.type],
                   c[1].type.type = "bool" /\ types_match(c[2].type, c[3].type))

(* A call.  Beyond the declared parameters the C code reads zeroed memory,   *)
(* void, to the end of their buffer, and behind it whatever is there.       *)
CheckInvoke(node, path, tt, s) ==
  LET f == find_type(tt, path, node.callee)
      parameter(j) == IF j <= Len(f.args) THEN f.args[j] ELSE Void
      inside == 1..TypesCapacity(Len(f.args))
      c == CheckArgs(node, path, tt)
      call == Checked(s, c, f.ret[1], \A j \in (DOMAIN c \cap inside) \ {FirstAny(f)} :
                                        types_match(parameter(j), c[j].type))
  IN  IF \/ Declaring(tt, path, node.callee) = {} \/ f.type # "function" \/ f.ret = <<>>
         \/ Len(f.args) > Len(node.args)
         \/ f.args = <<>> /\ node.args # <<>>
      THEN Failed
      ELSE [call EXCEPT !.sure = @ /\ DOMAIN c \subseteq inside]

CheckCall(node, path, tt, s) ==
  CASE node.callee \in {"+", "-"} -> CheckSum(node, path, tt, s)
    [] node.callee \in {"<", ">"} -> CheckOrder(node, path, tt, s)
    [] node.callee = "if"         -> CheckIf(node, path, tt, s)
    [] OTHER                      -> CheckInvoke(node, path, tt, s)

(* The declared type of a function against that of its last expression;     *)
(* void takes anything.  Function types stop it: there is no arena for them. *)
CheckFunc(node, path, tt, s) ==
  LET body == typecheck(node.body, path, tt)
      expected == extract_types(<<node.ret>>, <<>>, <<>>)
  IN  [type |-> body.type,
       ok |-> /\ body.ok /\ node.ret.kind # "FUNC"
              /\ (types_match(body.type, expected.type) \/ expected.type.type = "void"),
       quiet |-> s.quiet /\ body.quiet, sure |-> s.sure /\ body.sure]

CheckNode(node, path, tt, s) ==
  CASE node.kind = "EXTERN" -> s
    [] node.kind = "DEF"    -> LET body == typecheck(node.body, path, tt)
                               IN  [s EXCEPT !.ok = body.ok, !.quiet = @ /\ body.quiet, !.sure = @ /\ body.sure]
    [] node.kind = "FUNC"   -> CheckFunc(node, path, tt, s)
    [] node.kind = "CALL"   -> CheckCall(node, path, tt, s)
    [] node.kind = "VARDEF" -> LET body == typecheck(node.body, path, tt)
                               IN  [body EXCEPT !.quiet = @ /\ s.quiet, !.sure = @ /\ s.sure]
    [] node.kind = "NAME"   -> IF Declaring(tt, path, node.name) = {} THEN Failed
                               ELSE [s EXCEPT !.type = find_type(tt, path, node.name)]
    [] node.kind = "NUMBER" -> [s EXCEPT !.type.type = "i32"]
    [] node.kind = "BOOL"   -> [s EXCEPT !.type.type = "bool"]
    [] node.kind = "STRING" -> [s EXCEPT !.type.type = "cstr"]
    [] OTHER                -> Failed

typecheck(nodes, path, tt) ==
  FoldLeft(LAMBDA s, i : IF s.ok THEN CheckNode(nodes[i], Within(path, "node", i), tt, s) ELSE s,
           [type |-> Void, ok |-> TRUE, quiet |-> TRUE, sure |-> TRUE], [i \in DOMAIN nodes |-> i])

(* What typecheck() leaves in the tree: which of the functions it comes by,  *)
(* in bodies and in arguments it looks at, return nothing.                  *)
RECURSIVE Annotated(_, _, _)
Annotated(nodes, path, tt) ==
  [i \in DOMAIN nodes |->
     LET node == nodes[i]
         here == Within(path, "node", i)
     IN CASE node.kind = "FUNC" ->
               [node EXCEPT !.body = Annotated(@, here, tt),
                            !.ret_type_void = typecheck(node.body, here, tt).type.type = "void"]
          [] node.kind \in {"DEF", "VARDEF"} -> [node EXCEPT !.body = Annotated(@, here, tt)]
          [] node.kind = "CALL" ->
               LET examined == Examined(node, here, tt)
               IN  [node EXCEPT !.args =
                      [j \in DOMAIN @ |-> IF j > examined THEN @[j]
                                          ELSE Annotated(<<@[j]>>, Within(here, "arg", j), tt)[1]]]
          [] OTHER -> node]
=============================================================================
