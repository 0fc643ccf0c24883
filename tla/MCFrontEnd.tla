----------------------------- MODULE MCFrontEnd -----------------------------
(***************************************************************************)
(* Reading, types and code generation on programs chosen for their names,   *)
(* types, stack, labels and buffers: several functions, functions in functions,    *)
(* lets, shadowing, ifs in every position.  The references are the tree's   *)
(* own meaning (SourceLanguage) and the usual typing rules.                *)
(***************************************************************************)
EXTENDS Reader, SourceLanguage

CONSTANT Family     \* "all", or the name of a disagreement to show

nn == Name("n")
mm == Name("m")
xx == Name("x")
i32 == Name("i32")
cstr == Name("cstr")
void == Name("void")
G(a) == Call("g", <<a>>)
Add(a, b) == Call("+", <<a, b>>)
Sub(a, b) == Call("-", <<a, b>>)
Inc(a) == Add(a, Number(1))
Variable(n, value) == [name |-> n, type |-> <<i32>>, value |-> <<value>>]

(* A function of integers; g takes anything.                               *)
Returning(ret, name, args, body) ==
  Def(name, <<[Func(args, body) EXCEPT !.ret = ret]>>)
Function(name, args, body) == Returning(i32, name, args, body)
gg == Extern("g", FuncType(<<Name("...")>>, i32))

Atoms == {nn, Number(1), G(nn)}
Sums == {Inc(nn), Sub(G(nn), nn)}
Conditions == {Call("<", <<nn, mm>>), Call(">", <<nn, mm>>)}
Ifs == {If(c, a, b) : c \in Conditions, a \in {nn, G(nn)}, b \in Sums}

(* Bodies over the parameters n and m: every operator in every position, an *)
(* if as an argument, as a condition, in a branch and in a let.             *)
Bodies ==
  {Call(f, <<a, b>>) : f \in {"+", "-", "g"}, a, b \in Atoms \cup {mm}}
  \cup {Call(f, <<a, b, c>>) : f \in {"+", "g"}, a \in Atoms, b \in Sums, c \in Ifs}
  \cup {If(If(c, Bool(TRUE), Call("<", <<a, nn>>)), a, b) :
          c \in Conditions, a \in {nn, Number(0)}, b \in {G(nn), mm}}
  \cup {If(c, a, b) : c \in Conditions, a \in Ifs, b \in {i \in Ifs : i.args[2] = nn}}
  \cup {Let("x", v, <<b>>) : v \in {Number(1), G(nn)} \cup Ifs,
          b \in {Inc(xx), Add(xx, G(xx)), If(Call(">", <<xx, nn>>), xx, nn)}}
  \cup {Let("x", a, <<Let("y", Sub(xx, nn), <<Call("g", <<xx, Name("y")>>)>>)>>) : a \in {Number(1), G(nn)}}
  \cup {Let("x", Let("y", G(nn), <<G(Name("y"))>>), <<Add(xx, xx)>>),
        Call("g", <<Str("s"), Str("t"), Name("g")>>),
        LetOf(<<Variable("x", G(nn)), Variable("y", Add(xx, Number(305)))>>, <<Sub(xx, Name("y"))>>)}

Orders == {Call(f, <<a, b>>) : f \in {"<", ">"}, a, b \in {nn, mm, Number(1), G(nn)}}

OneFunction ==
  {<<gg, Function("f", <<"n", "m">>, <<b>>)>> : b \in Bodies}
  \cup {<<gg, Returning(void, "f", <<"n", "m">>, <<b>>)>> : b \in Orders}

(* Ill-scoped or ill-formed: what the asserts and TODOs are for.  The first  *)
(* get past typecheck(): a let's value is not looked at, nor what follows   *)
(* an argument that may be anything.                                       *)
Wrong ==
  {<<gg, Function("f", <<"n">>, <<b>>)>> :
     b \in {Let("x", Inc(mm), <<Inc(xx)>>), Call("g", <<nn, xx>>), Call("-", <<nn, nn, nn>>),
            Inc(Call("g", <<If(Call("<", <<nn, nn, nn>>), nn, nn)>>)),
            nn, Inc(xx), Call("later", <<nn>>), Call("+", <<nn>>), Call("-", <<nn>>),
            If(Bool(TRUE), nn, Call("if", <<Bool(TRUE), nn>>)), List(<<nn>>), Inc(List(<<>>)),
            Add(Let("x", nn, <<xx>>), nn), Let("x", nn, <<Inc(xx)>>), Let("x", Number(1), <<xx>>)}}
  \cup {<<gg, e>> : e \in {nn, Number(1), Bool(TRUE), Str("s"), Add(nn, nn), G(Number(1)),
                          Let("x", Number(1), <<Inc(xx)>>), Def("c", <<Number(1)>>)}}

(* Several functions: parameters of one name, procedures, more functions    *)
(* than the first buffer holds, calls of functions further down.            *)
K(name) == Function(name, <<"n">>, <<Let("x", G(nn), <<Add(nn, xx)>>)>>)
vv == Extern("v", FuncType(<<i32>>, void))
ww == Extern("w", FuncType(<<i32, i32, i32, i32>>, i32))
Many ==
  {<<gg, K("a"), K("b"), Function("f", <<"n">>, <<Call("a", <<Call("b", <<nn>>)>>)>>)>>,
   <<gg, K("a"), K("b"), K("c"), K("d"), K("e")>>,
   <<vv, gg, Returning(void, "p", <<"n">>, <<G(nn), Call("v", <<nn>>)>>),
     Function("f", <<"n">>, <<Call("p", <<nn>>), G(nn), Inc(nn)>>)>>,
   <<gg, Function("g", <<"n">>, <<G(nn)>>), Function("f", <<"n">>, <<G(nn)>>)>>,
   <<gg, Function("f", <<"n">>, <<Call("k", <<nn>>)>>), K("k")>>,
   <<Function("f", <<"n">>, <<If(Call("<", <<nn, Number(1)>>), nn, Call("f", <<Sub(nn, Number(1))>>))>>)>>}

(* As many arguments as a buffer of types holds, and one more; functions in  *)
(* the arguments of a call, looked at and not.                             *)
Arguments ==
  {<<ww, Function("f", <<"n">>, <<Call("w", [j \in 1..k |-> nn])>>)>> : k \in {4, 5}}
  \cup {<<gg, vv, Function("f", <<"n">>, <<Call("g", <<a, b>>)>>)>> :
           a \in {nn, [Func(<<>>, <<Call("v", <<Number(1)>>)>>) EXCEPT !.ret = void]},
           b \in {nn, [Func(<<>>, <<Call("v", <<Number(1)>>)>>) EXCEPT !.ret = void]}}

(* Types: each is declared, passed and returned where it is right and where *)
(* it is not.                                                              *)
Typings ==
  {<<gg, vv, Returning(r, "f", <<"n">>, <<b>>)>> :
     r \in {i32, cstr, void, Name("bool"), FuncType(<<i32>>, i32)},
     b \in {Inc(nn), Str("s"), Call("<", <<nn, nn>>), Call("v", <<nn>>), Bool(TRUE),
            If(Call("<", <<nn, Number(1)>>), Str("s"), Str("t")), If(Call("<", <<nn, Number(1)>>), nn, Str("s")),
            If(nn, nn, nn), Add(nn, Str("s")), Add(Str("s"), nn), Call("<", <<nn, Str("s")>>),
            TypedLet("x", cstr, Str("s"), <<Call("g", <<xx>>)>>), TypedLet("x", cstr, Str("s"), <<Inc(xx)>>),
            TypedLet("x", i32, Str("s"), <<Inc(xx)>>), Call("v", <<>>), Call("v", <<nn, nn>>),
            Call("v", <<Str("s")>>), Call("g", <<>>), Call("f", <<nn>>), Call("n", <<nn>>)}}
  \cup {<<Extern("h", FuncType(<<t, Name("...")>>, i32)),
          Def("f", <<TypedFunc(<<"n", "m">>, <<i32, FuncType(<<i32>>, i32)>>, i32, <<b>>)>>)>> :
          t \in {i32, cstr}, b \in {Call("m", <<Call("m", <<nn>>)>>), Call("h", <<nn, mm>>),
                                    Call("h", <<Str("s"), mm, Inc(Str("s"))>>), Inc(mm)}}

(* A function inside f; its parameter is p, its body b.                     *)
Inner(p, b) == Function("k", <<p>>, <<b>>)
Outer(p, b, rest) == Function("f", <<"n">>, <<Inner(p, b)>> \o rest)
Nested ==
  {<<gg, Outer(p, b, <<r>>)>> :
     p \in {"n", "x"}, b \in {Inc(xx), Inc(nn), Call("k", <<Number(1)>>), Let("y", Number(2), <<Inc(Name("y"))>>)},
     r \in {Inc(nn), Call("k", <<nn>>), Add(G(nn), nn)}}
  \cup {<<gg, Function("f", <<"n">>, <<Inc(nn), Inner("x", Inc(xx))>>)>>}

(* A let that shadows, a name used past its let, a let that hides a global  *)
(* for good, a let of two expressions, a buffer that grows under a pending  *)
(* function.                                                               *)
Shadowing ==
  {<<gg, Function("f", <<"n">>, <<Let("n", Number(1), <<Inc(nn)>>), Inc(nn)>>)>>,
   <<gg, Function("f", <<"n">>, <<Add(Let("n", Number(1), <<nn>>), nn)>>)>>,
   <<gg, Function("f", <<"n">>, <<Let("x", Number(1), <<Inc(xx)>>), Inc(xx)>>)>>,
   <<gg, Function("a", <<"n">>, <<Let("g", Number(1), <<Inc(Name("g"))>>)>>),
     Function("f", <<"n">>, <<Call("a", <<Call("g", <<Name("g")>>)>>)>>)>>,
   <<gg, Function("f", <<"n">>, <<Let("x", Number(1), <<G(xx), Inc(xx)>>)>>)>>,
   <<gg, K("a"), K("b"), K("c"), Outer("x", Inc(xx), <<Inc(nn)>>)>>}

EveryForm ==
  <<gg, Def("f", <<TypedFunc(<<"n", "k">>, <<i32, FuncType(<<i32>>, i32)>>, i32,
     <<LetOf(<<Variable("x", Number(12)), Variable("y", Call("k", <<nn>>))>>,
             <<Call("g", <<Str("s"), Bool(TRUE), xx, If(Bool(FALSE), nn, xx), Inc(xx), List(<<nn>>)>>)>>)>>)>>)>>

MCPrograms ==
  CASE Family = "all" -> OneFunction \cup Wrong \cup Many \cup Arguments \cup Typings \cup Nested \cup Shadowing \cup {EveryForm}
    [] Family = "shadowed parameter" -> {<<gg, Function("f", <<"n">>, <<Inner("n", Inc(nn)), Inc(nn)>>)>>}

MCOrders == {Preorder(p) : p \in MCPrograms}
MCNodes == Elements(MCOrders)

-----------------------------------------------------------------------------
(* Texts: of the programs, and of none.                                     *)
(* What one wrong item makes of a program.                                  *)
Everything == Written(EveryForm)
Broken ==
  {RemoveAt(Everything, i) : i \in DOMAIN Everything}
  \cup {[Everything EXCEPT ![i] = item] : i \in DOMAIN Everything,
          item \in ToSet(Sign(")") \o Sign("[") \o Spelled("fn")) \cup {Item("other", "#"), Item("digits", <<7, 0>>)}}

MCTexts ==
  {Tight(Written(p)) : p \in MCPrograms}
  \cup IF Family # "all" THEN {}
       ELSE {Loose(Written(p)) : p \in Many} \cup {Front(Tight(Written(p))) : p \in Many}
            \cup {Tight(t) : t \in Broken} \cup {<<Space>>}
            \cup {Append(Everything, Item("open string", "s"))}

Inputs == {[args |-> <<IntVal(p[1]), IntVal(p[2])>>, seed |-> 1] :
             p \in {<<0, 1>>, <<3, 2>>}}

-----------------------------------------------------------------------------
(* The programs the generator handles.  before: the globals defined so far; *)
(* env: the names in scope; hidden: those of the functions around this one. *)
(* There are no values that are functions: none is an argument.             *)
Arity(node) ==
  CASE node.callee = "+" -> Len(node.args) >= 2
    [] node.callee \in {"-", "<", ">"} -> Len(node.args) = 2
    [] node.callee = "if" -> Len(node.args) = 3
    [] OTHER -> TRUE

Declared(nodes) == {d.name : d \in {e \in ToSet(Preorder(nodes)) : e.kind \in {"DEF", "EXTERN"}}}

RECURSIVE Scoped(_, _, _, _)
Scoped(nodes, before, env, hidden) ==
  \A i \in DOMAIN nodes :
    LET node == nodes[i]
        known == before \cup Declared(SubSeq(nodes, 1, i - 1))
    IN CASE node.kind = "NAME" -> node.name \in known \cup env
         [] node.kind = "CALL" ->
              /\ node.callee \in known \cup env \cup Builtins
              /\ Arity(node) /\ Scoped(node.args, known, env, hidden)
              /\ \A a \in ToSet(node.args) : a.kind \notin {"FUNC", "DEF", "EXTERN"}
         [] node.kind = "DEF" ->
              Scoped(node.body, known \cup {node.name}, env, hidden)
         [] node.kind = "FUNC" ->
              /\ ToSet(node.args) \cap (env \cup hidden \cup Declared(ast)) = {}
              /\ Scoped(node.body, known, ToSet(node.args), hidden \cup env)
         [] node.kind = "VARDEF" ->
              LET names == [j \in DOMAIN node.variables |-> node.variables[j].name]
              IN  /\ ToSet(names) \cap (env \cup hidden \cup Declared(ast)) = {}
                  /\ IsInjective(names) /\ Len(node.body) = 1
                  /\ \A j \in DOMAIN names :
                       Scoped(node.variables[j].value, known, env \cup ToSet(SubSeq(names, 1, j - 1)), hidden)
                  /\ Scoped(node.body, known, env \cup ToSet(names), hidden)
         [] node.kind = "LIST" -> FALSE
         [] OTHER -> TRUE

AtTop(nodes) == \A i \in DOMAIN nodes :
  \/ nodes[i].kind = "EXTERN"
  \/ nodes[i].kind = "DEF" /\ \A b \in ToSet(nodes[i].body) : b.kind = "FUNC"
FunctionNodes == SelectSeq(Preorder(ast), LAMBDA d : d.kind = "FUNC")
HasNested == \E i \in DOMAIN ast : Len(SelectSeq(Preorder(<<ast[i]>>), LAMBDA d : d.kind = "FUNC")) > 1

WellScoped == AtTop(ast) /\ Scoped(ast, {}, {}, {})
Handled == WellScoped /\ (HasNested => Len(FunctionNodes) <= FirstCapacity)

-----------------------------------------------------------------------------
(* Typing by the scopes of the text, for reference: env has the types of the *)
(* names in scope.  What typecheck() looks at and what it lets pass is as    *)
(* in the code; how names find their types is not.                          *)
Ill == Type("ill-typed")
RECURSIVE Denoted(_), Static(_, _), StaticBody(_, _)

Denoted(t) == CASE t.kind = "NAME" -> Type(t.name)
                [] t.kind = "FUNC" -> FunctionType([j \in DOMAIN t.types |-> Denoted(t.types[j])], Denoted(t.ret))
                [] OTHER           -> Ill

TypesOf(nodes) ==
  LET declares(d, name) == d.kind \in {"DEF", "EXTERN"} /\ d.name = name
      declaration(name) == CHOOSE d \in ToSet(nodes) : declares(d, name)
  IN  [name \in {d.name : d \in {e \in ToSet(nodes) : e.kind \in {"DEF", "EXTERN"}}} |->
         Denoted(declaration(name).body[1])]

StaticCall(node, env) ==
  LET types == [j \in DOMAIN node.args |-> Static(node.args[j], env)]
      all(S, t) == \A j \in S : j \in DOMAIN types /\ types[j] = t
      f == env[node.callee]
      fixed == {j \in DOMAIN f.args : \A k \in 1..j : f.args[k].type # "..."}
  IN CASE node.callee \in {"+", "-"} ->
            IF Len(types) >= 2 /\ all(DOMAIN types, Type("i32")) THEN Type("i32") ELSE Ill
       [] node.callee \in {"<", ">"} -> IF all({1, 2}, Type("i32")) THEN Type("bool") ELSE Ill
       [] node.callee = "if" -> IF Len(types) = 3 /\ all({1}, Type("bool")) /\ all({3}, types[2])
                                THEN types[2] ELSE Ill
       [] OTHER -> IF /\ node.callee \in DOMAIN env /\ f.type = "function"
                      /\ Len(types) >= Len(f.args)
                      /\ \A j \in fixed : types[j] = f.args[j]
                      /\ IF fixed = DOMAIN f.args THEN Len(types) = Len(f.args)
                         ELSE types[Cardinality(fixed) + 1] # Ill
                   THEN f.ret[1] ELSE Ill

StaticFunc(node, env) ==
  LET type == Denoted(node)
      inside == [j \in ToSet(node.args) |-> type.args[SelectLastInSeq(node.args, LAMBDA a : a = j)]]
      body == StaticBody(node.body, inside @@ env)
  IN  IF body # Ill /\ node.ret.kind = "NAME" /\ type.ret[1] \in {body, Void} THEN type ELSE Ill

Static(node, env) ==
  CASE node.kind = "NUMBER" -> Type("i32")
    [] node.kind = "BOOL"   -> Type("bool")
    [] node.kind = "STRING" -> Type("cstr")
    [] node.kind = "NAME"   -> IF node.name \in DOMAIN env THEN env[node.name] ELSE Ill
    [] node.kind = "CALL"   -> StaticCall(node, env)
    [] node.kind = "VARDEF" ->
         StaticBody(node.body, FoldLeft(LAMBDA e, v : (v.name :> Denoted(v.type[1])) @@ e,
                                        env, node.variables))
    [] node.kind = "FUNC"   -> StaticFunc(node, env)
    [] node.kind = "DEF"    -> StaticBody(node.body, TypesOf(<<node>>) @@ env)
    [] node.kind = "EXTERN" -> Denoted(node.body[1])
    [] OTHER                -> Ill

(* A body is worth its last expression.                                     *)
StaticBody(nodes, env) ==
  LET types == [i \in DOMAIN nodes |-> Static(nodes[i], env)]
      last == SelectLastInSeq(nodes, LAMBDA d : d.kind \notin {"DEF", "EXTERN"})
  IN  IF Ill \in ToSet(types) THEN Ill ELSE IF last = 0 THEN Void ELSE types[last]

(* Where extract_types() looks, names and lists are taken for types; in the  *)
(* arguments of a call it does not look, not even for declarations.         *)
RECURSIVE NamesApart(_)
NamesApart(nodes) ==
  \A d \in ToSet(nodes) : d.kind \notin {"NAME", "LIST"} /\ (d.kind # "CALL" => NamesApart(Children(d)))
NothingDeclaredIn(args) == \A d \in ToSet(Preorder(args)) : d.kind \notin {"VARDEF", "FUNC", "DEF", "EXTERN"}
CallsPlain == \A d \in ToSet(Preorder(ast)) : d.kind = "CALL" => NothingDeclaredIn(d.args)

(* The nodes that stand for types; each should be a name or a function.      *)
RECURSIVE Parts(_)
Parts(t) == {t} \cup IF t.kind = "FUNC" THEN UNION {Parts(u) : u \in ToSet(t.types) \cup {t.ret}} ELSE {}
TypesIn(d) ==
  CASE d.kind = "FUNC"   -> Parts(d) \ {d}
    [] d.kind = "VARDEF" -> UNION {Parts(v.type[1]) : v \in ToSet(d.variables)}
    [] d.kind = "EXTERN" -> Parts(d.body[1])
    [] OTHER             -> {}
AllTypes == UNION {TypesIn(d) : d \in ToSet(Preorder(ast))}
TypesPlain == \A t \in AllTypes : t.kind = "NAME" \/ (t.kind = "FUNC" /\ t.body = <<>>)
TypeNamesKnown == \A t \in AllTypes : t.kind = "NAME" => t.name \in TypeNames

Quiet == stage = "codegen" /\ typecheck(ast, <<>>, tt).quiet
Sure == typecheck(ast, <<>>, tt).sure

-----------------------------------------------------------------------------
Code == [i \in DOMAIN functions |-> functions[i].code]

(* The numbers of the nodes around a node, found by following its pointer to  *)
(* the parent as find_type() of typing.c does, and from the tree itself.     *)
RECURSIVE Pointed(_), Under(_, _)
Pointed(node) == IF node = NoNode THEN <<>>
                 ELSE LET at == memory[node[1]][node[2]] IN Append(Pointed(at.parent), at.id)
Under(xs, around) ==
  UNION {LET node == memory[xs.data][i]
             inside == Append(around, node.id)
         IN  {<<node, around>>} \cup Under(node.ret, inside) \cup Under(node.items, inside)
             \cup UNION {Under(p.type, inside) \cup Under(p.value, inside) : p \in ToSet(node.pairs)}
         : i \in 1..xs.len}
AncestorsRight ==
  LET nodes == Under(stack[1].local, <<>>)
  IN  /\ \A n \in nodes : Pointed(n[1].parent) = n[2]
      /\ {n[1].id : n \in nodes} = 1..Cardinality(nodes)

(* The parser inverts writing: what it accepts is the text of the tree it    *)
(* delivers, and of the programs here, however they are spaced, it accepts   *)
(* every one that ends in white space and delivers just that program.  The   *)
(* pointers to parents lead from each node of it through the numbers of the  *)
(* nodes around, and no two nodes share a number, nor the 0 of what is global. *)
WrittenPrograms == {Written(p) : p \in Programs}
ParsedRight ==
  /\ stage = "extract_types" =>
       /\ Visible(text) = Written(ast)
       /\ Visible(text) \in WrittenPrograms => ast \in Programs
       /\ AncestorsRight
  /\ reading = "stopped" => Last(text) # Space \/ Visible(text) \notin WrittenPrograms

(* A program whose names the generator resolves as its author meant comes   *)
(* out as code that does what the tree says, function by function, and each *)
(* def's function bears that def's name.                                   *)
GeneratedRight ==
  status = "done" /\ Handled =>
    /\ Len(functions) = Len(FunctionNodes)
    /\ \A i \in DOMAIN functions :
         /\ Meaning(functions[i].code, SymbolNames(symbols, data), Inputs)
              = SourceMeaning(FunctionNodes[i], Inputs)
         /\ \E d \in ToSet(Preorder(ast)) :
              d.kind = "DEF" /\ d.body = <<FunctionNodes[i]>> /\ d.name = symbols[functions[i].name]

(* The asserts and TODOs of codegen() stop no program that is well scoped.  *)
OnlyWrongRefused == stage = "codegen" /\ status = "aborted" => ~WellScoped

(* What the jumps of finished code rely on: a label is placed once in the   *)
(* whole program (the assembler sees one name space), behind every jump to  *)
(* it and in the same function, and no two jumps share a label, which is    *)
(* what return_lifting assumes when it looks for "the" jump to the exit.    *)
Jumps(c, l) == {j \in DOMAIN c : \/ c[j].function = "GOTO" /\ c[j].x = l
                                 \/ c[j].function = "BIZ" /\ c[j].y = l}
Labels(c, l) == {k \in DOMAIN c : c[k].function = "LABEL" /\ c[k].x = l}
SingleExitJump ==
  status = "done" =>
    \A l \in 1..branch_id :
      LET users == {i \in DOMAIN Code : Jumps(Code[i], l) \cup Labels(Code[i], l) # {}}
      IN  /\ Cardinality(users) <= 1
          /\ \A i \in users : \E j, k \in DOMAIN Code[i] :
               Jumps(Code[i], l) = {j} /\ Labels(Code[i], l) = {k} /\ j < k

(* Reading a file ends, and so does generating code.                        *)
Terminates == /\ stage = "parse" ~> reading # "reading"
              /\ stage = "codegen" ~> status # "running"

(* The two passes of typing.c, one that files types under node numbers and   *)
(* one that searches the numbers outwards, type every name by the scope it   *)
(* stands in: exactly the programs typed right that way pass in silence,     *)
(* but for names where extract_types() takes them for types.  Nothing is    *)
(* declared inside a call, where extract_types() would not find it, and no   *)
(* call compares with what is behind a buffer of types.                     *)
TypedByScope ==
  status # "running" /\ stage # "not read" /\ CallsPlain /\ TypesPlain /\ Sure =>
    (Quiet <=> NamesApart(ast) /\ TypeNamesKnown /\ StaticBody(ast, TypesOf(ast)) # Ill)

(* What passed in silence, with lets of the type they say, goes right: a     *)
(* function of type i32 returns a number, and what is declared to take a     *)
(* number or a string is never called with the other.  (Calls answer        *)
(* numbers here, so functions of other types are not judged.)               *)
Literal(value) == IF value.kind = "NUMBER" THEN Type("i32")
                  ELSE IF value.kind = "STRING" THEN Type("cstr") ELSE Ill
LetsRight == \A d \in ToSet(Preorder(ast)) : d.kind = "VARDEF" =>
               \A v \in ToSet(d.variables) : Literal(v.value[1]) = Denoted(v.type[1])
Fits(v, t) == /\ t.type = "i32" => IsInt(v)
              /\ t.type = "cstr" => ~IsInt(v)
TypesSound ==
  status # "running" /\ Quiet /\ LetsRight =>
    \A d \in ToSet(ast) : d.kind = "DEF" /\ d.body[1].kind = "FUNC" =>
      LET type == Denoted(d.body[1])
          args == [j \in DOMAIN type.args |->
                     IF type.args[j].type = "i32" THEN IntVal(j) ELSE SymVal("a symbol")]
          r == SourceOutcome(d.body[1], [args |-> args, seed |-> 1])
      IN  /\ type.ret[1].type = "i32" /\ Last(d.body[1].body).kind # "DEF" => IsInt(r.ret)
          /\ \A c \in ToSet(r.trace), name \in DOMAIN TypesOf(ast) : c[1] = SymVal(name) =>
               \A j \in DOMAIN TypesOf(ast)[name].args : Fits(c[2][j], TypesOf(ast)[name].args[j])

(* assert(found) of codegen.c:243 never fails on a name that find_type of   *)
(* typing.c resolves: the parameter of a function around a function keeps   *)
(* its binding when the inner one has a parameter of that name.             *)
NamesFound == stage = "codegen" /\ AtNode("NAME") => Node.name \in DOMAIN variables \cup DOMAIN global_symbols
=============================================================================
