--------------------------- MODULE SourceLanguage --------------------------
(***************************************************************************)
(* The source language, as a reference: what a function means, which the    *)
(* code generator and the whole compiler are checked against, and how a     *)
(* program is written, which the parser is.  Arguments are evaluated from   *)
(* the left; a let binds in its body and nowhere else, as find_type of      *)
(* src/src/typing.c resolves names; a body is worth its last expression, as *)
(* typecheck of the same file types it.                                    *)
(***************************************************************************)
EXTENDS TACSemantics, AST, SequencesExt

(* Every node of a forest, in the order codegen() enters them.             *)
Children(node) ==
  CASE node.kind \in {"DEF", "FUNC"} -> node.body
    [] node.kind = "CALL"   -> node.args
    [] node.kind = "VARDEF" -> FlattenSeq([j \in DOMAIN node.variables |-> node.variables[j].value]) \o node.body
    [] OTHER                -> <<>>

RECURSIVE Preorder(_)
Preorder(nodes) ==
  FlattenSeq([i \in DOMAIN nodes |-> <<nodes[i]>> \o Preorder(Children(nodes[i]))])

(* What the sequences of a set have for elements.                           *)
Elements(orders) ==
  LET longest == Max({Len(s) : s \in orders})
  IN  {s[IF i <= Len(s) THEN i ELSE 1] : s \in orders \ {<<>>}, i \in 1..longest}

(* What the assembly calls each symbol: a string literal has no name but     *)
(* its text.                                                               *)
SymbolNames(symbols, data) ==
  [i \in DOMAIN symbols |->
     IF symbols[i] # "" THEN symbols[i]
     ELSE data[SelectInSeq(data, LAMBDA d : d.name = i)].data]

RECURSIVE Eval(_, _, _, _), EvalAll(_, _, _, _)

Evaluated(v, trace) == [val |-> v, trace |-> trace]
Bound(env, n, v) == [x \in DOMAIN env \cup {n} |-> IF x = n THEN v ELSE env[x]]
ValueOf(env, n) == IF n \in DOMAIN env THEN env[n] ELSE SymVal(n)

(* The values of a list of nodes, in order, and the calls they make.       *)
EvalAll(nodes, env, seed, trace) ==
  IF nodes = <<>> THEN Evaluated(<<>>, trace)
  ELSE LET first == Eval(Head(nodes), env, seed, trace)
           others == EvalAll(Tail(nodes), env, seed, first.trace)
       IN  Evaluated(<<first.val>> \o others.val, others.trace)

EvalCall(node, env, seed, trace) ==
  LET args == EvalAll(node.args, env, seed, trace)
      v == args.val
  IN CASE node.callee = "+" -> Evaluated(FoldLeft(Plus, IntVal(0), v), args.trace)
       [] node.callee = "-" -> Evaluated(Minus(v[1], v[2]), args.trace)
       [] node.callee = "<" -> Evaluated(Less(v[1], v[2]), args.trace)
       [] node.callee = ">" -> Evaluated(Less(v[2], v[1]), args.trace)
       [] OTHER -> LET called == Append(args.trace, <<ValueOf(env, node.callee), v>>)
                   IN  Evaluated(Answer(seed, Len(called)), called)

EvalIf(node, env, seed, trace) ==
  LET c == Eval(node.args[1], env, seed, trace)
  IN  Eval(node.args[IF c.val = IntVal(0) THEN 3 ELSE 2], env, seed, c.trace)

(* A variable may use those before it.                                     *)
EvalLet(node, env, seed, trace) ==
  LET bind(s, v) == LET value == EvalAll(v.value, s.env, seed, s.trace)
                    IN  [env |-> Bound(s.env, v.name, Last(value.val)), trace |-> value.trace]
      bound == FoldLeft(bind, [env |-> env, trace |-> trace], node.variables)
      body == EvalAll(node.body, bound.env, seed, bound.trace)
  IN  Evaluated(Last(body.val), body.trace)

Eval(node, env, seed, trace) ==
  CASE node.kind = "NUMBER" -> Evaluated(IntVal(node.number), trace)
    [] node.kind = "BOOL"   -> Evaluated(IntVal(IF node.boolean THEN 1 ELSE 0), trace)
    [] node.kind = "STRING" -> Evaluated(SymVal(node.string), trace)
    [] node.kind = "NAME"   -> Evaluated(ValueOf(env, node.name), trace)
    [] node.kind = "VARDEF" -> EvalLet(node, env, seed, trace)
    [] node.kind = "CALL" /\ node.callee = "if" -> EvalIf(node, env, seed, trace)
    [] node.kind = "CALL"   -> EvalCall(node, env, seed, trace)
    [] OTHER                -> Evaluated(NoVal, trace)

SourceOutcome(func, in) ==
  LET env == [n \in ToSet(func.args) |->
                in.args[SelectLastInSeq(func.args, LAMBDA a : a = n)]]
      body == EvalAll(func.body, env, in.seed, <<>>)
  IN  [ret |-> IF func.ret_type_void THEN NoVal ELSE Last(body.val),
       trace |-> body.trace, ok |-> TRUE]

SourceMeaning(func, inputs) == [in \in inputs |-> SourceOutcome(func, in)]

-----------------------------------------------------------------------------
(* How programs are written, in the items of the module Lexer.             *)
Item(kind, str) == [kind |-> kind, str |-> str]
Space == Item("space", "")
Sign(b) == <<Item(b, "")>>
Spelled(w) == <<Item("word", w)>>
In(open, inside, close) == Sign(open) \o inside \o Sign(close)
Form(inside) == In("(", inside, ")")
Digits[n \in Nat] == (IF n < 10 THEN <<>> ELSE Digits[n \div 10]) \o <<n % 10>>

(* A list of nodes as items: an argument without a name is a mere type.     *)
RECURSIVE Written(_)
WrittenArg(name, type) == IF name = "" THEN Written(<<type>>) ELSE Form(Spelled(name) \o Written(<<type>>))
WrittenNode(d) ==
  CASE d.kind = "NAME"   -> Spelled(d.name)
    [] d.kind = "BOOL"   -> Spelled(IF d.boolean THEN "true" ELSE "false")
    [] d.kind = "NUMBER" -> <<Item("digits", Digits[d.number])>>
    [] d.kind = "STRING" -> <<Item("string", d.string)>>
    [] d.kind = "LIST"   -> In("[", Written(d.list), "]")
    [] d.kind = "CALL"   -> Form(Spelled(d.callee) \o Written(d.args))
    [] d.kind = "DEF"    -> Form(Spelled("def") \o Spelled(d.name) \o Written(d.body))
    [] d.kind = "EXTERN" -> Form(Spelled("extern") \o Spelled(d.name) \o Written(d.body))
    [] d.kind = "FUNC"   ->
         LET args == FlattenSeq([j \in DOMAIN d.args |-> WrittenArg(d.args[j], d.types[j])])
         IN  Form(Spelled("fn") \o In("[", args, "]") \o Written(<<d.ret>>) \o Written(d.body))
    [] d.kind = "VARDEF" ->
         LET variable(v) == Form(Spelled(v.name) \o Written(v.type) \o Written(v.value))
         IN  Form(Spelled("let") \o In("[", FlattenSeq([j \in DOMAIN d.variables |-> variable(d.variables[j])]), "]")
                  \o Written(d.body))
Written(nodes) == FlattenSeq([i \in DOMAIN nodes |-> WrittenNode(nodes[i])])

(* White space where two items would be one otherwise, and at the end; and   *)
(* white space everywhere.                                                 *)
Merge(s, t) == s.kind \in {"word", "digits"} /\ t.kind \in {"word", "digits"} /\ ~(s.kind = "digits" /\ t.kind = "word")
Tight(items) ==
  FlattenSeq([i \in DOMAIN items |->
    IF i = Len(items) \/ Merge(items[i], items[i + 1]) THEN <<items[i], Space>> ELSE <<items[i]>>])
Loose(items) == <<Space>> \o FlattenSeq([i \in DOMAIN items |-> <<items[i], Space>>])
Visible(items) == SelectSeq(items, LAMBDA i : i.kind # "space")
=============================================================================
