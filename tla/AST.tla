-------------------------------- MODULE AST --------------------------------
(***************************************************************************)
(* The syntax tree of src/src/parser.h as records, one constructor per      *)
(* AST_KIND.  A list of nodes (ASTArr) is a sequence.  Types are nodes too:  *)
(* a name, or a function without a body.                                   *)
(***************************************************************************)
EXTENDS Integers, Sequences

Name(n)   == [kind |-> "NAME", name |-> n]
Number(n) == [kind |-> "NUMBER", number |-> n]
Bool(b)   == [kind |-> "BOOL", boolean |-> b]
Str(s)    == [kind |-> "STRING", string |-> s]
List(nodes) == [kind |-> "LIST", list |-> nodes]

(* typecheck() sets ret_type_void.                                         *)
TypedFunc(args, types, ret, body) ==
  [kind |-> "FUNC", args |-> args, types |-> types, ret |-> ret, body |-> body,
   ret_type_void |-> FALSE]
Func(args, body) == TypedFunc(args, [j \in DOMAIN args |-> Name("i32")], Name("i32"), body)
FuncType(types, ret) == TypedFunc([j \in DOMAIN types |-> ""], types, ret, <<>>)

Extern(n, type)    == [kind |-> "EXTERN", name |-> n, body |-> <<type>>]
Def(n, body)       == [kind |-> "DEF", name |-> n, body |-> body]
Call(callee, args) == [kind |-> "CALL", callee |-> callee, args |-> args]
If(c, a, b)        == Call("if", <<c, a, b>>)
LetOf(variables, body) == [kind |-> "VARDEF", variables |-> variables, body |-> body]
TypedLet(n, type, value, body) ==
  LetOf(<<[name |-> n, type |-> <<type>>, value |-> <<value>>]>>, body)
Let(n, value, body) == TypedLet(n, Name("i32"), value, body)
=============================================================================
