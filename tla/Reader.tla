------------------------------- MODULE Reader -------------------------------
(***************************************************************************)
(* compile() of src/src/main.c from the file to the IR: the parser reads the *)
(* whole file, then the types are collected and checked and code is          *)
(* generated for the tree it left.                                         *)
(***************************************************************************)
EXTENDS FrontEnd, Parser

rvars == <<fvars, pvars>>

-----------------------------------------------------------------------------
(* The tree compile() goes on with: what the arrays say now.                *)
RECURSIVE TreeOf(_)
NodeOf(n) ==
  LET names == [j \in DOMAIN n.pairs |-> n.pairs[j].name]
      types == [j \in DOMAIN n.pairs |-> TreeOf(n.pairs[j].type)]
      variable(p) == [name |-> p.name, type |-> TreeOf(p.type), value |-> TreeOf(p.value)]
  IN CASE n.kind = "FUNC"   -> TypedFunc(names, [j \in DOMAIN types |-> types[j][1]],
                                         TreeOf(n.ret)[1], TreeOf(n.items))
       [] n.kind = "VARDEF" -> LetOf([j \in DOMAIN n.pairs |-> variable(n.pairs[j])], TreeOf(n.items))
       [] n.kind = "DEF"    -> Def(n.str, TreeOf(n.items))
       [] n.kind = "EXTERN" -> Extern(n.str, TreeOf(n.items)[1])
       [] n.kind = "CALL"   -> Call(n.str, TreeOf(n.items))
       [] n.kind = "LIST"   -> List(TreeOf(n.items))
       [] n.kind = "NAME"   -> Name(n.str)
       [] n.kind = "STRING" -> Str(n.str)
       [] n.kind = "NUMBER" -> Number(n.str)
       [] n.kind = "BOOL"   -> Bool(n.str)
TreeOf(xs) == [i \in 1..xs.len |-> NodeOf(memory[xs.data][i])]

Tree == TreeOf(stack[1].local)

-----------------------------------------------------------------------------
ReadInit == ParseInit /\ Fresh /\ ast = <<>> /\ work = <<>> /\ stage = "parse" /\ tt = <<>>

Parse == stage = "parse" /\ ParseNext /\ UNCHANGED fvars

(* The parser is done, or has stopped the compiler.                        *)
TakeTree ==
  /\ stage = "parse" /\ reading = "read" /\ stage' = "extract_types"
  /\ ast' = Tree /\ work' = Visits(ast')
  /\ UNCHANGED <<status, tt, pvars>> /\ UnchangedGenerator

ParserRefuses ==
  /\ stage = "parse" /\ reading = "stopped"
  /\ stage' = "not read" /\ status' = "aborted"
  /\ UNCHANGED <<ast, work, tt, pvars>> /\ UnchangedGenerator

Compile == FrontNext /\ UNCHANGED pvars

ReadNext == Parse \/ TakeTree \/ ParserRefuses \/ Compile

(* One thread that never waits.  Reading and generating take many steps; the *)
(* rest is one call each.                                                  *)
ReadSpec == /\ ReadInit /\ [][ReadNext]_rvars
            /\ WF_rvars(Parse) /\ WF_rvars(Generate /\ UNCHANGED pvars)
=============================================================================
