------------------------------ MODULE FrontEnd ------------------------------
(***************************************************************************)
(* compile() of src/src/main.c up to the IR: the declared types are         *)
(* collected, the tree is checked against them, and then code is generated. *)
(***************************************************************************)
EXTENDS Codegen, Typing

VARIABLES
  stage,      \* the call to make next, or "refused"
  tt          \* the type table

fvars == <<vars, stage, tt>>

(* Nothing of the generator's state but the tree is touched by typing.      *)
UnchangedGenerator ==
  UNCHANGED <<heap, current_function, symbols, data, global_symbols, variables,
              args_stack, temp_num, branch_id>>

FrontInit == Init /\ stage = "extract_types" /\ tt = <<>>

Refuse == stage' = "refused" /\ status' = "aborted" /\ UNCHANGED <<ast, work>>

ExtractTypes ==
  /\ stage = "extract_types"
  /\ LET e == extract_types(ast, <<>>, tt)
     IN  /\ tt' = e.tt
         /\ \/ e.ok /\ stage' = "typecheck" /\ UNCHANGED <<ast, work, status>>
            \/ ~e.ok /\ Refuse
  /\ UnchangedGenerator

Typecheck ==
  /\ stage = "typecheck"
  /\ LET t == typecheck(ast, <<>>, tt)
     IN  \/ /\ t.ok /\ stage' = "codegen" /\ UNCHANGED status
            /\ ast' = Annotated(ast, <<>>, tt)
            /\ work' = Visits(ast')
         \/ (~t.ok \/ ~t.sure) /\ Refuse
  /\ UNCHANGED tt /\ UnchangedGenerator

Generate == stage = "codegen" /\ Next /\ UNCHANGED <<stage, tt>>

FrontNext == ExtractTypes \/ Typecheck \/ Generate

(* The calls are made one after the other; only generation takes many steps. *)
FrontSpec == FrontInit /\ [][FrontNext]_fvars /\ WF_fvars(Generate)
=============================================================================
