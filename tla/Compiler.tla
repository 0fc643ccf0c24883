------------------------------ MODULE Compiler ------------------------------
(***************************************************************************)
(* compile() of src/src/main.c from the tree to what the back ends get: the *)
(* front end, then the optimiser.                                          *)
(***************************************************************************)
EXTENDS FrontEnd, Optimiser

cvars == <<fvars, ovars>>

CompilerInit ==
  FrontInit /\ pass = "front_end" /\ fn = 0 /\ codes = <<>> /\ repeat = FALSE

CompileTree == pass = "front_end" /\ FrontNext /\ UNCHANGED ovars

BeginOptimisation ==
  /\ pass = "front_end" /\ status = "done"
  /\ codes' = [i \in DOMAIN functions |-> functions[i].code]
  /\ Select(1)
  /\ UNCHANGED fvars

RunOptimiser == Optimise /\ UNCHANGED fvars

(* A TODO() ends the whole compiler.                                       *)
GiveUp ==
  /\ PropagationAborts /\ status' = "aborted"
  /\ UNCHANGED <<ast, work, heap, current_function, args_stack, temp_num, branch_id,
                 symbols, data, global_symbols, variables, stage, tt>>

CompilerNext == CompileTree \/ BeginOptimisation \/ RunOptimiser \/ GiveUp

CompilerSpec == CompilerInit /\ [][CompilerNext]_cvars /\ WF_cvars(CompilerNext)
=============================================================================
