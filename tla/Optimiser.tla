------------------------------ MODULE Optimiser ------------------------------
(***************************************************************************)
(* What compile() of src/src/main.c does with the IR before a back end gets *)
(* it: for each function the optimisation loop, the tail call pass (which   *)
(* does nothing), PHI removal and register folding.                        *)
(* peephole_optimization, the first pass of the loop, returns FALSE and     *)
(* leaves the code alone.                                                   *)
(***************************************************************************)
EXTENDS Passes

VARIABLES
  pass,       \* the pass to run next, or "finished"
  fn,         \* i: the function being compiled
  codes,      \* func->code for every function of the IR
  repeat      \* the loop's flag: did a pass of this round change anything

ovars == <<pass, fn, codes, repeat>>

(* Take up the next function, or hand the IR to the back end.              *)
Select(i) ==
  /\ fn' = i /\ repeat' = FALSE
  /\ pass' = IF i > Len(codes') THEN "finished" ELSE "remove_unused"

RunPass(name, result, following) ==
  /\ pass = name
  /\ codes' = [codes EXCEPT ![fn] = result.code]
  /\ repeat' = (repeat \/ result.changed)
  /\ pass' = following
  /\ UNCHANGED fn

RemoveUnused == RunPass("remove_unused", remove_unused(codes[fn]), "constant_propagation")
ConstantPropagation ==
  /\ pass = "constant_propagation" /\ ~ReturnsSymbol(codes[fn])
  /\ RunPass("constant_propagation", constant_propagation(codes[fn]), "return_lifting")
ReturnLifting == RunPass("return_lifting", return_lifting(codes[fn]), "value_numbering")
ValueNumbering == RunPass("value_numbering", value_numbering(codes[fn]), "while")

(* TODO() in constant_propagation.                                         *)
PropagationAborts ==
  /\ pass = "constant_propagation" /\ ReturnsSymbol(codes[fn])
  /\ pass' = "finished"
  /\ UNCHANGED <<fn, codes, repeat>>

While ==
  /\ pass = "while"
  /\ pass' = IF repeat THEN "remove_unused" ELSE "remove_phi"
  /\ repeat' = FALSE
  /\ UNCHANGED <<fn, codes>>

RemovePhi ==
  /\ pass = "remove_phi"
  /\ codes' = [codes EXCEPT ![fn] = remove_phi(@)]
  /\ pass' = "fold_temporaries"
  /\ UNCHANGED <<fn, repeat>>

FoldTemporaries ==
  /\ pass = "fold_temporaries"
  /\ codes' = [codes EXCEPT ![fn] = fold_temporaries(@)]
  /\ Select(fn + 1)

Optimise ==
  \/ RemoveUnused \/ ConstantPropagation \/ ReturnLifting \/ ValueNumbering
  \/ While \/ RemovePhi \/ FoldTemporaries

(* By itself, from an IR that is given.                                     *)
OptimiserInit(given) ==
  /\ codes = given /\ fn = 1 /\ repeat = FALSE
  /\ pass = IF Len(given) = 0 THEN "finished" ELSE "remove_unused"
OptimiserNext == Optimise \/ PropagationAborts
OptimiserSpec(given) == OptimiserInit(given) /\ [][OptimiserNext]_ovars
=============================================================================
