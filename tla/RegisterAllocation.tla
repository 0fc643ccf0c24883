------------------------- MODULE RegisterAllocation -------------------------
(***************************************************************************)
(* What register allocation promises the back ends of src/src/targets: the  *)
(* same instructions over registers, where no temporary loses its value     *)
(* between two places that mention it, and 0 still means "no result".       *)
(***************************************************************************)
EXTENDS TAC

CONSTANTS
  MaxTemp,      \* the highest temporary; they are numbered in 16 bits
  Codes         \* the instruction sequences to allocate for

VARIABLES
  source,       \* the code before allocation
  output,       \* the code as it stands
  allocated     \* whether it has been rewritten

Init == source \in Codes /\ output = source /\ allocated = FALSE

Allocate ==
  /\ ~allocated /\ allocated' = TRUE
  /\ \E m \in [0..MaxTemp -> 0..MaxTemp] :
       /\ Separates(m, source) /\ KeepsResults(m, source)
       /\ output' = [i \in DOMAIN source |-> MapTemps(m, source[i])]
  /\ UNCHANGED source

Spec == Init /\ [][Allocate]_<<source, output, allocated>>
=============================================================================
