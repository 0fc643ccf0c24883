-------------------------- MODULE MCDynamicArrays --------------------------
(***************************************************************************)
(* Two arrays with elements of two and six bytes, in one arena of small    *)
(* blocks: their first buffers fit a block, the second ones need a block of  *)
(* their own.  One address is kept; every element is told apart until it    *)
(* is stored to again.                                                     *)
(***************************************************************************)
EXTENDS DynamicArrays

CONSTANTS small, large

MCElemSize == [a \in Names |-> IF a = small THEN 2 ELSE 6]
MCAppended(len) == {len + 1}
MCRewritten == {0}
MCValues == 0..5
MCGarbage == -1
MCMaxLen == [a \in Names |-> 5]
=============================================================================
