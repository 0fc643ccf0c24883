---------------------------- MODULE KeyValueMap ----------------------------
(***************************************************************************)
(* What the hash tables of src/src/da.h promise: a map from keys to values,  *)
(* and, for each look-up, an answer.                                        *)
(***************************************************************************)
CONSTANTS Keys, Values, None

VARIABLES
  map,        \* key -> value, or None
  answer      \* of the last look-up: [found, ret]

Init == map = [k \in Keys |-> None] /\ answer \in [found : {FALSE}, ret : Values]

Put(k, v) == map' = [map EXCEPT ![k] = v] /\ UNCHANGED answer
Remove(k) == map' = [map EXCEPT ![k] = None] /\ UNCHANGED answer
Get(k) ==
  /\ answer' = IF map[k] # None THEN [found |-> TRUE, ret |-> map[k]]
                                ELSE [answer EXCEPT !.found = FALSE]
  /\ UNCHANGED map

Next == \E k \in Keys : Get(k) \/ Remove(k) \/ \E v \in Values : Put(k, v)

Spec == Init /\ [][Next]_<<map, answer>>
=============================================================================
