------------------------------- MODULE Lists -------------------------------
(***************************************************************************)
(* What the dynamic arrays of src/src/da.h promise: each is a list of its    *)
(* own.  Storing through an element's address changes that element, or, if  *)
(* the array has been moved since the address was taken, nothing.           *)
(***************************************************************************)
EXTENDS Naturals, Sequences

CONSTANTS Names, Values

VARIABLE list

Init == list = [a \in Names |-> <<>>]

Extended(old, new) == \E v \in Values : new = Append(old, v)
Popped(old, new) == old # <<>> /\ new = SubSeq(old, 1, Len(old) - 1)
Stored(old, new) == \E k \in DOMAIN old : /\ new = [old EXCEPT ![k] = new[k]]
                                          /\ new[k] \in Values

Next ==
  LET before == list
      after == list'
  IN  \E a \in Names :
        /\ \A b \in Names \ {a} : after[b] = before[b]
        /\ \/ Extended(before[a], after[a])
           \/ Popped(before[a], after[a])
           \/ Stored(before[a], after[a])

Spec == Init /\ [][Next]_list
=============================================================================
