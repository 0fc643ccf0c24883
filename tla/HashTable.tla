----------------------------- MODULE HashTable -----------------------------
(***************************************************************************)
(* The hash table of src/src/da.h: buckets that are dynamic arrays, searched *)
(* from the front.  hms_put, hms_get and hms_rem take strings; hm_put and    *)
(* hm_get do the same with the bytes of any key.  A key is removed by        *)
(* clearing it where it lies: the slot stays, and looks like one of the      *)
(* empty string, which is also a key (a parameter without a name).          *)
(***************************************************************************)
EXTENDS Integers, Sequences

CONSTANTS
  Keys,       \* the names that are looked up: not empty
  Empty,      \* the empty string, and what memset() makes of any key
  Values,
  None,       \* no value: what the abstract map says of an absent key
  Hash,       \* fnv_1() of every key
  Length,     \* buckets (64 in the code)
  MaxSlots    \* bound: fuller buckets are not looked at

ASSUME TableAssumption ==
  /\ Empty \notin Keys /\ None \notin Values
  /\ Length \in Nat \ {0} /\ MaxSlots \in Nat
  /\ Hash \in [Keys \cup {Empty} -> Nat]

VARIABLES
  table,      \* NULL, or a bucket for each index
  answer      \* found and ret of the last look-up

tvars == <<table, answer>>

AllKeys == Keys \cup {Empty}
NULL == <<>>
Indices == 0..(Length - 1)
Slots == [key : AllKeys, value : Values]

Init == table = NULL /\ answer \in [found : {FALSE}, ret : Values]

(* The length is a power of two, so that & masks the remainder.            *)
Index(k) == Hash[k] % Length

(* The table after the first operation that needs one.                     *)
Ready == IF table = NULL THEN [h \in Indices |-> <<>>] ELSE table

Bucket(k) == Ready[Index(k)]

Matches(k) == {i \in DOMAIN Bucket(k) : Bucket(k)[i].key = k}

(* Mutant: nothing is looked for.                                          *)
PresentNever(k) == FALSE

Present(k) == Matches(k) # {}

(* The slot that the search for a present key stops at.                    *)
Place(k) == CHOOSE i \in Matches(k) : \A j \in Matches(k) : i <= j

-----------------------------------------------------------------------------
Get(k) ==
  /\ answer' = IF Present(k) THEN [found |-> TRUE, ret |-> Bucket(k)[Place(k)].value]
                             ELSE [answer EXCEPT !.found = FALSE]
  /\ UNCHANGED table

Put(k, v) ==
  /\ \/ /\ Present(k)
        /\ table' = [Ready EXCEPT ![Index(k)][Place(k)].value = v]
     \/ /\ ~Present(k)
        /\ Len(Bucket(k)) < MaxSlots
        /\ table' = [Ready EXCEPT ![Index(k)] = Append(@, [key |-> k, value |-> v])]
  /\ UNCHANGED answer

(* Mutant: the value is cleared as well as all of the keys behind it.        *)
ClearedFrom(k) ==
  [i \in DOMAIN Bucket(k) |->
     IF i < Place(k) THEN Bucket(k)[i] ELSE [Bucket(k)[i] EXCEPT !.key = Empty]]

Cleared(k) == [Bucket(k) EXCEPT ![Place(k)].key = Empty]

Remove(k) ==
  /\ table' = IF Present(k) THEN [Ready EXCEPT ![Index(k)] = Cleared(k)] ELSE Ready
  /\ UNCHANGED answer

(* The compiler removes and puts the empty string, but never looks it up.    *)
Next ==
  \/ \E k \in Keys : Get(k)
  \/ \E k \in AllKeys : Remove(k) \/ \E v \in Values : Put(k, v)

Spec == Init /\ [][Next]_tvars

-----------------------------------------------------------------------------
TypeOK ==
  /\ table = NULL \/ table \in [Indices -> Seq(Slots)]
  /\ answer \in [found : BOOLEAN, ret : Values]

(* A key that is looked up lies in one slot of the whole table, in the       *)
(* bucket its hash says: else a later put or remove would reach only one of *)
(* the copies, and an old value would come back.                           *)
OneSlotPerKey ==
  \A h, g \in DOMAIN table : \A i \in DOMAIN table[h], j \in DOMAIN table[g] :
    table[h][i].key \in Keys =>
      /\ h = Index(table[h][i].key)
      /\ table[g][j].key = table[h][i].key => g = h /\ j = i

Map == [k \in Keys |-> IF Present(k) THEN Bucket(k)[Place(k)].value ELSE None]

M == INSTANCE KeyValueMap WITH map <- Map

(* Whatever keys collide, and however often one is removed and put again:   *)
(* a look-up finds what was put last, or nothing if that was removed.        *)
ImplementsMap == M!Spec
=============================================================================
