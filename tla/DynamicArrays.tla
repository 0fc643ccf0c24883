--------------------------- MODULE DynamicArrays ---------------------------
(***************************************************************************)
(* The dynamic arrays of src/src/da.h, all in one arena, and what the rest   *)
(* of the compiler does with them: append, pop, and store through the       *)
(* address of an element taken earlier (current_function in codegen.c, def  *)
(* and vars in parser.c).  Memory is bytes: byte n of a value v is <<v, n>>. *)
(***************************************************************************)
EXTENDS Arena, FiniteSets

CONSTANTS
  Names,        \* the arrays
  ElemSize,     \* sizeof an element of each
  Appended(_),  \* what is appended to an array of some length
  Rewritten,    \* what is stored through an address later
  Values,       \* all of these
  Garbage,      \* what is read where none of them was stored
  MaxLen,       \* bound: longer arrays are not looked at
  MaxHeld       \* bound: on the addresses taken

ASSUME ArraysAssumption ==
  /\ ElemSize \in [Names -> Nat \ {0}]
  /\ MaxLen \in [Names -> Nat] /\ MaxHeld \in Nat
  /\ \A a \in Names : \A len \in 0..(MaxLen[a] - 1) : Appended(len) \subseteq Values
  /\ Rewritten \subseteq Values /\ Garbage \notin Values

VARIABLES
  mem,          \* address -> byte, where anything was stored
  arrays,       \* [data, len, capacity]
  held          \* addresses of elements that somebody keeps: [name, block, at]

dvars == <<avars, mem, arrays, held>>

NULL == [block |-> 0, at |-> 0]

Init ==
  /\ ArenaInit
  /\ mem = <<>>
  /\ arrays = [a \in Names |-> [data |-> NULL, len |-> 0, capacity |-> 0]]
  /\ held = {}

-----------------------------------------------------------------------------
Bytes(p, size) == {<<p.block, p.at + n>> : n \in 0..(size - 1)}

(* v written at p, over as many bytes as it has.                           *)
Stored(m, p, size, v) ==
  [x \in DOMAIN m \cup Bytes(p, size) |->
     IF x \in Bytes(p, size) THEN <<v, x[2] - p.at>> ELSE m[x]]

(* memcpy(to, from, size).                                                 *)
Copied(m, to, from, size) ==
  LET source(x) == <<from.block, from.at + (x[2] - to.at)>>
      copies == {x \in Bytes(to, size) : source(x) \in DOMAIN m}
  IN  [x \in DOMAIN m \cup copies |-> IF x \in copies THEN m[source(x)] ELSE m[x]]

(* &xs.data[k - 1]                                                         *)
Element(a, k) ==
  [block |-> arrays[a].data.block, at |-> arrays[a].data.at + (k - 1) * ElemSize[a]]

(* Does memory hold v at p?                                                *)
Holds(p, size, v) ==
  \A n \in 0..(size - 1) :
    /\ <<p.block, p.at + n>> \in DOMAIN mem
    /\ mem[<<p.block, p.at + n>>] = <<v, n>>

-----------------------------------------------------------------------------
Full(xs) == xs.len + 1 > xs.capacity

Doubled(capacity) == IF capacity # 0 THEN capacity * 2 ELSE 4

(* Mutant: only the elements in use but one.                               *)
MovedShort(a, data) ==
  Copied(mem, data, arrays[a].data, ElemSize[a] * (arrays[a].capacity - 1))

(* The old elements at their new place.                                    *)
Moved(a, data) == Copied(mem, data, arrays[a].data, ElemSize[a] * arrays[a].capacity)

da_append(a, v) ==
  LET xs == arrays[a]
      capacity == Doubled(xs.capacity)
      data == Pointer(ElemSize[a] * capacity)
  IN  /\ xs.len < MaxLen[a]
      /\ \/ /\ Full(xs)
            /\ arena_alloc(ElemSize[a] * capacity)
            /\ arrays' = [arrays EXCEPT ![a] =
                            [data |-> data, len |-> xs.len + 1, capacity |-> capacity]]
            /\ mem' = Stored(Moved(a, data),
                             [data EXCEPT !.at = @ + xs.len * ElemSize[a]], ElemSize[a], v)
         \/ /\ ~Full(xs)
            /\ arrays' = [arrays EXCEPT ![a].len = @ + 1]
            /\ mem' = Stored(mem, Element(a, xs.len + 1), ElemSize[a], v)
            /\ UNCHANGED avars
      /\ UNCHANGED held

da_pop(a) ==
  /\ arrays[a].len > 0
  /\ arrays' = [arrays EXCEPT ![a].len = @ - 1]
  /\ UNCHANGED <<avars, mem, held>>

(* Keep the address of the last element.                                   *)
da_last(a) ==
  /\ arrays[a].len > 0 /\ Cardinality(held) < MaxHeld
  /\ LET p == Element(a, arrays[a].len)
     IN  held' = held \cup {[name |-> a, block |-> p.block, at |-> p.at]}
  /\ UNCHANGED <<avars, mem, arrays>>

(* Store through such an address, whatever became of the array.            *)
StoreHeld(h, v) ==
  /\ mem' = Stored(mem, [block |-> h.block, at |-> h.at], ElemSize[h.name], v)
  /\ UNCHANGED <<avars, arrays, held>>

Next ==
  \/ \E a \in Names : \E v \in Appended(arrays[a].len) : da_append(a, v)
  \/ \E a \in Names : da_pop(a) \/ da_last(a)
  \/ \E h \in held, v \in Rewritten : StoreHeld(h, v)

Spec == Init /\ [][Next]_dvars

-----------------------------------------------------------------------------
(* The value an array reads back at each index: the list it stands for.      *)
Contents(a) ==
  [k \in 1..arrays[a].len |->
     LET e == Element(a, k)
         v == mem[<<e.block, e.at>>][1]
     IN  IF Holds(e, ElemSize[a], v) THEN v ELSE Garbage]

L == INSTANCE Lists WITH list <- [a \in Names |-> Contents(a)]

(* Whatever the order of appends to arrays that share an arena, and whoever *)
(* stores through an address he kept, each array is a list of its own.      *)
ImplementsLists == L!Spec
=============================================================================
