-------------------------- MODULE FoldTemporaries --------------------------
(***************************************************************************)
(* fold_temporaries() of src/src/tac.c, loop by loop: temporaries are        *)
(* renamed to as few registers as a greedy colouring finds.  Each action is  *)
(* one round of a loop (i is its counter) or the step from one to the next.  *)
(***************************************************************************)
EXTENDS RegisterFolding

CONSTANTS
  MaxTemp,      \* the highest temporary; they are numbered in 16 bits
  Codes         \* the instruction sequences to allocate for

Instructions == [result : 0..MaxTemp, function : Ops, x : Nat, y : Nat]

(* The pass sizes its tables by the highest result and indexes them with    *)
(* operands: no operand is higher than every result.                       *)
OperandsCovered(code) ==
  \A k \in DOMAIN code : \A t \in Reads(code[k]) :
    \E j \in DOMAIN code : t <= code[j].result

ASSUME MaxTempAssumption == MaxTemp \in Nat
ASSUME CodesAssumption ==
  \A code \in Codes : code \in Seq(Instructions) /\ OperandsCovered(code)

VARIABLES
  source,       \* the code the pass was given
  tac,          \* the code, rewritten in place
  pc, i,        \* the loop and its counter
  top,          \* the highest result so far: temps_count - 1
  first, last,  \* per temporary, where it is mentioned; -1 if nowhere
  graph,        \* per temporary, the ones it must not share with
  map           \* per temporary, its register; 0 if it has none yet

vars == <<source, tac, pc, i, top, first, last, graph, map>>

Temporaries == 0..top
Places == {-1} \cup (1..Len(source))
(* Mutant: the tables are cleared to 0.                                    *)
NoWhereZero == [t \in Temporaries |-> 0]

NoWhere == [t \in Temporaries |-> -1]

Init ==
  /\ source \in Codes /\ tac = source
  /\ pc = "count" /\ i = 1 /\ top = 0
  /\ first = <<>> /\ last = <<>> /\ graph = <<>> /\ map = <<>>

Begin(loop) == pc' = loop /\ i' = 1
Again == i' = i + 1 /\ UNCHANGED pc

(* count_temps.                                                            *)
Count ==
  /\ pc = "count" /\ i <= Len(tac)
  /\ top' = IF tac[i].result > top THEN tac[i].result ELSE top
  /\ Again
  /\ UNCHANGED <<source, tac, first, last, graph, map>>

AllocateTables ==
  /\ pc = "count" /\ i > Len(tac)
  /\ first' = NoWhere /\ last' = NoWhere
  /\ graph' = [t \in Temporaries |-> {}] /\ map' = [t \in Temporaries |-> 0]
  /\ Begin("usage")
  /\ UNCHANGED <<source, tac, top>>

(* find_first_last_usage.                                                  *)
Usage ==
  /\ pc = "usage" /\ i <= Len(tac)
  /\ LET used == Mentions(tac[i])
     IN  /\ last' = [t \in Temporaries |-> IF t \in used THEN i ELSE last[t]]
         /\ first' = [t \in Temporaries |-> IF t \in used /\ first[t] = -1 THEN i ELSE first[t]]
  /\ Again
  /\ UNCHANGED <<source, tac, top, graph, map>>

UsageDone ==
  /\ pc = "usage" /\ i > Len(tac)
  /\ Begin("graph")
  /\ UNCHANGED <<source, tac, top, first, last, graph, map>>

(* Mutant: ranges that touch do not intersect.                             *)
touching_apart(f1, t1, f2, t2) == ~(t1 <= f2 \/ t2 <= f1)

ranges_intersect(f1, t1, f2, t2) == ~(t1 < f2 \/ t2 < f1)

Neighbours(t) ==
  {u \in 1..top : ranges_intersect(first[t], last[t], first[u], last[u]) /\ t # u}

Graph ==
  /\ pc = "graph" /\ i <= top
  /\ graph' = [graph EXCEPT ![i] = Neighbours(i)]
  /\ Again
  /\ UNCHANGED <<source, tac, top, first, last, map>>

GraphDone ==
  /\ pc = "graph" /\ i > top
  /\ Begin("colour")
  /\ UNCHANGED <<source, tac, top, first, last, graph, map>>

(* Mutant: the search stops one register short.                            *)
FreeShort == {c \in 1..(top - 1) : \A u \in graph[i] : map[u] # c}

(* The lowest register no neighbour has; a neighbour without one yet        *)
(* contributes 0, which is never tried.                                    *)
Free == {c \in 1..top : \A u \in graph[i] : map[u] # c}

(* Without a free one the search ends in UNREACHABLE().                    *)
Colour ==
  /\ pc = "colour" /\ i <= top
  /\ IF Free = {}
     THEN Begin("unreachable") /\ UNCHANGED map
     ELSE Again /\ \E c \in Free : /\ \A d \in Free : c <= d
                                   /\ map' = [map EXCEPT ![i] = c]
  /\ UNCHANGED <<source, tac, top, first, last, graph>>

ColourDone ==
  /\ pc = "colour" /\ i > top
  /\ Begin("remap")
  /\ UNCHANGED <<source, tac, top, first, last, graph, map>>

(* Mutant: the operands keep their numbers.                                *)
RemapResults ==
  /\ pc = "remap" /\ i <= Len(tac)
  /\ tac' = [tac EXCEPT ![i].result = map[@]]
  /\ Again
  /\ UNCHANGED <<source, top, first, last, graph, map>>

Remap ==
  /\ pc = "remap" /\ i <= Len(tac)
  /\ tac' = [tac EXCEPT ![i] = MapTemps(map, @)]
  /\ Again
  /\ UNCHANGED <<source, top, first, last, graph, map>>

RemapDone ==
  /\ pc = "remap" /\ i > Len(tac)
  /\ Begin("done")
  /\ UNCHANGED <<source, tac, top, first, last, graph, map>>

Next == \/ Count \/ AllocateTables \/ Usage \/ UsageDone \/ Graph \/ GraphDone
        \/ Colour \/ ColourDone \/ Remap \/ RemapDone

Spec == Init /\ [][Next]_vars

-----------------------------------------------------------------------------
(* Seen from outside, the pass rewrites all of the code at once.           *)
Allocation == INSTANCE RegisterAllocation WITH
                output <- IF pc = "done" THEN tac ELSE source,
                allocated <- pc = "done"

TypeOK ==
  /\ source \in Codes
  /\ DOMAIN tac = DOMAIN source
  /\ pc \in {"count", "usage", "graph", "colour", "remap", "done", "unreachable"}
  /\ i \in Nat \ {0}
  /\ top \in 0..MaxTemp
  /\ pc # "count" =>
       /\ first \in [Temporaries -> Places]
       /\ last \in [Temporaries -> Places]
       /\ graph \in [Temporaries -> SUBSET (1..top)]
       /\ map \in [Temporaries -> 0..top]

(* The colouring never runs out of registers: the UNREACHABLE() that ends   *)
(* the search in fold_temporaries is unreachable.                          *)
NeverOutOfRegisters == pc # "unreachable"

(* The registers handed out so far keep interfering temporaries apart, for  *)
(* the interference read off the code itself and not off the pass's tables. *)
Separated ==
  pc \in {"remap", "done"} =>
    Allocation!Separates(map, source) /\ Allocation!KeepsResults(map, source)

(* What the loops compute is what the operator computes that the model of    *)
(* the whole compiler uses for this pass.                                  *)
OperatorAgrees == pc = "done" => tac = fold_temporaries(source)

(* fold_temporaries as a whole is a register allocation.                   *)
ImplementsAllocation == Allocation!Spec
=============================================================================
