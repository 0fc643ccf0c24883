----------------------- MODULE FoldTemporariesProofs -----------------------
(***************************************************************************)
(* Proofs about fold_temporaries for every code and every number of          *)
(* temporaries: it never runs out of registers, what it hands out is a       *)
(* register allocation, the code it leaves is the code the operator of the   *)
(* passes gives, and that code means what it meant.                        *)
(***************************************************************************)
EXTENDS FoldTemporaries, PassesProofs, TLAPS

-----------------------------------------------------------------------------
(* The inductive invariant: what each loop has established so far, and what *)
(* the loops behind it have established for good.                          *)

(* The counter stays within one of its loop's bound.                       *)
CounterInv ==
  /\ i \in Nat \ {0}
  /\ pc \in {"count", "usage", "remap"} => i <= Len(source) + 1
  /\ pc \in {"graph", "colour"} => i <= top + 1

Counted == IF pc = "count" THEN 1..(i - 1) ELSE DOMAIN source
CountInv == top \in 0..MaxTemp /\ \A k \in Counted : source[k].result <= top

TablesInv ==
  pc # "count" =>
    /\ first \in [Temporaries -> Places] /\ last \in [Temporaries -> Places]
    /\ graph \in [Temporaries -> SUBSET (1..top)] /\ map \in [Temporaries -> 0..top]

(* first and last enclose every mention seen so far.                       *)
Scanned == IF pc = "usage" THEN 1..(i - 1) ELSE DOMAIN source
UsageInv ==
  pc # "count" =>
    /\ pc = "usage" => \A t \in Temporaries : first[t] < i /\ last[t] < i
    /\ \A k \in Scanned : \A t \in Mentions(source[k]) :
         first[t] # -1 /\ first[t] <= k /\ k <= last[t]

Graphed == IF pc = "graph" THEN 1..(i - 1) ELSE 1..top
GraphInv ==
  pc \in {"graph", "colour", "remap", "done"} =>
    \A t \in Graphed : graph[t] = Neighbours(t)

(* The t-th temporary gets one of the first t registers: its neighbours so  *)
(* far have at most t - 1 of them.                                         *)
Coloured == IF pc = "colour" THEN 1..(i - 1)
            ELSE IF pc \in {"remap", "done"} THEN 1..top ELSE {}
ColourInv ==
  pc \in {"usage", "graph", "colour", "remap", "done"} =>
    /\ \A t \in Temporaries \ Coloured : map[t] = 0
    /\ \A t \in Coloured : 1 <= map[t] /\ map[t] <= t
    /\ \A t, u \in Coloured : u \in graph[t] => map[t] # map[u]

RewriteInv ==
  /\ pc \notin {"remap", "done"} => tac = source
  /\ pc \in {"remap", "done"} =>
       tac = [k \in DOMAIN source |-> IF pc = "remap" /\ k >= i THEN source[k]
                                      ELSE MapTemps(map, source[k])]

PcInv == pc \in {"count", "usage", "graph", "colour", "remap", "done"}

IInv == /\ source \in Codes /\ PcInv /\ CounterInv /\ CountInv /\ TablesInv
        /\ UsageInv /\ GraphInv /\ ColourInv /\ RewriteInv

-----------------------------------------------------------------------------
(* A code is a sequence of instructions, numbered from 1.                  *)
LEMMA CodeShape ==
  ASSUME NEW code \in Codes
  PROVE  /\ Len(code) \in Nat /\ DOMAIN code = 1..Len(code)
         /\ \A k \in DOMAIN code : code[k] \in Instructions
         /\ OperandsCovered(code)
<1>1. code \in Seq(Instructions) /\ OperandsCovered(code)
  BY CodesAssumption
<1>2. QED
  BY <1>1

(* What an instruction mentions are numbers.                               *)
LEMMA MentionsNumbers ==
  ASSUME NEW inst \in Instructions
  PROVE  Reads(inst) \subseteq Nat /\ Mentions(inst) \subseteq Nat
<1>1. inst.x \in Nat /\ inst.y \in Nat /\ inst.result \in Nat
  BY MaxTempAssumption DEF Instructions
<1>2. Reads(inst) \subseteq {inst.x, inst.y}
  BY DEF Reads
<1>3. QED
  BY <1>1, <1>2 DEF Mentions

(* The tables have an entry for everything the code mentions.              *)
LEMMA MentionsInTables ==
  ASSUME NEW code \in Codes, NEW n \in Nat,
         \A k \in DOMAIN code : code[k].result <= n,
         NEW k \in DOMAIN code
  PROVE  Mentions(code[k]) \subseteq 0..n
<1>1. code[k] \in Instructions
  BY CodeShape
<1>2. code[k].result \in 0..n
  BY <1>1, MaxTempAssumption DEF Instructions
<1>3. ASSUME NEW t \in Reads(code[k])
      PROVE  t \in 0..n
  <2>1. PICK j \in DOMAIN code : t <= code[j].result
    BY CodeShape DEF OperandsCovered
  <2>2. code[j].result \in Nat
    BY CodeShape, MaxTempAssumption DEF Instructions
  <2>3. t \in Nat
    BY <1>1, MentionsNumbers
  <2>4. QED
    BY <2>1, <2>2, <2>3
<1>4. QED
  BY <1>2, <1>3 DEF Mentions

-----------------------------------------------------------------------------
(* The invariant holds at the start.                                       *)
LEMMA InitIInv == Init => IInv
<1> SUFFICES ASSUME Init PROVE IInv
  OBVIOUS
<1>1. source \in Codes /\ pc = "count" /\ i = 1 /\ top = 0 /\ tac = source
  BY DEF Init
<1>2. Len(source) \in Nat
  BY <1>1, CodeShape
<1>3. CounterInv
  BY <1>1, <1>2 DEF CounterInv
<1>4. CountInv
  BY <1>1, MaxTempAssumption DEF CountInv, Counted
<1>5. TablesInv /\ UsageInv /\ GraphInv /\ ColourInv /\ RewriteInv /\ PcInv
  BY <1>1 DEF TablesInv, UsageInv, GraphInv, ColourInv, RewriteInv, PcInv
<1>6. QED
  BY <1>1, <1>3, <1>4, <1>5 DEF IInv

-----------------------------------------------------------------------------
(* One lemma per loop: the invariant is kept by its steps.                 *)
LEMMA CountIInv == IInv /\ Count => IInv'
<1> SUFFICES ASSUME IInv, Count PROVE IInv'
  OBVIOUS
<1> USE DEF IInv
<1>1. /\ pc = "count" /\ pc' = "count" /\ i' = i + 1 /\ i <= Len(source)
      /\ UNCHANGED <<source, tac, first, last, graph, map>> /\ tac = source
      /\ top' = IF source[i].result > top THEN source[i].result ELSE top
  BY DEF Count, Again, RewriteInv
<1>2. Len(source) \in Nat /\ DOMAIN source = 1..Len(source) /\ i \in DOMAIN source
  BY <1>1, CodeShape DEF CounterInv
<1>3. \A k \in DOMAIN source : source[k].result \in 0..MaxTemp
  BY CodeShape DEF Instructions
<1>4. CounterInv'
  BY <1>1, <1>2 DEF CounterInv
<1>5. CountInv'
  <2>1. top' \in 0..MaxTemp /\ top <= top' /\ source[i].result <= top'
    BY <1>1, <1>2, <1>3, MaxTempAssumption DEF CountInv
  <2>2. ASSUME NEW k \in 1..i PROVE source[k].result <= top'
    <3>1. k \in 1..(i - 1) \/ k = i
      BY DEF CounterInv
    <3>2. k \in DOMAIN source /\ source[k].result \in Nat /\ top \in Nat
      BY <1>1, <1>2, <1>3, MaxTempAssumption DEF CounterInv, CountInv
    <3>3. CASE k \in 1..(i - 1)
      BY <1>1, <2>1, <3>2, <3>3, MaxTempAssumption DEF CountInv, Counted
    <3>4. QED
      BY <2>1, <3>1, <3>3
  <2>3. QED
    BY <1>1, <2>1, <2>2 DEF CountInv, Counted, CounterInv
<1>6. (TablesInv /\ UsageInv /\ GraphInv /\ ColourInv /\ RewriteInv /\ PcInv)'
  BY <1>1 DEF TablesInv, UsageInv, GraphInv, ColourInv, RewriteInv, PcInv
<1>7. QED
  BY <1>1, <1>4, <1>5, <1>6

LEMMA AllocateTablesIInv == IInv /\ AllocateTables => IInv'
<1> SUFFICES ASSUME IInv, AllocateTables PROVE IInv'
  OBVIOUS
<1> USE DEF IInv
<1>1. /\ pc = "count" /\ pc' = "usage" /\ i' = 1 /\ i > Len(tac) /\ tac = source
      /\ UNCHANGED <<source, tac, top>>
      /\ first' = NoWhere /\ last' = NoWhere
      /\ graph' = [t \in Temporaries |-> {}] /\ map' = [t \in Temporaries |-> 0]
  BY DEF AllocateTables, Begin, RewriteInv
<1>2. Len(source) \in Nat /\ DOMAIN source = 1..Len(source)
  BY <1>1, CodeShape
<1>3. top \in Nat /\ Temporaries' = Temporaries
  BY <1>1, MaxTempAssumption DEF CountInv, Temporaries
<1>4. CounterInv'
  BY <1>1, <1>2 DEF CounterInv
<1>5. CountInv'
  <2>1. DOMAIN source \subseteq 1..(i - 1)
    BY <1>1, <1>2 DEF CounterInv
  <2>2. QED
    BY <1>1, <2>1 DEF CountInv, Counted
<1>6. TablesInv'
  BY <1>1, <1>3 DEF TablesInv, NoWhere, Temporaries, Places
<1>7. UsageInv'
  BY <1>1, <1>3 DEF UsageInv, Scanned, NoWhere
<1>8. ColourInv'
  BY <1>1, <1>3 DEF ColourInv, Coloured
<1>9. (GraphInv /\ RewriteInv /\ PcInv)'
  BY <1>1 DEF GraphInv, RewriteInv, PcInv
<1>10. QED
  BY <1>1, <1>4, <1>5, <1>6, <1>7, <1>8, <1>9

LEMMA UsageIInv == IInv /\ Usage => IInv'
<1> SUFFICES ASSUME IInv, Usage PROVE IInv'
  OBVIOUS
<1> USE DEF IInv
<1> DEFINE used == Mentions(source[i])
<1>1. /\ pc = "usage" /\ pc' = "usage" /\ i' = i + 1 /\ i <= Len(source)
      /\ UNCHANGED <<source, tac, top, graph, map>> /\ tac = source
      /\ last' = [t \in Temporaries |-> IF t \in used THEN i ELSE last[t]]
      /\ first' = [t \in Temporaries |-> IF t \in used /\ first[t] = -1 THEN i ELSE first[t]]
  BY DEF Usage, Again, RewriteInv
<1>2. Len(source) \in Nat /\ DOMAIN source = 1..Len(source) /\ i \in DOMAIN source
  BY <1>1, CodeShape DEF CounterInv
<1>3. top \in Nat /\ Temporaries' = Temporaries
  BY <1>1, MaxTempAssumption DEF CountInv, Temporaries
<1>4. first \in [Temporaries -> Int] /\ last \in [Temporaries -> Int] /\ i \in Nat \ {0}
  <2>1. Places \subseteq Int
    BY <1>2 DEF Places
  <2>2. QED
    BY <1>1, <2>1 DEF TablesInv, CounterInv
<1>5. CounterInv'
  BY <1>1, <1>2 DEF CounterInv
<1>6. CountInv'
  BY <1>1 DEF CountInv, Counted
<1>7. TablesInv'
  <2>1. first \in [Temporaries -> Places] /\ last \in [Temporaries -> Places] /\ i \in Places
    BY <1>1, <1>2 DEF TablesInv, Places
  <2>2. Places' = Places
    BY <1>1 DEF Places
  <2>3. /\ graph \in [Temporaries -> SUBSET (1..top)] /\ map \in [Temporaries -> 0..top]
    BY <1>1 DEF TablesInv, Places
  <2>4. first' \in [Temporaries -> Places] /\ last' \in [Temporaries -> Places]
    BY <1>1, <2>1
  <2>5. QED
    BY <1>1, <1>3, <2>2, <2>3, <2>4 DEF TablesInv, Places
<1>8. UsageInv'
  <2>1. ASSUME NEW t \in Temporaries
        PROVE  /\ first'[t] < i + 1 /\ last'[t] < i + 1
               /\ first[t] # -1 => first'[t] = first[t]
               /\ last[t] <= last'[t]
               /\ t \in used => first'[t] # -1 /\ first'[t] <= i /\ i <= last'[t]
    <3>1. first[t] < i /\ last[t] < i /\ first[t] \in Int /\ last[t] \in Int
      BY <1>1, <1>4 DEF UsageInv
    <3>2. /\ last'[t] = IF t \in used THEN i ELSE last[t]
          /\ first'[t] = IF t \in used /\ first[t] = -1 THEN i ELSE first[t]
      BY <1>1
    <3>3. QED
      BY <1>4, <3>1, <3>2
  <2>2. ASSUME NEW k \in 1..i, NEW t \in Mentions(source[k])
        PROVE  first'[t] # -1 /\ first'[t] <= k /\ k <= last'[t]
    <3>1. k \in DOMAIN source
      BY <1>1, <1>2
    <3>2. t \in Temporaries
      BY <1>1, <1>3, <3>1, MentionsInTables DEF CountInv, Counted, Temporaries
    <3>3. CASE k = i
      BY <2>1, <3>2, <3>3
    <3>4. CASE k \in 1..(i - 1)
      <4>1. first[t] # -1 /\ first[t] <= k /\ k <= last[t]
        BY <1>1, <3>4 DEF UsageInv, Scanned
      <4>2. first'[t] \in Int /\ last'[t] \in Int /\ last[t] \in Int
        BY <1>1, <1>4, <3>2
      <4>3. QED
        BY <2>1, <3>2, <4>1, <4>2
    <3>5. QED
      BY <1>4, <3>3, <3>4
  <2>3. Scanned' = 1..i
    BY <1>1, <1>4 DEF Scanned
  <2>4. \A k \in Scanned' : \A t \in Mentions(source'[k]) :
          first'[t] # -1 /\ first'[t] <= k /\ k <= last'[t]
    BY <1>1, <2>2, <2>3
  <2>5. \A t \in Temporaries' : first'[t] < i' /\ last'[t] < i'
    BY <1>1, <1>3, <2>1
  <2>6. QED
    BY <2>4, <2>5 DEF UsageInv
<1>9. ColourInv'
  BY <1>1, <1>3 DEF ColourInv, Coloured
<1>10. (GraphInv /\ RewriteInv /\ PcInv)'
  BY <1>1 DEF GraphInv, RewriteInv, PcInv
<1>11. QED
  BY <1>1, <1>5, <1>6, <1>7, <1>8, <1>9, <1>10

LEMMA UsageDoneIInv == IInv /\ UsageDone => IInv'
<1> SUFFICES ASSUME IInv, UsageDone PROVE IInv'
  OBVIOUS
<1> USE DEF IInv
<1>1. /\ pc = "usage" /\ pc' = "graph" /\ i' = 1 /\ i > Len(source) /\ tac = source
      /\ UNCHANGED <<source, tac, top, first, last, graph, map>>
  BY DEF UsageDone, Begin, RewriteInv
<1>2. Len(source) \in Nat /\ DOMAIN source = 1..Len(source)
  BY <1>1, CodeShape
<1>3. top \in Nat /\ Temporaries' = Temporaries
  BY <1>1, MaxTempAssumption DEF CountInv, Temporaries
<1>a. CounterInv' /\ CountInv'
  BY <1>1, <1>2, <1>3 DEF CounterInv, CountInv, Counted
<1>4. TablesInv'
  BY <1>1, <1>3 DEF TablesInv, Places
<1>5. UsageInv'
  <2>1. DOMAIN source \subseteq 1..(i - 1)
    BY <1>1, <1>2 DEF CounterInv
  <2>2. QED
    BY <1>1, <1>3, <2>1 DEF UsageInv, Scanned
<1>6. ColourInv'
  BY <1>1, <1>3 DEF ColourInv, Coloured
<1>7. GraphInv'
  BY <1>1 DEF GraphInv, Graphed
<1>8. (RewriteInv /\ PcInv)'
  BY <1>1 DEF RewriteInv, PcInv
<1>9. QED
  BY <1>1, <1>a, <1>4, <1>5, <1>6, <1>7, <1>8

LEMMA GraphIInv == IInv /\ Graph => IInv'
<1> SUFFICES ASSUME IInv, Graph PROVE IInv'
  OBVIOUS
<1> USE DEF IInv
<1>1. /\ pc = "graph" /\ pc' = "graph" /\ i' = i + 1 /\ i <= top /\ tac = source
      /\ UNCHANGED <<source, tac, top, first, last, map>>
      /\ graph' = [graph EXCEPT ![i] = Neighbours(i)]
  BY DEF Graph, Again, RewriteInv
<1>2. top \in Nat /\ Temporaries' = Temporaries /\ i \in 1..top /\ i \in Temporaries
  BY <1>1, MaxTempAssumption DEF CountInv, Temporaries, CounterInv
<1>3. \A t : Neighbours(t)' = Neighbours(t)
  BY <1>1 DEF Neighbours
<1>4. CounterInv' /\ CountInv'
  BY <1>1, <1>2 DEF CounterInv, CountInv, Counted
<1>5. TablesInv'
  BY <1>1, <1>2 DEF TablesInv, Places, Neighbours
<1>6. UsageInv'
  BY <1>1, <1>2 DEF UsageInv, Scanned
<1>7. GraphInv'
  <2>1. ASSUME NEW t \in 1..i PROVE graph'[t] = Neighbours(t)
    <3>1. t \in Temporaries
      BY <1>2 DEF Temporaries
    <3>5. graph \in [Temporaries -> SUBSET (1..top)]
      BY <1>1 DEF TablesInv, Places
    <3>2. CASE t = i
      BY <1>1, <3>1, <3>5, <3>2
    <3>3. CASE t \in 1..(i - 1)
      BY <1>1, <1>2, <3>1, <3>5, <3>3 DEF GraphInv, Graphed
    <3>4. QED
      BY <1>2, <3>2, <3>3
  <2>2. QED
    BY <1>1, <1>2, <1>3, <2>1 DEF GraphInv, Graphed
<1>8. ColourInv'
  BY <1>1, <1>2 DEF ColourInv, Coloured
<1>9. (RewriteInv /\ PcInv)'
  BY <1>1 DEF RewriteInv, PcInv
<1>10. QED
  BY <1>1, <1>4, <1>5, <1>6, <1>7, <1>8, <1>9

LEMMA GraphDoneIInv == IInv /\ GraphDone => IInv'
<1> SUFFICES ASSUME IInv, GraphDone PROVE IInv'
  OBVIOUS
<1> USE DEF IInv
<1>1. /\ pc = "graph" /\ pc' = "colour" /\ i' = 1 /\ i > top /\ tac = source
      /\ UNCHANGED <<source, tac, top, first, last, graph, map>>
  BY DEF GraphDone, Begin, RewriteInv
<1>2. top \in Nat /\ Temporaries' = Temporaries /\ \A t : Neighbours(t)' = Neighbours(t)
  BY <1>1, MaxTempAssumption DEF CountInv, Temporaries, Neighbours
<1>3. CounterInv' /\ CountInv' /\ TablesInv'
  BY <1>1, <1>2 DEF CounterInv, CountInv, Counted, TablesInv, Places
<1>4. UsageInv'
  BY <1>1, <1>2 DEF UsageInv, Scanned
<1>5. GraphInv'
  BY <1>1, <1>2 DEF GraphInv, Graphed, CounterInv
<1>6. ColourInv'
  BY <1>1, <1>2 DEF ColourInv, Coloured
<1>7. (RewriteInv /\ PcInv)'
  BY <1>1 DEF RewriteInv, PcInv
<1>8. QED
  BY <1>1, <1>3, <1>4, <1>5, <1>6, <1>7

(* The t-th temporary is not out of luck: no neighbour has register t yet.  *)
LEMMA RegisterFree ==
  ASSUME IInv, pc = "colour", i <= top
  PROVE  i \in Free
<1>1. top \in Nat /\ i \in 1..top /\ i \in Nat
  BY MaxTempAssumption DEF IInv, CountInv, CounterInv
<1>2. Coloured = 1..(i - 1)
  BY DEF Coloured
<1>3. /\ \A t \in Temporaries \ Coloured : map[t] = 0
      /\ \A t \in Coloured : 1 <= map[t] /\ map[t] <= t
  BY DEF IInv, ColourInv
<1>4. graph \in [Temporaries -> SUBSET (1..top)] /\ map \in [Temporaries -> 0..top]
  BY DEF IInv, TablesInv
<1>5. ASSUME NEW u \in graph[i] PROVE map[u] # i
  <2>1. u \in Temporaries /\ i \in Temporaries
    BY <1>1, <1>4 DEF Temporaries
  <2>2. CASE u \in Coloured
    <3>1. map[u] <= u /\ map[u] \in Nat /\ u \in 1..(i - 1)
      BY <1>1, <1>2, <1>3, <1>4, <2>1, <2>2
    <3>2. QED
      BY <1>1, <3>1
  <2>3. CASE u \notin Coloured
    <3>1. map[u] = 0
      BY <1>3, <2>1, <2>3
    <3>2. QED
      BY <1>1, <3>1
  <2>4. QED
    BY <2>2, <2>3
<1>6. QED
  BY <1>1, <1>5 DEF Free

LEMMA ColourIInv == IInv /\ Colour => IInv'
<1> SUFFICES ASSUME IInv, Colour PROVE IInv'
  OBVIOUS
<1> USE DEF IInv
<1>0. Free # {}
  BY RegisterFree DEF Colour
<1>1. /\ pc = "colour" /\ pc' = "colour" /\ i' = i + 1 /\ i <= top /\ tac = source
      /\ UNCHANGED <<source, tac, top, first, last, graph>>
  BY <1>0 DEF Colour, Again, RewriteInv
<1>2. PICK c \in Free : (\A d \in Free : c <= d) /\ map' = [map EXCEPT ![i] = c]
  BY <1>0 DEF Colour
<1>3. top \in Nat /\ Temporaries' = Temporaries /\ i \in 1..top /\ i \in Temporaries
  BY <1>1, MaxTempAssumption DEF CountInv, Temporaries, CounterInv
<1>4. c \in 1..top /\ c <= i /\ \A u \in graph[i] : map[u] # c
  BY <1>1, <1>2, RegisterFree DEF Free
<1>5. graph \in [Temporaries -> SUBSET (1..top)] /\ map \in [Temporaries -> 0..top]
  BY <1>1 DEF TablesInv, Places
<1>6. CounterInv' /\ CountInv'
  BY <1>1, <1>3 DEF CounterInv, CountInv, Counted
<1>7. TablesInv'
  BY <1>1, <1>2, <1>3, <1>4, <1>5 DEF TablesInv, Places
<1>8. UsageInv'
  BY <1>1, <1>3 DEF UsageInv, Scanned
<1>9. \A t \in 1..top : graph[t] = Neighbours(t)
  BY <1>1 DEF GraphInv, Graphed
<1>10. GraphInv'
  BY <1>1, <1>9 DEF GraphInv, Graphed, Neighbours
<1>11. ColourInv'
  <2>1. Coloured' = 1..i /\ Coloured = 1..(i - 1) /\ Coloured' = Coloured \cup {i}
    BY <1>1, <1>3 DEF Coloured
  <2>2. \A t \in Temporaries : map'[t] = IF t = i THEN c ELSE map[t]
    BY <1>2, <1>3, <1>5
  <2>3. \A t \in Temporaries' \ Coloured' : map'[t] = 0
    BY <1>1, <1>3, <2>1, <2>2 DEF ColourInv
  <2>4. \A t \in Coloured' : 1 <= map'[t] /\ map'[t] <= t
    <3> SUFFICES ASSUME NEW t \in Coloured' PROVE 1 <= map'[t] /\ map'[t] <= t
      OBVIOUS
    <3>1. t \in Temporaries
      BY <1>3, <2>1 DEF Temporaries
    <3>2. QED
      BY <1>1, <1>4, <2>1, <2>2, <3>1 DEF ColourInv
  <2>5. ASSUME NEW t \in Coloured', NEW u \in Coloured', u \in graph'[t]
        PROVE  map'[t] # map'[u]
    <3>1. t \in 1..top /\ u \in 1..top /\ t \in Temporaries /\ u \in Temporaries
      BY <1>3, <2>1 DEF Temporaries
    <3>2. t # u /\ u \in graph[t] /\ t \in graph[u]
      BY <1>1, <1>9, <2>5, <3>1 DEF Neighbours, ranges_intersect
    <3>3. CASE t = i
      BY <1>4, <2>2, <3>1, <3>2, <3>3
    <3>4. CASE u = i
      BY <1>4, <2>2, <3>1, <3>2, <3>4
    <3>5. CASE t # i /\ u # i
      BY <1>1, <2>1, <2>2, <3>1, <3>2, <3>5 DEF ColourInv
    <3>6. QED
      BY <3>3, <3>4, <3>5
  <2>6. QED
    BY <2>3, <2>4, <2>5 DEF ColourInv
<1>12. (RewriteInv /\ PcInv)'
  BY <1>1 DEF RewriteInv, PcInv
<1>13. QED
  BY <1>1, <1>6, <1>7, <1>8, <1>10, <1>11, <1>12

LEMMA ColourDoneIInv == IInv /\ ColourDone => IInv'
<1> SUFFICES ASSUME IInv, ColourDone PROVE IInv'
  OBVIOUS
<1> USE DEF IInv
<1>1. /\ pc = "colour" /\ pc' = "remap" /\ i' = 1 /\ i > top /\ tac = source
      /\ UNCHANGED <<source, tac, top, first, last, graph, map>>
  BY DEF ColourDone, Begin, RewriteInv
<1>2. top \in Nat /\ Temporaries' = Temporaries /\ \A t : Neighbours(t)' = Neighbours(t)
  BY <1>1, MaxTempAssumption DEF CountInv, Temporaries, Neighbours
<1>3. Len(source) \in Nat /\ DOMAIN source = 1..Len(source) /\ source \in Seq(Instructions)
  BY CodeShape, CodesAssumption
<1>4. CounterInv' /\ CountInv'
  BY <1>1, <1>3 DEF CounterInv, CountInv, Counted
<1>5. TablesInv'
  BY <1>1, <1>2 DEF TablesInv, Places
<1>6. UsageInv'
  BY <1>1, <1>2 DEF UsageInv, Scanned
<1>7. GraphInv'
  BY <1>1, <1>2 DEF GraphInv, Graphed
<1>8. Coloured' = 1..top /\ Coloured = 1..top
  BY <1>1, <1>2 DEF Coloured, CounterInv
<1>9. ColourInv'
  BY <1>1, <1>2, <1>8 DEF ColourInv
<1>10. RewriteInv'
  <2>1. source = [k \in DOMAIN source |-> source[k]]
    BY <1>3
  <2>2. \A k \in DOMAIN source : k >= 1
    BY <1>3
  <2>3. QED
    BY <1>1, <2>1, <2>2 DEF RewriteInv
<1>11. PcInv'
  BY <1>1 DEF PcInv
<1>12. QED
  BY <1>1, <1>4, <1>5, <1>6, <1>7, <1>9, <1>10, <1>11

LEMMA RemapIInv == IInv /\ Remap => IInv'
<1> SUFFICES ASSUME IInv, Remap PROVE IInv'
  OBVIOUS
<1> USE DEF IInv
<1>1. /\ pc = "remap" /\ pc' = "remap" /\ i' = i + 1 /\ i <= Len(tac)
      /\ UNCHANGED <<source, top, first, last, graph, map>>
      /\ tac' = [tac EXCEPT ![i] = MapTemps(map, @)]
  BY DEF Remap, Again
<1>2. Len(source) \in Nat /\ DOMAIN source = 1..Len(source)
  BY CodeShape
<1>3. tac = [k \in DOMAIN source |-> IF k >= i THEN source[k] ELSE MapTemps(map, source[k])]
  BY <1>1 DEF RewriteInv
<1>4. Len(tac) = Len(source) /\ i \in DOMAIN source /\ i \in Nat
  BY <1>1, <1>2, <1>3 DEF CounterInv
<1>5. RewriteInv'
  <2>1. tac'= [k \in DOMAIN source |-> IF k >= i + 1 THEN source[k]
                                       ELSE MapTemps(map, source[k])]
    BY <1>1, <1>2, <1>3, <1>4
  <2>2. QED
    BY <1>1, <2>1 DEF RewriteInv
<1>6. top \in Nat /\ Temporaries' = Temporaries /\ \A t : Neighbours(t)' = Neighbours(t)
  BY <1>1, MaxTempAssumption DEF CountInv, Temporaries, Neighbours
<1>7. CounterInv' /\ CountInv'
  BY <1>1, <1>2, <1>4 DEF CounterInv, CountInv, Counted
<1>8. TablesInv'
  BY <1>1, <1>6 DEF TablesInv, Places
<1>9. UsageInv'
  BY <1>1, <1>6 DEF UsageInv, Scanned
<1>10. GraphInv'
  BY <1>1, <1>6 DEF GraphInv, Graphed
<1>11. ColourInv'
  BY <1>1, <1>6 DEF ColourInv, Coloured
<1>12. PcInv'
  BY <1>1 DEF PcInv
<1>13. QED
  BY <1>1, <1>5, <1>7, <1>8, <1>9, <1>10, <1>11, <1>12

LEMMA RemapDoneIInv == IInv /\ RemapDone => IInv'
<1> SUFFICES ASSUME IInv, RemapDone PROVE IInv'
  OBVIOUS
<1> USE DEF IInv
<1>1. /\ pc = "remap" /\ pc' = "done" /\ i' = 1 /\ i > Len(tac)
      /\ UNCHANGED <<source, tac, top, first, last, graph, map>>
  BY DEF RemapDone, Begin
<1>2. Len(source) \in Nat /\ DOMAIN source = 1..Len(source)
  BY CodeShape
<1>3. tac = [k \in DOMAIN source |-> IF k >= i THEN source[k] ELSE MapTemps(map, source[k])]
  BY <1>1 DEF RewriteInv
<1>4. Len(tac) = Len(source)
  BY <1>2, <1>3
<1>5. \A k \in DOMAIN source : ~(k >= i)
  BY <1>1, <1>2, <1>4 DEF CounterInv
<1>6. RewriteInv'
  BY <1>1, <1>3, <1>5 DEF RewriteInv
<1>7. top \in Nat /\ Temporaries' = Temporaries /\ \A t : Neighbours(t)' = Neighbours(t)
  BY <1>1, MaxTempAssumption DEF CountInv, Temporaries, Neighbours
<1>8. CounterInv' /\ CountInv'
  BY <1>1, <1>2 DEF CounterInv, CountInv, Counted
<1>9. TablesInv'
  BY <1>1, <1>7 DEF TablesInv, Places
<1>10. UsageInv'
  BY <1>1, <1>7 DEF UsageInv, Scanned
<1>11. GraphInv'
  BY <1>1, <1>7 DEF GraphInv, Graphed
<1>12. ColourInv'
  BY <1>1, <1>7 DEF ColourInv, Coloured
<1>13. PcInv'
  BY <1>1 DEF PcInv
<1>14. QED
  BY <1>1, <1>6, <1>8, <1>9, <1>10, <1>11, <1>12, <1>13

(* Every step keeps the invariant, and so does a step of anything else.     *)
LEMMA InductiveIInv == IInv /\ [Next]_vars => IInv'
<1> SUFFICES ASSUME IInv, [Next]_vars PROVE IInv'
  OBVIOUS
<1>1. CASE Count
  BY <1>1, CountIInv
<1>2. CASE AllocateTables
  BY <1>2, AllocateTablesIInv
<1>3. CASE Usage
  BY <1>3, UsageIInv
<1>4. CASE UsageDone
  BY <1>4, UsageDoneIInv
<1>5. CASE Graph
  BY <1>5, GraphIInv
<1>6. CASE GraphDone
  BY <1>6, GraphDoneIInv
<1>7. CASE Colour
  BY <1>7, ColourIInv
<1>8. CASE ColourDone
  BY <1>8, ColourDoneIInv
<1>9. CASE Remap
  BY <1>9, RemapIInv
<1>10. CASE RemapDone
  BY <1>10, RemapDoneIInv
<1>11. CASE UNCHANGED vars
  <2>1. UNCHANGED <<source, tac, pc, i, top, first, last, graph, map>>
    BY <1>11 DEF vars
  <2>2. (PcInv /\ CounterInv /\ CountInv /\ RewriteInv)' /\ source' \in Codes
    BY <2>1 DEF IInv, PcInv, CounterInv, CountInv, Counted, RewriteInv
  <2>3. (TablesInv /\ UsageInv /\ ColourInv)'
    BY <2>1 DEF IInv, TablesInv, Temporaries, Places, UsageInv, Scanned, ColourInv, Coloured
  <2>4. GraphInv'
    BY <2>1 DEF IInv, GraphInv, Graphed, Neighbours
  <2>5. QED
    BY <2>2, <2>3, <2>4 DEF IInv
<1>12. QED
  BY <1>1, <1>2, <1>3, <1>4, <1>5, <1>6, <1>7, <1>8, <1>9, <1>10, <1>11 DEF Next

LEMMA IInvAlways == Spec => []IInv
<1>1. QED
  BY InitIInv, InductiveIInv, PTL DEF Spec

-----------------------------------------------------------------------------
(* The pass's variables have their types: in particular the tables of       *)
(* fold_temporaries are only ever indexed where they were allocated.        *)
THEOREM TypeCorrect == Spec => []TypeOK
<1>1. ASSUME IInv PROVE TypeOK
  <2>1. source \in Codes /\ PcInv /\ i \in Nat \ {0} /\ top \in 0..MaxTemp
    BY <1>1 DEF IInv, CounterInv, CountInv
  <2>2. DOMAIN tac = DOMAIN source
    BY <1>1 DEF IInv, RewriteInv, PcInv
  <2>3. QED
    BY <1>1, <2>1, <2>2 DEF IInv, TypeOK, PcInv, TablesInv
<1>2. QED
  BY <1>1, IInvAlways, PTL

(* The UNREACHABLE() that ends the search for a register in                *)
(* fold_temporaries is unreachable, whatever the code.                     *)
THEOREM RegistersSuffice == Spec => []NeverOutOfRegisters
<1>1. ASSUME IInv PROVE NeverOutOfRegisters
  BY <1>1 DEF IInv, PcInv, NeverOutOfRegisters
<1>2. QED
  BY <1>1, IInvAlways, PTL

-----------------------------------------------------------------------------
(* The abstract specification reads instructions as this one does.          *)
LEMMA SameReading ==
  ASSUME NEW inst
  PROVE  /\ Allocation!Mentions(inst) = Mentions(inst)
         /\ \A m : Allocation!MapTemps(m, inst) = MapTemps(m, inst)
<1>1. Allocation!BinaryOps = BinaryOps /\ Allocation!UnaryOps = UnaryOps
  BY DEF Allocation!BinaryOps, BinaryOps, Allocation!UnaryOps, UnaryOps
<1>2. Allocation!Reads(inst) = Reads(inst)
  BY <1>1 DEF Allocation!Reads, Reads
<1>3. \A m : Allocation!MapTemps(m, inst) = MapTemps(m, inst)
  BY <1>1 DEF Allocation!MapTemps, MapTemps
<1>4. QED
  BY <1>2, <1>3 DEF Allocation!Mentions, Mentions

(* Temporaries with overlapping usage ranges are in each other's graph.     *)
LEMMA MapSeparates ==
  ASSUME IInv, pc \in {"remap", "done"}
  PROVE  Allocation!Separates(map, source) /\ Allocation!KeepsResults(map, source)
<1> USE DEF IInv
<1>1. top \in Nat /\ Coloured = 1..top /\ Scanned = DOMAIN source /\ Graphed = 1..top
  BY MaxTempAssumption DEF CountInv, Coloured, Scanned, Graphed
<1>2. /\ Len(source) \in Nat /\ DOMAIN source = 1..Len(source)
      /\ \A k \in DOMAIN source : Mentions(source[k]) \subseteq 0..top
  <2>1. \A k \in DOMAIN source : source[k].result <= top
    BY DEF CountInv, Counted
  <2>2. QED
    BY <1>1, <2>1, CodeShape, MentionsInTables
<1>3. first \in [Temporaries -> Int] /\ last \in [Temporaries -> Int] /\ map \in [Temporaries -> 0..top]
  BY <1>2 DEF TablesInv, Places
<1>4. map[0] = 0 /\ \A t \in 1..top : 1 <= map[t]
  BY <1>1 DEF ColourInv, Temporaries
<1>5. ASSUME NEW j \in DOMAIN source, NEW k \in DOMAIN source, NEW n \in DOMAIN source,
             j <= k, k <= n,
             NEW t \in Mentions(source[j]) \cap Mentions(source[n]),
             NEW u \in Mentions(source[k]), t # u
      PROVE  map[t] # map[u]
  <2>1. t \in 0..top /\ u \in 0..top /\ t \in Temporaries /\ u \in Temporaries
    BY <1>2, <1>5 DEF Temporaries
  <2>2. CASE t = 0 \/ u = 0
    BY <1>4, <1>5, <2>1, <2>2, <1>3
  <2>3. CASE t \in 1..top /\ u \in 1..top
    <3>1. first[t] <= j /\ n <= last[t] /\ first[u] <= k /\ k <= last[u]
      BY <1>1, <1>5 DEF UsageInv
    <3>2. ranges_intersect(first[t], last[t], first[u], last[u])
      BY <1>2, <1>3, <1>5, <2>1, <3>1 DEF ranges_intersect
    <3>3. u \in Neighbours(t)
      BY <1>5, <2>3, <3>2 DEF Neighbours
    <3>4. QED
      BY <1>1, <2>3, <3>3 DEF GraphInv, ColourInv
  <2>4. QED
    BY <2>1, <2>2, <2>3
<1>6. Allocation!Separates(map, source)
  BY <1>5, SameReading DEF Allocation!Separates
<1>7. Allocation!KeepsResults(map, source)
  <2>1. ASSUME NEW k \in DOMAIN source, NEW t \in Mentions(source[k]), map[t] = 0
        PROVE  t = 0
    <3>1. t \in 0..top
      BY <1>2, <2>1
    <3>2. t \notin 1..top
      BY <1>4, <2>1
    <3>3. QED
      BY <1>1, <3>1, <3>2
  <2>2. QED
    BY <1>4, <2>1, SameReading DEF Allocation!KeepsResults
<1>8. QED
  BY <1>6, <1>7

(* Two temporaries one of which is still needed where the other is          *)
(* mentioned never get the same register from fold_temporaries.             *)
THEOREM ColouringSeparates == Spec => []Separated
<1>1. ASSUME IInv PROVE Separated
  BY <1>1, MapSeparates DEF Separated
<1>2. QED
  BY <1>1, IInvAlways, PTL

-----------------------------------------------------------------------------
(* The renaming of the abstract step is the pass's map, with 0 for the      *)
(* temporaries above the tables, which the code does not mention.           *)
LEMMA MapAllocates ==
  ASSUME IInv, pc \in {"remap", "done"}
  PROVE  \E m \in [0..MaxTemp -> 0..MaxTemp] :
           /\ Allocation!Separates(m, source) /\ Allocation!KeepsResults(m, source)
           /\ \A k \in DOMAIN source : MapTemps(m, source[k]) = MapTemps(map, source[k])
<1> DEFINE m == [t \in 0..MaxTemp |-> IF t \in 0..top THEN map[t] ELSE 0]
<1>1. top \in 0..MaxTemp /\ map \in [0..top -> 0..top] /\ MaxTemp \in Nat
  BY MaxTempAssumption DEF IInv, CountInv, TablesInv, Temporaries
<1>2. m \in [0..MaxTemp -> 0..MaxTemp] /\ \A t \in 0..top : m[t] = map[t]
  BY <1>1
<1>3. \A k \in DOMAIN source : Mentions(source[k]) \subseteq 0..top
  <2>1. source \in Codes /\ \A k \in DOMAIN source : source[k].result <= top
    BY DEF IInv, CountInv, Counted
  <2>2. QED
    BY <1>1, <2>1, MentionsInTables
<1>4. \A k \in DOMAIN source : \A t \in Mentions(source[k]) : m[t] = map[t]
  BY <1>2, <1>3
<1> HIDE DEF m
<1>5. Allocation!Separates(m, source)
  BY <1>4, MapSeparates, SameReading DEF Allocation!Separates
<1>6. Allocation!KeepsResults(m, source)
  <2>1. m[0] = map[0]
    BY <1>1, <1>2
  <2>2. QED
    BY <1>4, <2>1, MapSeparates, SameReading DEF Allocation!KeepsResults
<1>7. \A k \in DOMAIN source : MapTemps(m, source[k]) = MapTemps(map, source[k])
  <2> SUFFICES ASSUME NEW k \in DOMAIN source
               PROVE  MapTemps(m, source[k]) = MapTemps(map, source[k])
    OBVIOUS
  <2>1. \A t \in Mentions(source[k]) : m[t] = map[t]
    BY <1>4
  <2> DEFINE inst == source[k]
  <2>2. m[inst.result] = map[inst.result]
    <3>1. 0 \in 0..top /\ m[0] = map[0]
      BY <1>1, <1>2
    <3>2. CASE inst.result # 0
      <4>1. inst.result \in Mentions(source[k])
        BY <3>2 DEF Mentions
      <4>2. QED
        BY <2>1, <4>1
    <3>3. CASE inst.result = 0
      BY <3>1, <3>3
    <3>4. QED
      BY <3>2, <3>3
  <2>3. \A t \in Reads(source[k]) : m[t] = map[t]
    BY <2>1 DEF Mentions
  <2>4. inst.function \in BinaryOps \cup UnaryOps => m[inst.x] = map[inst.x]
    BY <2>3 DEF Reads
  <2>5. inst.function \in BinaryOps => m[inst.y] = map[inst.y]
    BY <2>3 DEF Reads, BinaryOps, UnaryOps
  <2>6. (IF inst.function \in BinaryOps \cup UnaryOps THEN m[inst.x] ELSE inst.x)
          = (IF inst.function \in BinaryOps \cup UnaryOps THEN map[inst.x] ELSE inst.x)
    BY <2>4
  <2>7. (IF inst.function \in BinaryOps THEN m[inst.y] ELSE inst.y)
          = (IF inst.function \in BinaryOps THEN map[inst.y] ELSE inst.y)
    BY <2>5
  <2>8. inst \in Instructions
    BY CodeShape DEF IInv
  <2> HIDE DEF inst
  <2>9. MapTemps(m, inst) = MapTemps(map, inst)
    BY <2>2, <2>6, <2>7, <2>8 DEF MapTemps, Instructions
  <2>10. QED
    BY <2>9 DEF inst
<1>8. QED
  BY <1>2, <1>5, <1>6, <1>7

LEMMA InitAllocation == Init => Allocation!Init
<1>1. QED
  BY DEF Init, Allocation!Init

(* The step out of the last loop allocates; every other step, which changes *)
(* neither the source nor what is seen of the output, is a stutter.         *)
LEMMA NextAllocation ==
  IInv /\ IInv' /\ [Next]_vars =>
    [Allocation!Allocate]_<<source, IF pc = "done" THEN tac ELSE source, pc = "done">>
<1> SUFFICES ASSUME IInv, IInv', [Next]_vars
             PROVE  [Allocation!Allocate]_<<source, IF pc = "done" THEN tac ELSE source,
                                            pc = "done">>
  OBVIOUS
<1>1. CASE RemapDone
  <2>1. /\ pc = "remap" /\ pc' = "done"
        /\ UNCHANGED <<source, tac, map>>
    BY <1>1 DEF RemapDone, Begin
  <2>2. PICK m \in [0..MaxTemp -> 0..MaxTemp] :
           /\ Allocation!Separates(m, source) /\ Allocation!KeepsResults(m, source)
           /\ \A k \in DOMAIN source : MapTemps(m, source[k]) = MapTemps(map, source[k])
    BY <2>1, MapAllocates
  <2>3. tac' = [k \in DOMAIN source |-> MapTemps(map, source[k])]
    BY <2>1 DEF IInv, RewriteInv
  <2>4. tac' = [k \in DOMAIN source |-> Allocation!MapTemps(m, source[k])]
    BY <2>2, <2>3, SameReading
  <2>5. Allocation!Allocate
    BY <2>1, <2>2, <2>4 DEF Allocation!Allocate
  <2>6. QED
    BY <2>5
<1>2. CASE ~RemapDone
  <2>1. source' = source
    BY <1>2 DEF Next, vars, Count, AllocateTables, Usage, UsageDone, Graph, GraphDone,
                Colour, ColourDone, Remap
  <2>2. pc' = pc \/ (pc # "done" /\ pc' # "done")
    BY <1>2 DEF Next, vars, Count, AllocateTables, Usage, UsageDone, Graph, GraphDone,
                Colour, ColourDone, Remap, Begin, Again
  <2>3. pc = "done" => tac' = tac
    BY <1>2 DEF Next, vars, Count, AllocateTables, Usage, UsageDone, Graph, GraphDone,
                Colour, ColourDone, Remap
  <2>4. QED
    BY <2>1, <2>2, <2>3
<1>3. QED
  BY <1>1, <1>2

(* fold_temporaries, loop by loop, implements the register allocation the   *)
(* back ends rely on.                                                      *)
THEOREM AllocationImplemented == Spec => ImplementsAllocation
<1>1. QED
  BY InitAllocation, NextAllocation, IInvAlways, PTL
     DEF Spec, ImplementsAllocation, Allocation!Spec

-----------------------------------------------------------------------------
(* What the loops compute exactly: top is a result, first and last are       *)
(* mentions, and a register is not passed over without a reason.            *)
HighestInv == top = 0 \/ \E k \in Counted : source[k].result = top

EndsInv ==
  pc # "count" => \A t \in Temporaries :
    /\ first[t] # -1 => first[t] \in Scanned /\ t \in Mentions(source[first[t]])
    /\ last[t] # -1 => last[t] \in Scanned /\ t \in Mentions(source[last[t]])

LeastInv ==
  \A t \in Coloured : \A c \in 1..(map[t] - 1) : \E u \in graph[t] : u < t /\ map[u] = c

ExactInv == HighestInv /\ EndsInv /\ LeastInv

LEMMA InitExact == Init => ExactInv
BY DEF Init, ExactInv, HighestInv, EndsInv, LeastInv, Coloured

LEMMA CountExact == IInv /\ ExactInv /\ Count => ExactInv'
<1> SUFFICES ASSUME IInv, ExactInv, Count PROVE ExactInv'
  OBVIOUS
<1>1. /\ pc = "count" /\ pc' = "count" /\ i' = i + 1 /\ i <= Len(source)
      /\ UNCHANGED source /\ tac = source /\ i \in Nat \ {0}
      /\ top' = IF source[i].result > top THEN source[i].result ELSE top
  BY DEF IInv, Count, Again, RewriteInv, CounterInv
<1>2. HighestInv'
  <2>1. Counted' = 1..i /\ Counted = 1..(i - 1) /\ i \in 1..i
    BY <1>1 DEF Counted
  <2>2. CASE top' = top
    BY <1>1, <2>1, <2>2 DEF ExactInv, HighestInv
  <2>3. CASE top' = source[i].result
    BY <1>1, <2>1, <2>3 DEF HighestInv
  <2>4. QED
    BY <1>1, <2>2, <2>3
<1>3. EndsInv' /\ LeastInv'
  BY <1>1 DEF EndsInv, LeastInv, Coloured
<1>4. QED
  BY <1>2, <1>3 DEF ExactInv

LEMMA AllocateTablesExact == IInv /\ ExactInv /\ AllocateTables => ExactInv'
<1> SUFFICES ASSUME IInv, ExactInv, AllocateTables PROVE ExactInv'
  OBVIOUS
<1>1. /\ pc = "count" /\ pc' = "usage" /\ i > Len(source)
      /\ UNCHANGED <<source, tac, top>>
      /\ first' = NoWhere /\ last' = NoWhere
  BY DEF AllocateTables, Begin, IInv, RewriteInv
<1>2. Counted \subseteq Counted'
  <2>1. Len(source) \in Nat /\ DOMAIN source = 1..Len(source) /\ i \in Nat \ {0} /\ i <= Len(source) + 1
    BY <1>1, CodeShape DEF IInv, CounterInv
  <2>2. QED
    BY <1>1, <2>1 DEF Counted
<1>3. HighestInv'
  BY <1>1, <1>2 DEF ExactInv, HighestInv
<1>4. EndsInv' /\ LeastInv'
  BY <1>1 DEF EndsInv, LeastInv, Coloured, NoWhere, Temporaries
<1>5. QED
  BY <1>3, <1>4 DEF ExactInv

LEMMA UsageExact == IInv /\ ExactInv /\ Usage => ExactInv'
<1> SUFFICES ASSUME IInv, ExactInv, Usage PROVE ExactInv'
  OBVIOUS
<1>1. /\ pc = "usage" /\ pc' = "usage" /\ i' = i + 1 /\ i \in Nat \ {0}
      /\ UNCHANGED <<source, tac, top, graph, map>> /\ tac = source
      /\ last' = [t \in Temporaries |-> IF t \in Mentions(source[i]) THEN i ELSE last[t]]
      /\ first' = [t \in Temporaries |->
                     IF t \in Mentions(source[i]) /\ first[t] = -1 THEN i ELSE first[t]]
  BY DEF Usage, Again, IInv, RewriteInv, CounterInv
<1>2. HighestInv'
  BY <1>1 DEF ExactInv, HighestInv, Counted
<1>3. EndsInv'
  <2>1. Scanned' = 1..i /\ Scanned = 1..(i - 1) /\ Scanned \subseteq Scanned' /\ i \in Scanned'
    BY <1>1 DEF Scanned
  <2>2. Temporaries' = Temporaries
    BY <1>1 DEF Temporaries
  <2>3. ASSUME NEW t \in Temporaries
        PROVE  /\ first'[t] # -1 => first'[t] \in Scanned' /\ t \in Mentions(source[first'[t]])
               /\ last'[t] # -1 => last'[t] \in Scanned' /\ t \in Mentions(source[last'[t]])
    <3>1. /\ first[t] # -1 => first[t] \in Scanned /\ t \in Mentions(source[first[t]])
          /\ last[t] # -1 => last[t] \in Scanned /\ t \in Mentions(source[last[t]])
      BY <1>1 DEF ExactInv, EndsInv
    <3>2. /\ last'[t] = IF t \in Mentions(source[i]) THEN i ELSE last[t]
          /\ first'[t] = IF t \in Mentions(source[i]) /\ first[t] = -1 THEN i ELSE first[t]
      BY <1>1
    <3>3. QED
      BY <2>1, <3>1, <3>2
  <2>4. QED
    BY <1>1, <2>2, <2>3 DEF EndsInv
<1>4. LeastInv'
  BY <1>1 DEF LeastInv, Coloured
<1>5. QED
  BY <1>2, <1>3, <1>4 DEF ExactInv

(* The steps that change neither the tables nor the registers, but may move *)
(* on to the next loop.                                                    *)
LEMMA QuietExact ==
  ASSUME IInv, ExactInv, pc # "count", pc' # "count",
         UNCHANGED <<source, top, first, last, map>>,
         Scanned' = Scanned, Coloured' = Coloured,
         \A t \in Coloured : graph'[t] = graph[t]
  PROVE  ExactInv'
<1>1. Counted' = Counted /\ Temporaries' = Temporaries
  BY DEF Counted, Temporaries
<1>2. HighestInv' /\ EndsInv'
  BY <1>1 DEF ExactInv, HighestInv, EndsInv
<1>3. LeastInv'
  BY DEF ExactInv, LeastInv
<1>4. QED
  BY <1>2, <1>3 DEF ExactInv

LEMMA QuietSteps ==
  IInv /\ ExactInv /\ (UsageDone \/ Graph \/ GraphDone \/ ColourDone \/ Remap \/ RemapDone) => ExactInv'
<1> SUFFICES ASSUME IInv, ExactInv, UsageDone \/ Graph \/ GraphDone \/ ColourDone \/ Remap \/ RemapDone
             PROVE  ExactInv'
  OBVIOUS
<1>1. top \in Nat /\ i \in Nat \ {0}
  BY MaxTempAssumption DEF IInv, CountInv, CounterInv
<1>2. UNCHANGED <<source, top, first, last, map>> /\ pc # "count" /\ pc' # "count"
  BY DEF UsageDone, Graph, GraphDone, ColourDone, Remap, RemapDone, Begin, Again
<1>3. Scanned' = Scanned
  <2>1. CASE UsageDone
    <3>1. tac = source /\ pc = "usage" /\ pc' = "graph" /\ i > Len(source) /\ i <= Len(source) + 1
      BY <2>1 DEF UsageDone, Begin, IInv, RewriteInv, CounterInv
    <3>2. Len(source) \in Nat /\ DOMAIN source = 1..Len(source)
      BY CodeShape DEF IInv
    <3>3. QED
      BY <1>1, <1>2, <3>1, <3>2 DEF Scanned
  <2>2. CASE Graph \/ GraphDone \/ ColourDone \/ Remap \/ RemapDone
    BY <1>2, <2>2 DEF Graph, GraphDone, ColourDone, Remap, RemapDone, Begin, Again, Scanned
  <2>3. QED
    BY <2>1, <2>2
<1>4. Coloured' = Coloured
  <2>1. CASE UsageDone \/ Graph \/ Remap \/ RemapDone
    BY <1>2, <2>1 DEF UsageDone, Graph, Remap, RemapDone, Begin, Again, Coloured
  <2>2. CASE GraphDone
    BY <1>1, <1>2, <2>2 DEF GraphDone, Begin, Coloured
  <2>3. CASE ColourDone
    <3>1. pc = "colour" /\ pc' = "remap" /\ i > top /\ i <= top + 1
      BY <2>3 DEF ColourDone, Begin, IInv, CounterInv
    <3>2. QED
      BY <1>1, <1>2, <3>1 DEF Coloured
  <2>4. QED
    BY <2>1, <2>2, <2>3
<1>5. \A t \in Coloured : graph'[t] = graph[t]
  BY DEF UsageDone, Graph, GraphDone, ColourDone, Remap, RemapDone, Coloured
<1>6. QED
  BY <1>2, <1>3, <1>4, <1>5, QuietExact

LEMMA ColourExact == IInv /\ ExactInv /\ Colour => ExactInv'
<1> SUFFICES ASSUME IInv, ExactInv, Colour PROVE ExactInv'
  OBVIOUS
<1>0. Free # {}
  BY RegisterFree DEF Colour
<1>1. /\ pc = "colour" /\ pc' = "colour" /\ i' = i + 1 /\ i <= top
      /\ UNCHANGED <<source, tac, top, first, last, graph>>
  BY <1>0 DEF Colour, Again
<1>2. PICK c \in Free : (\A d \in Free : c <= d) /\ map' = [map EXCEPT ![i] = c]
  BY <1>0 DEF Colour
<1>3. /\ top \in Nat /\ i \in 1..top /\ i \in Nat
      /\ graph \in [Temporaries -> SUBSET (1..top)] /\ map \in [Temporaries -> 0..top]
  BY <1>1, MaxTempAssumption DEF IInv, CountInv, CounterInv, TablesInv
<1>4. c \in 1..top /\ Temporaries = 0..top
  BY <1>2 DEF Free, Temporaries
<1>5. Coloured = 1..(i - 1) /\ Coloured' = 1..i
  BY <1>1, <1>3 DEF Coloured
<1>6. \A u \in 0..top : map'[u] = IF u = i THEN c ELSE map[u]
  BY <1>2, <1>3, <1>4
<1>7. ASSUME NEW t \in 1..i, NEW d \in 1..(map'[t] - 1)
      PROVE  \E u \in graph[t] : u < t /\ map'[u] = d
  <2>1. CASE t = i
    <3>0. map'[t] = c
      BY <1>3, <1>6, <2>1
    <3>1. d \in 1..(c - 1)
      BY <1>7, <3>0
    <3>2. d \in 1..top /\ d \notin Free
      BY <1>2, <1>3, <1>4, <3>1
    <3>3. PICK u \in graph[i] : map[u] = d
      BY <3>2 DEF Free
    <3>4. u \in 1..top /\ u # i
      <4>1. graph[i] = Neighbours(i)
        BY <1>1, <1>3 DEF IInv, GraphInv, Graphed
      <4>2. QED
        BY <4>1 DEF Neighbours
    <3>5. u \in Coloured
      <4>1. u \in Temporaries /\ map[u] # 0
        BY <1>4, <3>1, <3>3, <3>4
      <4>2. QED
        BY <1>1, <4>1 DEF IInv, ColourInv
    <3>6. u < i /\ map'[u] = d
      BY <1>3, <1>5, <1>6, <3>3, <3>4, <3>5
    <3>7. QED
      BY <2>1, <3>6
  <2>2. CASE t # i
    <3>1. t \in 1..(i - 1) /\ map'[t] = map[t]
      BY <1>3, <1>6, <2>2
    <3>2. PICK u \in graph[t] : u < t /\ map[u] = d
      BY <1>5, <1>7, <3>1 DEF ExactInv, LeastInv
    <3>3. u \in 0..top /\ u # i
      BY <1>3, <1>4, <3>1, <3>2
    <3>4. QED
      BY <1>6, <3>2, <3>3
  <2>3. QED
    BY <2>1, <2>2
<1>8. LeastInv'
  BY <1>1, <1>5, <1>7 DEF LeastInv
<1>9. HighestInv' /\ EndsInv'
  BY <1>1 DEF ExactInv, HighestInv, EndsInv, Counted, Scanned, Temporaries
<1>10. QED
  BY <1>8, <1>9 DEF ExactInv

LEMMA InductiveExact == IInv /\ ExactInv /\ [Next]_vars => ExactInv'
<1> SUFFICES ASSUME IInv, ExactInv, [Next]_vars PROVE ExactInv'
  OBVIOUS
<1>1. CASE UNCHANGED vars
  BY <1>1 DEF vars, ExactInv, HighestInv, EndsInv, LeastInv, Counted, Scanned, Coloured, Temporaries
<1>2. QED
  BY <1>1, CountExact, AllocateTablesExact, UsageExact, QuietSteps, ColourExact DEF Next

LEMMA ExactAlways == Spec => []ExactInv
BY InitExact, InductiveExact, IInvAlways, PTL DEF Spec

-----------------------------------------------------------------------------
(* The code the pass is given is code in the sense of the passes.          *)
LEMMA SourceIsCode == ASSUME NEW code \in Codes PROVE code \in Code
<1>1. code \in Seq(Instructions)
  BY CodesAssumption
<1>2. Instructions \subseteq Instruction
  BY MaxTempAssumption DEF Instructions, Instruction
<1>3. QED
  BY <1>1, <1>2 DEF Code

(* The first loop counts the temporaries.                                  *)
LEMMA TopIsCount ==
  ASSUME IInv, ExactInv, pc # "count"
  PROVE  top \in Nat /\ top = count_temps(source)
<1> DEFINE all == {0} \cup Results(source)
<1>1. /\ source \in Code /\ top \in Nat
      /\ \A k \in DOMAIN source : source[k].result \in Nat /\ source[k].result <= top
  <2>1. source \in Codes /\ top \in Nat
    BY MaxTempAssumption DEF IInv, CountInv
  <2>2. \A k \in DOMAIN source : source[k].result <= top
    BY DEF IInv, CountInv, Counted
  <2>3. \A k \in DOMAIN source : source[k].result \in Nat
    BY <2>1, CodeShape, MaxTempAssumption DEF Instructions
  <2>4. QED
    BY <2>1, <2>2, <2>3, SourceIsCode
<1>2. all \subseteq 0..top /\ all # {}
  BY <1>1 DEF Results
<1>3. top \in all
  BY DEF ExactInv, HighestInv, Counted, Results
<1> HIDE DEF all
<1>4. Max(all) \in all /\ \A y \in all : Max(all) >= y
  BY <1>1, <1>2, MaxIs
<1>5. Max(all) = top
  <2>1. Max(all) \in 0..top /\ Max(all) >= top
    BY <1>2, <1>3, <1>4
  <2>2. QED
    BY <1>1, <2>1
<1>6. QED
  BY <1>1, <1>5 DEF count_temps, all

(* The second one finds the first and the last mention.                    *)
LEMMA UsageIsExact ==
  ASSUME IInv, ExactInv, pc \in {"graph", "colour", "remap", "done"}, NEW t \in Temporaries
  PROVE  first[t] = FirstUse(source, t) /\ last[t] = LastUse(source, t)
<1> DEFINE places == MentionedAt(source, t)
<1>1. Len(source) \in Nat /\ DOMAIN source = 1..Len(source)
  BY CodeShape DEF IInv
<1>2. places \subseteq 1..Len(source) /\ \A k \in 1..Len(source) : k \in places <=> t \in Mentions(source[k])
  BY <1>1 DEF MentionedAt
<1>3. /\ first[t] # -1 => first[t] \in places
      /\ last[t] # -1 => last[t] \in places
  BY <1>1, <1>2 DEF ExactInv, EndsInv, Scanned
<1>4. \A k \in places : first[t] # -1 /\ first[t] <= k /\ k <= last[t]
  BY <1>1, <1>2 DEF IInv, UsageInv, Scanned
<1>5. first[t] \in Places /\ last[t] \in Places
  BY DEF IInv, TablesInv
<1>6. CASE places = {}
  BY <1>3, <1>6 DEF FirstUse, LastUse
<1>7. CASE places # {}
  <2>1. FirstUse(source, t) = Min(places) /\ LastUse(source, t) = Max(places)
    BY <1>7 DEF FirstUse, LastUse
  <2> HIDE DEF places
  <2>2. places \subseteq Nat /\ places \subseteq 0..Len(source)
    BY <1>1, <1>2
  <2>3. Min(places) \in places /\ \A y \in places : Min(places) <= y
    BY <1>7, <2>2, MinIs
  <2>4. Max(places) \in places /\ \A y \in places : Max(places) >= y
    BY <1>1, <1>7, <2>2, MaxIs
  <2>5. PICK f, l : f = first[t] /\ l = last[t]
    OBVIOUS
  <2>6. \A k \in places : f # -1 /\ f <= k /\ k <= l
    BY <1>4, <2>5
  <2>7. (f # -1 => f \in places) /\ (l # -1 => l \in places)
    BY <1>3, <2>5
  <2>8. f \in places
    BY <1>7, <2>6, <2>7
  <2>9. l # -1
    BY <1>1, <2>2, <2>6, <2>8
  <2>10. PICK a, b : a = Min(places) /\ b = Max(places)
    OBVIOUS
  <2>11. a \in places /\ b \in places /\ \A y \in places : a <= y /\ b >= y
    BY <2>3, <2>4, <2>10
  <2>12. l \in places
    BY <2>7, <2>9
  <2>13. f = a
    BY <2>2, <2>6, <2>8, <2>11
  <2>14. l = b
    BY <2>2, <2>6, <2>11, <2>12
  <2>15. QED
    BY <2>1, <2>5, <2>10, <2>13, <2>14
<1>8. QED
  BY <1>6, <1>7

(* So the graph is the interference read off the code,                     *)
LEMMA GraphIsInterference ==
  ASSUME IInv, ExactInv, pc \in {"colour", "remap", "done"}, NEW t \in 1..top
  PROVE  graph[t] = {u \in 1..top : Interfere(source, t, u)}
<1>1. top \in Nat /\ 1..top \subseteq Temporaries
  BY MaxTempAssumption DEF IInv, CountInv, Temporaries
<1>2. graph[t] = Neighbours(t)
  BY DEF IInv, GraphInv, Graphed
<1>3. \A u \in 1..top : first[u] = FirstUse(source, u) /\ last[u] = LastUse(source, u)
  BY <1>1, UsageIsExact
<1>4. QED
  BY <1>2, <1>3 DEF Neighbours, ranges_intersect, Interfere

(* and the registers are the ones the greedy colouring of it gives.        *)
LEMMA MapIsGreedy ==
  ASSUME IInv, ExactInv, pc = "done"
  PROVE  Greedy(source, top, map)
<1>1. top \in Nat /\ map \in [0..top -> 0..top] /\ Temporaries = 0..top /\ Coloured = 1..top
  BY MaxTempAssumption DEF IInv, CountInv, TablesInv, Temporaries, Coloured
<1>2. map \in [0..top -> Nat] /\ map[0] = 0
  BY <1>1 DEF IInv, ColourInv
<1>3. ASSUME NEW t \in 1..top PROVE Fits(source, t, map)
  <2>1. graph[t] = {u \in 1..top : Interfere(source, t, u)}
    BY GraphIsInterference
  <2>2. map[t] \in 1..t
    BY <1>1, <1>2 DEF IInv, ColourInv
  <2>3. ASSUME NEW u \in 1..(t - 1), Interfere(source, t, u) PROVE map[u] # map[t]
    <3>1. u \in 1..top /\ u \in graph[t]
      BY <1>1, <2>1, <2>3
    <3>2. QED
      BY <1>1, <3>1 DEF IInv, ColourInv
  <2>4. ASSUME NEW d \in 1..(map[t] - 1)
        PROVE  \E u \in 1..(t - 1) : Interfere(source, t, u) /\ map[u] = d
    <3>1. PICK u \in graph[t] : u < t /\ map[u] = d
      BY <1>1 DEF ExactInv, LeastInv
    <3>2. u \in 1..(t - 1) /\ Interfere(source, t, u)
      BY <1>1, <2>1, <3>1
    <3>3. QED
      BY <3>1, <3>2
  <2>5. QED
    BY <2>2, <2>3, <2>4 DEF Fits
<1>4. QED
  BY <1>2, <1>3 DEF Greedy

(* At the end, the code is what the operator gives.                        *)
LEMMA EndAgrees == IInv /\ ExactInv => OperatorAgrees
<1> SUFFICES ASSUME IInv, ExactInv, pc = "done" PROVE tac = fold_temporaries(source)
  BY DEF OperatorAgrees
<1>1. source \in Code /\ tac = [k \in DOMAIN source |-> MapTemps(map, source[k])]
  BY SourceIsCode DEF IInv, RewriteInv
<1>2. top \in Nat /\ top = count_temps(source)
  BY TopIsCount
<1>3. PICK m : /\ Greedy(source, count_temps(source), m)
               /\ fold_temporaries(source) = [k \in DOMAIN source |-> MapTemps(m, source[k])]
  BY <1>1, FoldIs
<1>4. Greedy(source, top, map)
  BY MapIsGreedy
<1>5. map = m
  BY <1>2, <1>3, <1>4, GreedyUnique
<1>6. QED
  BY <1>1, <1>3, <1>5

(* The loops of fold_temporaries leave the code the operator of the same    *)
(* name gives: for every code, what is checked and proved of the operator   *)
(* as one pass of the compiler is so of the loops.                         *)
THEOREM OperatorAgreed == Spec => []OperatorAgrees
<1>1. IInv /\ ExactInv => OperatorAgrees
  BY EndAgrees
<1>2. QED
  BY <1>1, IInvAlways, ExactAlways, PTL

-----------------------------------------------------------------------------
(* What the loops leave behind means what they were given, for code without *)
(* PHI that reads no temporary before it is set.                           *)
KeepsMeaning(symbols, inputs) ==
  /\ pc = "done" /\ ReadsResults(source)
  /\ NoPhi(source)
  /\ \A in \in inputs : ReadsSet(source, symbols, in)
  => Meaning(tac, symbols, inputs) = Meaning(source, symbols, inputs)

LEMMA EndKeepsMeaning ==
  ASSUME NEW symbols, NEW inputs
  PROVE  IInv /\ ExactInv => KeepsMeaning(symbols, inputs)
<1> SUFFICES ASSUME IInv, ExactInv, pc = "done", ReadsResults(source),
                    NoPhi(source),
                    \A in \in inputs : ReadsSet(source, symbols, in)
             PROVE  Meaning(tac, symbols, inputs) = Meaning(source, symbols, inputs)
  BY DEF KeepsMeaning
<1>1. source \in Code /\ tac = fold_temporaries(source)
  BY EndAgrees, SourceIsCode DEF IInv, OperatorAgrees
<1>2. Covered(source)
  <2>1. top \in Nat /\ top = count_temps(source)
    BY TopIsCount
  <2>2. source \in Codes /\ \A k \in DOMAIN source : source[k].result <= top
    BY DEF IInv, CountInv, Counted
  <2>3. ASSUME NEW k \in DOMAIN source PROVE Reads(source[k]) \subseteq 0..top
    <3>1. Mentions(source[k]) \subseteq 0..top
      BY <2>1, <2>2, MentionsInTables
    <3>2. QED
      BY <3>1 DEF Mentions
  <2>4. QED
    BY <2>1, <2>3 DEF Covered
<1>3. QED
  BY <1>1, <1>2, FoldKeepsMeaning

(* Whenever the loops of fold_temporaries have ended, for every such code, *)
(* the registers hold what the temporaries held.                           *)
THEOREM AllocationKeepsMeaning ==
  ASSUME NEW CONSTANT symbols, NEW CONSTANT inputs
  PROVE  Spec => []KeepsMeaning(symbols, inputs)
<1>1. IInv /\ ExactInv => KeepsMeaning(symbols, inputs)
  BY EndKeepsMeaning
<1>2. QED
  BY <1>1, IInvAlways, ExactAlways, PTL
=============================================================================
