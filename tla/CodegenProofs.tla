---------------------------- MODULE CodegenProofs ----------------------------
(***************************************************************************)
(* Two promises of codegen() for every program: no handler touches what the  *)
(* nodes around it have on the operand stack, and, as long as the counter   *)
(* of temporaries does not overflow, no temporary is set twice.             *)
(***************************************************************************)
EXTENDS Codegen, SequenceTheorems, TLAPS

-----------------------------------------------------------------------------
(* Sequences of whatever it is.                                            *)
IsSeq(s) == \E S : s \in Seq(S)

LEMMA SeqShape ==
  ASSUME NEW s, IsSeq(s)
  PROVE  Len(s) \in Nat /\ DOMAIN s = 1..Len(s) /\ s = [i \in 1..Len(s) |-> s[i]]
BY LenProperties DEF IsSeq

LEMMA FunctionIsSeq ==
  ASSUME NEW n \in Nat, NEW s, s = [i \in 1..n |-> s[i]]
  PROVE  IsSeq(s) /\ Len(s) = n
<1> DEFINE S == {s[i] : i \in 1..n}
<1>1. s \in [1..n -> S]
  OBVIOUS
<1>2. s \in Seq(S)
  BY <1>1, SeqDef
<1>3. Len(s) = n
  BY <1>1, <1>2, LenProperties
<1>4. QED
  BY <1>2, <1>3 DEF IsSeq

LEMMA ConcatShape ==
  ASSUME NEW s, NEW t, IsSeq(s), IsSeq(t)
  PROVE  /\ IsSeq(s \o t) /\ Len(s \o t) = Len(s) + Len(t)
         /\ \A i \in 1..Len(s) : (s \o t)[i] = s[i]
         /\ \A i \in 1..Len(t) : (s \o t)[Len(s) + i] = t[i]
<1>1. PICK S : s \in Seq(S)
  BY DEF IsSeq
<1>2. PICK T : t \in Seq(T)
  BY DEF IsSeq
<1>3. s \in Seq(S \cup T) /\ t \in Seq(S \cup T)
  BY <1>1, <1>2, SeqMonotonic
<1>4. /\ s \o t \in Seq(S \cup T) /\ Len(s \o t) = Len(s) + Len(t)
      /\ \A i \in 1..Len(s \o t) :
           (s \o t)[i] = IF i <= Len(s) THEN s[i] ELSE t[i - Len(s)]
  BY <1>3, ConcatProperties
<1>5. Len(s) \in Nat /\ Len(t) \in Nat
  BY SeqShape
<1>6. QED
  BY <1>4, <1>5 DEF IsSeq

LEMMA AppendShape ==
  ASSUME NEW s, IsSeq(s), NEW e
  PROVE  /\ IsSeq(Append(s, e)) /\ Len(Append(s, e)) = Len(s) + 1
         /\ \A i \in 1..Len(s) : Append(s, e)[i] = s[i]
         /\ Append(s, e)[Len(s) + 1] = e
<1>1. PICK S : s \in Seq(S)
  BY DEF IsSeq
<1>2. s \in Seq(S \cup {e})
  BY <1>1, SeqMonotonic
<1>3. QED
  BY <1>2, AppendProperties, LenProperties DEF IsSeq

LEMMA OneShape ==
  ASSUME NEW e
  PROVE  IsSeq(<<e>>) /\ Len(<<e>>) = 1 /\ <<e>>[1] = e
<1>1. <<e>> \in Seq({e})
  OBVIOUS
<1>2. QED
  BY <1>1 DEF IsSeq

LEMMA NoneShape == IsSeq(<<>>) /\ Len(<<>>) = 0
<1>1. <<>> \in Seq({})
  OBVIOUS
<1>2. QED
  BY <1>1 DEF IsSeq

LEMMA TailShape ==
  ASSUME NEW s, IsSeq(s), s # <<>>
  PROVE  /\ Len(s) \in Nat \ {0} /\ Head(s) = s[1]
         /\ IsSeq(Tail(s)) /\ Len(Tail(s)) = Len(s) - 1
         /\ \A i \in 1..(Len(s) - 1) : Tail(s)[i] = s[i + 1]
<1>1. PICK S : s \in Seq(S)
  BY DEF IsSeq
<1>2. QED
  BY <1>1 DEF IsSeq

(* The n entries at the bottom.                                            *)
LEMMA PrefixShape ==
  ASSUME NEW s, IsSeq(s), NEW n \in 0..Len(s)
  PROVE  /\ IsSeq(SubSeq(s, 1, n)) /\ Len(SubSeq(s, 1, n)) = n
         /\ \A i \in 1..n : SubSeq(s, 1, n)[i] = s[i]
<1>1. PICK S : s \in Seq(S)
  BY DEF IsSeq
<1>2. SubSeq(s, 1, n) \in Seq(S) /\ Len(SubSeq(s, 1, n)) = n
  BY <1>1
<1>3. QED
  BY <1>1, <1>2 DEF IsSeq

LEMMA ExceptShape ==
  ASSUME NEW s, IsSeq(s), NEW t, t = [j \in DOMAIN s |-> t[j]]
  PROVE  IsSeq(t) /\ Len(t) = Len(s)
BY SeqShape, FunctionIsSeq

-----------------------------------------------------------------------------
(* The control stack: the items that a step puts in front of the rest.      *)
Operations == {"+", "-", "<", ">", "call"}

(* What each kind of item carries.                                         *)
ItemOK(w) ==
  /\ w.op \in Operations \cup {"visit", "close", "bind", "end_func", "condition", "then", "else"}
  /\ w.op = "visit" => w.node \in Nodes
  /\ w.op \in Operations => w.arg \in Nodes /\ w.arg.kind = "CALL"
  /\ w.op = "condition" => /\ w.arg.node \in Nodes /\ w.arg.node.kind = "CALL"
                           /\ Len(w.arg.node.args) = 3
  /\ w.op = "then" => /\ w.arg.if.node \in Nodes /\ w.arg.if.node.kind = "CALL"
                      /\ Len(w.arg.if.node.args) = 3
  /\ w.op = "bind" => /\ w.arg.let \in Nodes /\ w.arg.let.kind = "VARDEF"
                      /\ w.arg.j \in DOMAIN w.arg.let.variables
  /\ w.op = "close" => w.arg \in Nat

Items(s) == IsSeq(s) /\ \A i \in 1..Len(s) : ItemOK(s[i])

WInv == Items(work)

LEMMA ItemsConcat ==
  ASSUME NEW s, NEW t, Items(s), Items(t)
  PROVE  Items(s \o t)
<1>1. /\ IsSeq(s \o t) /\ Len(s \o t) = Len(s) + Len(t) /\ Len(s) \in Nat /\ Len(t) \in Nat
      /\ \A i \in 1..Len(s) : (s \o t)[i] = s[i]
      /\ \A i \in 1..Len(t) : (s \o t)[Len(s) + i] = t[i]
  BY ConcatShape, SeqShape DEF Items
<1> DEFINE u == s \o t
<1> HIDE DEF u
<1>2. ASSUME NEW i \in 1..Len(u) PROVE ItemOK(u[i])
  <2>1. CASE i \in 1..Len(s)
    BY <1>1, <2>1 DEF u, Items
  <2>2. CASE i \notin 1..Len(s)
    <3>1. i - Len(s) \in 1..Len(t) /\ i = Len(s) + (i - Len(s))
      BY <1>1, <2>2 DEF u
    <3>2. QED
      BY <1>1, <3>1 DEF u, Items
  <2>3. QED
    BY <2>1, <2>2
<1>3. QED
  BY <1>1, <1>2 DEF u, Items

LEMMA ItemsVisits ==
  ASSUME NEW nodes \in Seq(Nodes)
  PROVE  /\ Items(Visits(nodes)) /\ Len(Visits(nodes)) = Len(nodes) /\ Len(nodes) \in Nat
         /\ \A i \in 1..Len(nodes) : Visits(nodes)[i] = [op |-> "visit", node |-> nodes[i]]
<1>1. Len(nodes) \in Nat /\ DOMAIN nodes = 1..Len(nodes)
  BY LenProperties
<1>2. /\ Visits(nodes) = [i \in 1..Len(nodes) |-> Visits(nodes)[i]]
      /\ \A i \in 1..Len(nodes) : Visits(nodes)[i] = [op |-> "visit", node |-> nodes[i]]
  BY <1>1 DEF Visits
<1>3. IsSeq(Visits(nodes)) /\ Len(Visits(nodes)) = Len(nodes)
  BY <1>1, <1>2, FunctionIsSeq
<1>4. ASSUME NEW i \in 1..Len(nodes) PROVE ItemOK(Visits(nodes)[i])
  BY <1>2 DEF ItemOK, Operations
<1>5. QED
  BY <1>1, <1>2, <1>3, <1>4 DEF Items

LEMMA ItemsRest ==
  ASSUME NEW op, NEW arg, ItemOK([op |-> op, arg |-> arg])
  PROVE  Items(Rest(op, arg)) /\ Len(Rest(op, arg)) = 1 /\ Rest(op, arg)[1] = [op |-> op, arg |-> arg]
BY OneShape DEF Rest, Items

LEMMA ItemsClose ==
  ASSUME IsSeq(args_stack)
  PROVE  /\ Items(Close) /\ Len(Close) = 1
         /\ Close[1] = [op |-> "close", arg |-> Len(args_stack)]
<1>1. Len(args_stack) \in Nat
  BY SeqShape
<1>2. ItemOK([op |-> "close", arg |-> Len(args_stack)])
  BY <1>1 DEF ItemOK, Operations
<1>3. QED
  BY <1>2, ItemsRest DEF Close

LEMMA ItemsProceed ==
  ASSUME WInv, work # <<>>, NEW items, Items(items), Proceed(items)
  PROVE  WInv'
<1>1. Items(Tail(work))
  <2>1. /\ Len(work) \in Nat \ {0} /\ IsSeq(Tail(work)) /\ Len(Tail(work)) = Len(work) - 1
        /\ \A i \in 1..(Len(work) - 1) : Tail(work)[i] = work[i + 1]
    BY TailShape DEF WInv, Items
  <2>2. \A i \in 1..Len(work) : ItemOK(work[i])
    BY DEF WInv, Items
  <2>3. QED
    BY <2>1, <2>2 DEF Items
<1>2. Items(items \o Tail(work))
  BY <1>1, ItemsConcat
<1>3. work' = items \o Tail(work)
  BY DEF Proceed
<1>4. Items(work')
  BY <1>2, <1>3, Zenon
<1>5. QED
  BY <1>4 DEF WInv

-----------------------------------------------------------------------------
(* The operand stack.  An item that finds h entries leaves Left(w, h) of     *)
(* them as they are and puts Pushes(w) on top.                             *)
Pops(w) ==
  IF w.op = "visit" THEN 0
  ELSE IF w.op \in Operations THEN Len(w.arg.args)
  ELSE IF w.op = "end_func" THEN (IF w.arg.node.ret_type_void THEN 0 ELSE 1)
  ELSE 1

Left(w, h) == IF w.op = "close" THEN w.arg ELSE h - Pops(w)

Pushes(w) == IF w.op \in {"bind", "end_func"} THEN 0 ELSE 1

(* Heights at which each of the items finds the stack, no higher than it     *)
(* will be: from low entries they lead to high, and below floor, and below  *)
(* the base of a close still to come, they leave everything alone.          *)
Heights(h, items, floor) ==
  /\ h \in [1..(Len(items) + 1) -> Int]
  /\ \A i \in 1..Len(items) :
       /\ floor <= Left(items[i], h[i]) /\ Left(items[i], h[i]) <= h[i]
       /\ h[i + 1] <= Left(items[i], h[i]) + Pushes(items[i])
       /\ \A c \in i..Len(items) : items[c].op = "close" => items[c].arg <= Left(items[i], h[i])

Runs(items, low, high, floor) ==
  \E h : Heights(h, items, floor) /\ h[1] <= low /\ high <= h[Len(items) + 1]

LEMMA LeftInt ==
  ASSUME NEW w, ItemOK(w), NEW h \in Int
  PROVE  /\ Left(w, h) \in Int /\ Pushes(w) \in 0..1 /\ Pops(w) \in Nat
         /\ \A k \in Int : h <= k => Left(w, h) <= Left(w, k)
<1>1. Pops(w) \in Nat
  <2>1. w.op \in Operations => Len(w.arg.args) \in Nat
    BY NodesAssumption, LenProperties DEF ItemOK
  <2>2. QED
    BY <2>1 DEF Pops
<1>2. w.op = "close" => w.arg \in Nat
  BY DEF ItemOK
<1>3. QED
  BY <1>1, <1>2 DEF Left, Pushes

LEMMA RunsConcat ==
  ASSUME NEW s, NEW t, Items(s), Items(t),
         NEW low \in Int, NEW middle \in Int, NEW high \in Int,
         NEW floor \in Int, NEW ground \in Int, ground <= floor,
         Runs(s, low, middle, floor), Runs(t, middle, high, ground),
         \A c \in 1..Len(t) : t[c].op = "close" => t[c].arg <= floor
  PROVE  Runs(s \o t, low, high, ground)
<1>1. PICK g : Heights(g, s, floor) /\ g[1] <= low /\ middle <= g[Len(s) + 1]
  BY DEF Runs
<1>2. PICK h : Heights(h, t, ground) /\ h[1] <= middle /\ high <= h[Len(t) + 1]
  BY DEF Runs
<1> DEFINE u == s \o t
           n == Len(s)
           m == Len(t)
           f == [i \in 1..(n + m + 1) |-> IF i <= n THEN g[i] ELSE h[i - n]]
<1>3. /\ n \in Nat /\ m \in Nat /\ Len(u) = n + m
      /\ \A i \in 1..n : u[i] = s[i]
      /\ \A i \in 1..m : u[n + i] = t[i]
  BY ConcatShape, SeqShape DEF Items
<1>4. \A i \in 1..n : ItemOK(s[i])
  BY DEF Items
<1>5. \A i \in 1..m : ItemOK(t[i])
  BY DEF Items
<1>6. /\ g \in [1..(n + 1) -> Int] /\ h \in [1..(m + 1) -> Int]
      /\ \A i \in 1..n : f[i] = g[i]
      /\ \A i \in 1..(m + 1) : f[n + i] = h[i]
      /\ f \in [1..(n + m + 1) -> Int]
  <2>1. g \in [1..(n + 1) -> Int] /\ h \in [1..(m + 1) -> Int]
    BY <1>1, <1>2 DEF Heights
  <2> HIDE DEF n, m
  <2>2. \A i \in 1..n : i \in 1..(n + m + 1) /\ f[i] = g[i]
    BY <1>3
  <2>3. \A i \in 1..(m + 1) : n + i \in 1..(n + m + 1) /\ ~(n + i <= n) /\ (n + i) - n = i
    BY <1>3
  <2>4. \A i \in 1..(m + 1) : f[n + i] = h[i]
    BY <2>3
  <2>5. ASSUME NEW i \in 1..(n + m + 1) PROVE (IF i <= n THEN g[i] ELSE h[i - n]) \in Int
    <3>1. CASE i <= n
      BY <1>3, <2>1, <2>5, <3>1
    <3>2. CASE ~(i <= n)
      <4>1. i - n \in 1..(m + 1)
        BY <1>3, <2>5, <3>2
      <4>2. QED
        BY <2>1, <3>2, <4>1
    <3>3. QED
      BY <3>1, <3>2
  <2>6. f \in [1..(n + m + 1) -> Int]
    BY <2>5
  <2>7. QED
    BY <2>1, <2>2, <2>4, <2>6
<1> HIDE DEF u, n, m, f
<1>7. ASSUME NEW i \in 1..(n + m)
      PROVE  /\ ground <= Left(u[i], f[i]) /\ Left(u[i], f[i]) <= f[i]
             /\ f[i + 1] <= Left(u[i], f[i]) + Pushes(u[i])
             /\ \A c \in i..(n + m) : u[c].op = "close" => u[c].arg <= Left(u[i], f[i])
  <2>1. CASE i \in 1..n
    <3>1. /\ floor <= Left(s[i], g[i]) /\ Left(s[i], g[i]) <= g[i]
          /\ g[i + 1] <= Left(s[i], g[i]) + Pushes(s[i])
          /\ \A c \in i..n : s[c].op = "close" => s[c].arg <= Left(s[i], g[i])
      BY <1>1, <2>1 DEF Heights, n
    <3>2. u[i] = s[i] /\ f[i] = g[i] /\ g[i] \in Int /\ g[i + 1] \in Int
      <4>1. u[i] = s[i] /\ f[i] = g[i]
        BY <1>3, <1>6, <2>1
      <4>2. i \in 1..(n + 1) /\ i + 1 \in 1..(n + 1)
        BY <1>3, <2>1
      <4>3. g[i] \in Int /\ g[i + 1] \in Int
        BY <1>6, <4>2
      <4>4. QED
        BY <4>1, <4>3
    <3>3. Left(s[i], g[i]) \in Int /\ Pushes(s[i]) \in 0..1
      BY <1>4, <2>1, <3>2, LeftInt
    <3>4. f[i + 1] <= g[i + 1]
      <4>1. CASE i + 1 \in 1..n
        BY <1>6, <3>2, <4>1
      <4>2. CASE i = n
        <5>1. f[n + 1] = h[1] /\ h[1] \in Int /\ g[n + 1] \in Int
          BY <1>3, <1>6
        <5>2. h[1] <= g[n + 1]
          BY <1>1, <1>2, <5>1 DEF n
        <5>3. QED
          BY <4>2, <5>1, <5>2
      <4>3. QED
        BY <1>3, <2>1, <4>1, <4>2
    <3>5. f[i + 1] \in Int
      BY <1>3, <1>6, <2>1
    <3>6. ASSUME NEW c \in i..(n + m), u[c].op = "close" PROVE u[c].arg <= Left(s[i], g[i])
      <4>1. CASE c \in i..n
        BY <1>3, <2>1, <3>1, <3>6, <4>1
      <4>2. CASE c \notin i..n
        <5>1. c - n \in 1..m /\ c = n + (c - n)
          BY <1>3, <2>1, <4>2
        <5>2. u[c] = t[c - n] /\ t[c - n].op = "close"
          BY <1>3, <3>6, <5>1
        <5>3. t[c - n].arg <= floor /\ t[c - n].arg \in Nat
          BY <1>5, <5>1, <5>2 DEF m, ItemOK
        <5>4. QED
          BY <3>1, <3>3, <5>2, <5>3
      <4>3. QED
        BY <4>1, <4>2
    <3>7. QED
      BY <3>1, <3>2, <3>3, <3>4, <3>5, <3>6
  <2>2. CASE i \notin 1..n
    <3> DEFINE k == i - n
    <3>1. k \in 1..m /\ i = n + k /\ i + 1 = n + (k + 1)
      BY <1>3, <2>2
    <3> HIDE DEF k
    <3>2. /\ ground <= Left(t[k], h[k]) /\ Left(t[k], h[k]) <= h[k]
          /\ h[k + 1] <= Left(t[k], h[k]) + Pushes(t[k])
          /\ \A c \in k..m : t[c].op = "close" => t[c].arg <= Left(t[k], h[k])
      BY <1>2, <3>1 DEF Heights, m
    <3>3. u[i] = t[k] /\ f[i] = h[k] /\ f[i + 1] = h[k + 1]
      <4>1. k \in 1..(m + 1) /\ k + 1 \in 1..(m + 1)
        BY <1>3, <3>1
      <4>2. f[n + k] = h[k] /\ f[n + (k + 1)] = h[k + 1]
        BY <1>6, <4>1
      <4>3. QED
        BY <1>3, <3>1, <4>2
    <3>4. ASSUME NEW c \in i..(n + m), u[c].op = "close" PROVE u[c].arg <= Left(t[k], h[k])
      <4>1. c - n \in k..m /\ c = n + (c - n) /\ c - n \in 1..m
        BY <1>3, <3>1
      <4>2. u[c] = t[c - n]
        BY <1>3, <4>1
      <4>3. QED
        BY <3>2, <3>4, <4>1, <4>2
    <3>5. QED
      BY <3>2, <3>3, <3>4
  <2>3. QED
    BY <2>1, <2>2
<1>8. Heights(f, u, ground)
  BY <1>3, <1>6, <1>7 DEF Heights
<1>9. f[1] <= low
  <2>1. CASE n = 0
    <3>1. f[1] = h[1] /\ h[1] \in Int /\ g[1] \in Int
      BY <1>3, <1>6, <2>1
    <3>2. QED
      BY <1>1, <1>2, <2>1, <3>1 DEF n
  <2>2. CASE n # 0
    BY <1>1, <1>3, <1>6, <2>2
  <2>3. QED
    BY <2>1, <2>2
<1>10. high <= f[Len(u) + 1]
  <2>1. f[n + (m + 1)] = h[m + 1]
    BY <1>3, <1>6
  <2>2. QED
    BY <1>2, <1>3, <2>1 DEF m
<1>11. QED
  BY <1>8, <1>9, <1>10 DEF Runs, u

LEMMA RunsNone ==
  ASSUME NEW low \in Int, NEW high \in Int, high <= low, NEW floor
  PROVE  Runs(<<>>, low, high, floor)
<1> DEFINE h == [i \in 1..1 |-> low]
<1>1. Len(<<>>) = 0
  BY NoneShape
<1>2. h \in [1..1 -> Int] /\ h[1] = low
  OBVIOUS
<1> HIDE DEF h
<1>3. Heights(h, <<>>, floor) /\ h[1] <= low /\ high <= h[Len(<<>>) + 1]
  BY <1>1, <1>2 DEF Heights
<1>4. QED
  BY <1>3 DEF Runs

LEMMA RunsOne ==
  ASSUME NEW s, Items(s), Len(s) = 1, NEW low \in Int, NEW high \in Int, NEW floor \in Int,
         floor <= Left(s[1], low), Left(s[1], low) <= low,
         high <= Left(s[1], low) + Pushes(s[1])
  PROVE  Runs(s, low, high, floor)
<1> DEFINE h == [i \in 1..2 |-> IF i = 1 THEN low ELSE high]
<1>1. h \in [1..2 -> Int] /\ h[1] = low /\ h[2] = high
  OBVIOUS
<1> HIDE DEF h
<1>2. ItemOK(s[1])
  BY DEF Items
<1>3. s[1].op = "close" => s[1].arg <= Left(s[1], low)
  BY <1>2 DEF Left, ItemOK
<1>4. Heights(h, s, floor)
  BY <1>1, <1>3 DEF Heights
<1>5. QED
  BY <1>1, <1>4 DEF Runs

LEMMA RunsVisits ==
  ASSUME NEW nodes \in Seq(Nodes), NEW low \in Int
  PROVE  Runs(Visits(nodes), low, low + Len(nodes), low)
<1> DEFINE s == Visits(nodes)
           n == Len(nodes)
           h == [i \in 1..(n + 1) |-> low + (i - 1)]
<1>1. /\ Len(s) = n /\ n \in Nat
      /\ \A i \in 1..n : s[i] = [op |-> "visit", node |-> nodes[i]]
  BY ItemsVisits
<1>2. /\ h \in [1..(n + 1) -> Int] /\ h[1] = low /\ h[n + 1] = low + n
      /\ \A i \in 1..n : h[i] \in Int /\ low <= h[i] /\ h[i + 1] = h[i] + 1
  BY <1>1
<1> HIDE DEF s, n, h
<1>0. \A i \in 1..n : s[i].op = "visit"
  BY <1>1
<1>3. \A i \in 1..n : Left(s[i], h[i]) = h[i] /\ Pushes(s[i]) = 1
  <2>1. SUFFICES ASSUME NEW i \in 1..n PROVE Left(s[i], h[i]) = h[i] /\ Pushes(s[i]) = 1
    OBVIOUS
  <2>2. Pops(s[i]) = 0 /\ h[i] - 0 = h[i] /\ s[i].op = "visit"
    BY <1>0, <1>2 DEF Pops
  <2>3. QED
    BY <2>2 DEF Left, Pushes
<1>4. Heights(h, s, low)
  <2>1. \A c \in 1..n : s[c].op # "close"
    BY <1>0
  <2>2. ASSUME NEW i \in 1..n
        PROVE  /\ low <= Left(s[i], h[i]) /\ Left(s[i], h[i]) <= h[i]
               /\ h[i + 1] <= Left(s[i], h[i]) + Pushes(s[i])
               /\ \A c \in i..n : s[c].op = "close" => s[c].arg <= Left(s[i], h[i])
    BY <1>1, <1>2, <1>3, <2>1
  <2>3. QED
    BY <1>1, <1>2, <2>2 DEF Heights
<1>5. QED
  BY <1>1, <1>2, <1>4 DEF Runs, s, n

-----------------------------------------------------------------------------
(* What is on the operand stack suffices for all that is to be done.        *)
SInv == IsSeq(args_stack) /\ Runs(work, Len(args_stack), 0, 0)

Height == Len(args_stack)

(* What the next item leaves alone.                                        *)
Kept == Left(Head(work), Height)

LEMMA FrontFits ==
  ASSUME WInv, SInv, work # <<>>
  PROVE  /\ Height \in Nat /\ Kept \in 0..Height /\ Pushes(Head(work)) \in 0..1
         /\ ItemOK(Head(work))
         /\ \A c \in 1..Len(work) : work[c].op = "close" => work[c].arg <= Kept
         /\ Runs(Tail(work), Kept + Pushes(Head(work)), 0, 0)
<1> DEFINE w == Head(work)
           n == Len(work)
           t == Tail(work)
<1>1. /\ n \in Nat \ {0} /\ w = work[1] /\ Len(t) = n - 1
      /\ \A i \in 1..(n - 1) : t[i] = work[i + 1]
  BY TailShape DEF WInv, Items
<1>2. \A i \in 1..n : ItemOK(work[i])
  BY DEF WInv, Items
<1>3. Height \in Nat
  BY SeqShape DEF SInv, Height
<1>4. PICK h : Heights(h, work, 0) /\ h[1] <= Height /\ 0 <= h[n + 1]
  BY DEF SInv, Runs, Height
<1> HIDE DEF w, n, t
<1>5. /\ h \in [1..(n + 1) -> Int]
      /\ \A i \in 1..n :
           /\ 0 <= Left(work[i], h[i]) /\ Left(work[i], h[i]) <= h[i]
           /\ h[i + 1] <= Left(work[i], h[i]) + Pushes(work[i])
           /\ \A c \in i..n : work[c].op = "close" => work[c].arg <= Left(work[i], h[i])
  BY <1>4 DEF Heights, n
<1>6. /\ ItemOK(w) /\ h[1] \in Int /\ h[2] \in Int
      /\ 0 <= Left(w, h[1]) /\ Left(w, h[1]) <= h[1] /\ h[2] <= Left(w, h[1]) + Pushes(w)
      /\ \A c \in 1..n : work[c].op = "close" => work[c].arg <= Left(w, h[1])
  BY <1>1, <1>2, <1>5
<1>7. /\ Left(w, h[1]) \in Int /\ Left(w, Height) \in Int /\ Pushes(w) \in 0..1
      /\ Pops(w) \in Nat /\ Left(w, h[1]) <= Left(w, Height)
  <2>1. Height \in Int /\ h[1] <= Height
    BY <1>3, <1>4
  <2>2. \A k \in Int : h[1] <= k => Left(w, h[1]) <= Left(w, k)
    BY <1>6, LeftInt
  <2>3. Left(w, h[1]) \in Int /\ Left(w, Height) \in Int /\ Pushes(w) \in 0..1 /\ Pops(w) \in Nat
    BY <1>6, <2>1, LeftInt
  <2>4. QED
    BY <2>1, <2>2, <2>3
<1>8. Left(w, Height) <= Height
  <2>1. CASE w.op = "close"
    BY <1>3, <1>4, <1>6, <1>7, <2>1 DEF Left
  <2>2. CASE w.op # "close"
    BY <1>3, <1>7, <2>2 DEF Left
  <2>3. QED
    BY <2>1, <2>2
<1>9. Kept = Left(w, Height)
  BY DEF Kept, w
<1>10. \A c \in 1..n : work[c].op = "close" => work[c].arg <= Kept
  BY <1>2, <1>6, <1>7, <1>9 DEF ItemOK
<1>11. Runs(t, Kept + Pushes(w), 0, 0)
  <2> DEFINE g == [i \in 1..n |-> h[i + 1]]
  <2>1. /\ g \in [1..n -> Int] /\ \A i \in 1..n : g[i] = h[i + 1]
        /\ Len(t) + 1 = n /\ n + 1 - 1 = n
    BY <1>1, <1>5
  <2> HIDE DEF g
  <2>2. ASSUME NEW i \in 1..(n - 1)
        PROVE  /\ 0 <= Left(t[i], g[i]) /\ Left(t[i], g[i]) <= g[i]
               /\ g[i + 1] <= Left(t[i], g[i]) + Pushes(t[i])
               /\ \A c \in i..(n - 1) : t[c].op = "close" => t[c].arg <= Left(t[i], g[i])
    <3>1. i + 1 \in 1..n /\ t[i] = work[i + 1] /\ g[i] = h[i + 1] /\ g[i + 1] = h[i + 1 + 1]
      BY <1>1, <2>1
    <3>2. \A c \in i..(n - 1) : c + 1 \in (i + 1)..n /\ t[c] = work[c + 1]
      BY <1>1
    <3>3. QED
      BY <1>5, <3>1, <3>2
  <2>3. Heights(g, t, 0)
    BY <1>1, <2>1, <2>2 DEF Heights
  <2>4. g[1] <= Kept + Pushes(w)
    <3>1. g[1] = h[2]
      BY <1>1, <2>1
    <3>2. h[2] <= Left(w, Height) + Pushes(w)
      BY <1>6, <1>7
    <3>3. QED
      BY <1>9, <3>1, <3>2
  <2>5. 0 <= g[Len(t) + 1]
    BY <1>1, <1>4, <2>1
  <2>6. QED
    BY <2>3, <2>4, <2>5 DEF Runs
<1>12. QED
  BY <1>3, <1>6, <1>7, <1>8, <1>9, <1>10, <1>11 DEF w, n, t

(* A step that replaces the item in front and keeps what it should.        *)
Underneath ==
  IsSeq(args_stack') /\ Kept <= Len(args_stack') /\ \A k \in 1..Kept : args_stack'[k] = args_stack[k]

Steady == SInv' /\ \A c \in DOMAIN work : work[c].op = "close" => LeavesBelow(work[c].arg)

LEMMA StackStep ==
  ASSUME WInv, SInv, work # <<>>, NEW items, Items(items), Proceed(items), Underneath,
         Runs(items, Len(args_stack'), Kept + Pushes(Head(work)), Kept)
  PROVE  Steady
<1>1. /\ Height \in Nat /\ Kept \in 0..Height /\ Pushes(Head(work)) \in 0..1
      /\ \A c \in 1..Len(work) : work[c].op = "close" => work[c].arg <= Kept
      /\ Runs(Tail(work), Kept + Pushes(Head(work)), 0, 0)
  BY FrontFits
<1>2. Len(args_stack') \in Nat
  BY SeqShape DEF Underneath
<1>3. /\ Len(work) \in Nat \ {0} /\ Len(Tail(work)) = Len(work) - 1
      /\ IsSeq(Tail(work)) /\ \A i \in 1..(Len(work) - 1) : Tail(work)[i] = work[i + 1]
  BY TailShape DEF WInv, Items
<1>4. Items(Tail(work)) /\ \A i \in 1..Len(work) : ItemOK(work[i])
  BY <1>3 DEF WInv, Items
<1>5. \A c \in 1..Len(Tail(work)) : Tail(work)[c].op = "close" => Tail(work)[c].arg <= Kept
  BY <1>1, <1>3
<1>6. Runs(items \o Tail(work), Len(args_stack'), 0, 0)
  <2> DEFINE k == Kept
             m == Kept + Pushes(Head(work))
             t == Tail(work)
             l == Len(args_stack')
  <2>1. k \in Int /\ m \in Int /\ l \in Int /\ 0 <= k
    BY <1>1, <1>2
  <2>2. /\ Items(t) /\ Runs(items, l, m, k) /\ Runs(t, m, 0, 0)
        /\ \A c \in 1..Len(t) : t[c].op = "close" => t[c].arg <= k
    BY <1>1, <1>4, <1>5
  <2> HIDE DEF k, m, t, l
  <2>3. Runs(items \o t, l, 0, 0)
    BY <2>1, <2>2, RunsConcat
  <2>4. QED
    BY <2>3 DEF t, l
<1>7. SInv'
  BY <1>6 DEF SInv, Underneath, Proceed
<1>8. ASSUME NEW c \in DOMAIN work, work[c].op = "close" PROVE LeavesBelow(work[c].arg)
  <2>1. c \in 1..Len(work)
    BY SeqShape DEF WInv, Items
  <2>2. work[c].arg \in Nat /\ work[c].arg <= Kept
    BY <1>1, <1>4, <1>8, <2>1 DEF ItemOK
  <2>3. QED
    BY <1>1, <1>2, <2>2 DEF LeavesBelow, Underneath
<1>9. QED
  BY <1>7, <1>8 DEF Steady

-----------------------------------------------------------------------------
(* The code so far.                                                        *)
FunctionsOK(fs) ==
  /\ IsSeq(fs)
  /\ \A f \in 1..Len(fs) : "code" \in DOMAIN fs[f] /\ IsSeq(fs[f].code)

HeapOK == IsSeq(heap) /\ heap # <<>> /\ FunctionsOK(functions)

(* The instructions of gs are those of fs and, after the first n of function *)
(* g, those of c.                                                          *)
Extends(fs, gs, g, n, c) ==
  \A f \in DOMAIN gs : \A k \in DOMAIN gs[f].code :
    \/ /\ f \in DOMAIN fs /\ k \in DOMAIN fs[f].code
       /\ gs[f].code[k].result = fs[f].code[k].result
    \/ /\ f = g /\ k \in Int /\ k - n \in DOMAIN c
       /\ gs[f].code[k].result = c[k - n].result

LEMMA HeapShape ==
  ASSUME HeapOK
  PROVE  /\ IsSeq(heap) /\ Len(heap) \in Nat \ {0} /\ functions = heap[Len(heap)]
         /\ IsSeq(functions) /\ Len(functions) \in Nat /\ DOMAIN functions = 1..Len(functions)
BY SeqShape, TailShape DEF HeapOK, FunctionsOK, functions

(* Another buffer changed, or nothing did.                                 *)
LEMMA SameFunctions ==
  ASSUME HeapOK, IsSeq(heap'), Len(heap') = Len(heap), heap'[Len(heap)] = functions, NEW c
  PROVE  HeapOK' /\ \E g, n \in Int : Extends(functions, functions', g, n, c)
<1>1. functions' = functions
  BY DEF functions
<1>2. heap' # <<>>
  BY HeapShape, NoneShape
<1>3. HeapOK'
  BY <1>1, <1>2 DEF HeapOK, FunctionsOK
<1>4. Extends(functions, functions', 0, 0, c)
  BY <1>1 DEF Extends
<1>5. QED
  BY <1>3, <1>4

LEMMA EmitExtends ==
  ASSUME HeapOK, NEW c, IsSeq(c), Emit(c)
  PROVE  HeapOK' /\ \E g, n \in Int : Extends(functions, functions', g, n, c)
<1> DEFINE a == current_function[1]
           b == current_function[2]
           m == Len(heap)
           old == heap[a]
           func == old[b]
           longer == [func EXCEPT !.code = @ \o c]
           new == [old EXCEPT ![b] = longer]
<1>1. heap' = [heap EXCEPT ![a] = new]
  BY DEF Emit
<1>2. /\ IsSeq(heap) /\ m \in Nat \ {0} /\ functions = heap[m]
      /\ IsSeq(functions) /\ Len(functions) \in Nat /\ DOMAIN functions = 1..Len(functions)
  BY HeapShape
<1>3. /\ IsSeq(heap') /\ Len(heap') = m
      /\ heap'[m] = IF m = a THEN new ELSE heap[m]
  <2> HIDE DEF new, a
  <2>1. /\ IsSeq(heap') /\ Len(heap') = Len(heap)
        /\ \A j \in 1..Len(heap) : heap'[j] = IF j = a THEN new ELSE heap[j]
    <3>1. IsSeq(heap) /\ DOMAIN heap = 1..Len(heap)
      BY <1>2, SeqShape
    <3>2. /\ heap' = [j \in DOMAIN heap |-> heap'[j]]
          /\ \A j \in 1..Len(heap) : heap'[j] = IF j = a THEN new ELSE heap[j]
      BY <1>1, <3>1
    <3>3. IsSeq(heap') /\ Len(heap') = Len(heap)
      BY <3>1, <3>2, ExceptShape
    <3>4. QED
      BY <3>2, <3>3
  <2>2. QED
    BY <1>2, <2>1
<1>4. CASE m # a
  BY <1>2, <1>3, <1>4, SameFunctions
<1>5. CASE m = a
  <2>1. old = functions
    BY <1>2, <1>5
  <2>2. /\ IsSeq(new) /\ Len(new) = Len(functions)
        /\ \A f \in 1..Len(functions) : new[f] = IF f = b THEN longer ELSE functions[f]
    <3>1. new = [functions EXCEPT ![b] = longer]
      BY <2>1
    <3> HIDE DEF new, longer, old, b
    <3>2. /\ IsSeq(functions) /\ new = [f \in DOMAIN functions |-> new[f]]
          /\ \A f \in 1..Len(functions) : new[f] = IF f = b THEN longer ELSE functions[f]
      BY <1>2, <3>1
    <3>3. IsSeq(new) /\ Len(new) = Len(functions)
      BY <3>2, ExceptShape
    <3>4. QED
      BY <3>2, <3>3
  <2>3. functions' = new
    BY <1>3, <1>5 DEF functions
  <2>4. CASE b \notin 1..Len(functions)
    <3>1. DOMAIN new = 1..Len(functions) /\ \A f \in 1..Len(functions) : new[f] = functions[f]
      BY <2>2, <2>4, SeqShape
    <3> HIDE DEF new
    <3>2. new = [f \in 1..Len(functions) |-> new[f]] /\ functions = [f \in 1..Len(functions) |-> functions[f]]
      BY <1>2, <2>2, SeqShape
    <3>3. new = functions
      BY <3>1, <3>2
    <3>4. QED
      BY <1>3, <1>5, <3>3, SameFunctions
  <2>5. CASE b \in 1..Len(functions)
    <3> DEFINE code == functions[b].code
               n == Len(code)
    <3>1. "code" \in DOMAIN func /\ IsSeq(code) /\ func = functions[b]
      BY <2>1, <2>5 DEF HeapOK, FunctionsOK
    <3>2. longer.code = code \o c /\ DOMAIN longer = DOMAIN func
      BY <3>1
    <3>3. /\ IsSeq(code \o c) /\ Len(code \o c) = n + Len(c) /\ n \in Nat /\ Len(c) \in Nat
          /\ \A k \in 1..n : (code \o c)[k] = code[k]
          /\ \A k \in 1..Len(c) : (code \o c)[n + k] = c[k]
          /\ DOMAIN c = 1..Len(c) /\ DOMAIN code = 1..n
          /\ DOMAIN (code \o c) = 1..(n + Len(c))
      BY <3>1, ConcatShape, SeqShape
    <3>4. /\ DOMAIN new = 1..Len(functions)
          /\ \A f \in 1..Len(functions) : f # b => new[f] = functions[f]
          /\ new[b] = longer
      BY <2>2, <2>5, SeqShape
    <3> DEFINE both == code \o c
    <3>5. both = code \o c
      OBVIOUS
    <3> HIDE DEF both, new, longer, func, old, b, code, n
    <3>6. FunctionsOK(new)
      <4>1. \A f \in 1..Len(functions) : "code" \in DOMAIN new[f] /\ IsSeq(new[f].code)
        BY <3>1, <3>2, <3>3, <3>4 DEF HeapOK, FunctionsOK
      <4>2. QED
        BY <2>2, <4>1 DEF FunctionsOK
    <3>7. HeapOK'
      <4>1. heap' # <<>>
        BY <1>2, <1>3, NoneShape
      <4>2. FunctionsOK(functions)'
        BY <2>3, <3>6 DEF FunctionsOK
      <4>3. QED
        BY <1>3, <4>1, <4>2 DEF HeapOK
    <3>8. ASSUME NEW f \in DOMAIN new, NEW k \in DOMAIN new[f].code
          PROVE  \/ /\ f \in DOMAIN functions /\ k \in DOMAIN functions[f].code
                    /\ new[f].code[k].result = functions[f].code[k].result
                 \/ /\ f = b /\ k \in Int /\ k - n \in DOMAIN c
                    /\ new[f].code[k].result = c[k - n].result
      <4>1. CASE f # b
        BY <1>2, <3>4, <4>1
      <4>2. CASE f = b
        <5>1. new[f].code = both /\ k \in 1..(n + Len(c))
          BY <3>2, <3>3, <3>4, <3>5, <4>2
        <5>2. functions[f].code = code
          BY <4>2 DEF code
        <5>3. CASE k <= n
          <6>1. k \in 1..n
            BY <3>3, <5>1, <5>3
          <6>2. both[k] = code[k]
            BY <3>3, <3>5, <6>1
          <6>3. QED
            BY <1>2, <2>5, <3>3, <4>2, <5>1, <5>2, <6>1, <6>2
        <5>4. CASE ~(k <= n)
          <6>1. k - n \in 1..Len(c) /\ k = n + (k - n) /\ k \in Int
            BY <3>3, <5>1, <5>4
          <6>2. both[k] = c[k - n]
            BY <3>3, <3>5, <6>1
          <6>3. QED
            BY <3>3, <4>2, <5>1, <6>1, <6>2
        <5>5. QED
          BY <5>3, <5>4
      <4>3. QED
        BY <4>1, <4>2
    <3>9. Extends(functions, functions', b, n, c)
      BY <2>3, <3>8 DEF Extends
    <3>10. b \in Int /\ n \in Int
      BY <1>2, <2>5, <3>3
    <3>11. QED
      BY <3>7, <3>9, <3>10
  <2>6. QED
    BY <2>4, <2>5
<1>6. QED
  BY <1>4, <1>5

LEMMA GrownExtends ==
  ASSUME HeapOK, NEW name, NEW c, IsSeq(c), heap' = Grown([name |-> name, code |-> c])
  PROVE  HeapOK' /\ \E g, n \in Int : Extends(functions, functions', g, n, c)
<1> DEFINE func == [name |-> name, code |-> c]
           more == Append(functions, func)
           m == Len(heap)
<1>1. /\ IsSeq(heap) /\ m \in Nat \ {0} /\ functions = heap[m]
      /\ IsSeq(functions) /\ Len(functions) \in Nat /\ DOMAIN functions = 1..Len(functions)
  BY HeapShape
<1>2. "code" \in DOMAIN func /\ func.code = c
  OBVIOUS
<1> HIDE DEF func
<1>3. /\ IsSeq(more) /\ Len(more) = Len(functions) + 1
      /\ \A f \in 1..Len(functions) : more[f] = functions[f]
      /\ more[Len(functions) + 1] = func
      /\ DOMAIN more = 1..(Len(functions) + 1)
  BY <1>1, AppendShape, SeqShape
<1>4. heap' = Append(heap, more) \/ heap' = [heap EXCEPT ![m] = more]
  BY <1>1 DEF Grown, func
<1> HIDE DEF more
<1>5. IsSeq(heap') /\ Len(heap') \in Nat \ {0} /\ heap'[Len(heap')] = more
  <2>1. CASE heap' = Append(heap, more)
    <3>1. IsSeq(heap)
      BY <1>1
    <3>2. /\ IsSeq(Append(heap, more)) /\ Len(Append(heap, more)) = Len(heap) + 1
          /\ Append(heap, more)[Len(heap) + 1] = more
      BY <3>1, AppendShape
    <3>4. /\ IsSeq(heap') /\ Len(heap') = Len(heap) + 1 /\ heap'[Len(heap) + 1] = more
      BY <2>1, <3>2, Zenon
    <3>3. QED
      BY <1>1, <3>4
  <2>2. CASE heap' = [heap EXCEPT ![m] = more]
    <3>1. IsSeq(heap)
      BY <1>1
    <3>2. heap' = [j \in DOMAIN heap |-> heap'[j]]
      BY <2>2
    <3>3. IsSeq(heap') /\ Len(heap') = Len(heap)
      BY <3>1, <3>2, ExceptShape
    <3>4. heap'[m] = more
      BY <1>1, <2>2, <3>1, SeqShape
    <3>5. QED
      BY <1>1, <3>3, <3>4
  <2>3. QED
    BY <1>4, <2>1, <2>2
<1>6. functions' = more
  BY <1>5 DEF functions
<1>7. HeapOK'
  <2>1. \A f \in 1..Len(more) : "code" \in DOMAIN more[f] /\ IsSeq(more[f].code)
    BY <1>1, <1>2, <1>3 DEF HeapOK, FunctionsOK
  <2>2. FunctionsOK(more)
    BY <1>3, <2>1 DEF FunctionsOK
  <2>3. QED
    BY <1>5, <1>6, <2>2, NoneShape DEF HeapOK
<1>8. Extends(functions, functions', Len(functions) + 1, 0, c)
  <2>1. ASSUME NEW f \in DOMAIN more, NEW k \in DOMAIN more[f].code
        PROVE  \/ /\ f \in DOMAIN functions /\ k \in DOMAIN functions[f].code
                  /\ more[f].code[k].result = functions[f].code[k].result
               \/ /\ f = Len(functions) + 1 /\ k \in Int /\ k - 0 \in DOMAIN c
                  /\ more[f].code[k].result = c[k - 0].result
    <3>1. CASE f \in 1..Len(functions)
      BY <1>1, <1>3, <3>1
    <3>2. CASE f = Len(functions) + 1
      <4>1. more[f].code = c /\ k \in 1..Len(c) /\ DOMAIN c = 1..Len(c) /\ Len(c) \in Nat
        BY <1>2, <1>3, <3>2, SeqShape
      <4>2. k - 0 = k
        BY <4>1
      <4>3. QED
        BY <3>2, <4>1, <4>2
    <3>3. QED
      BY <1>1, <1>3, <3>1, <3>2
  <2>2. QED
    BY <1>6, <2>1 DEF Extends
<1>9. QED
  BY <1>1, <1>7, <1>8

-----------------------------------------------------------------------------
(* The temporaries.  An if that is under way has one reserved.              *)
Reserved(w) == IF w.op \in {"then", "else"} THEN w.arg.result ELSE 0

Unset(r) == \A f \in DOMAIN functions : \A k \in DOMAIN functions[f].code :
              functions[f].code[k].result # r

ReservedOnce ==
  \A p \in 1..Len(work) :
    /\ Reserved(work[p]) \in 0..temp_num
    /\ Reserved(work[p]) # 0 =>
         /\ Unset(Reserved(work[p]))
         /\ \A q \in 1..Len(work) : Reserved(work[q]) = Reserved(work[p]) => p = q

Numbered == \A f \in DOMAIN functions : \A k \in DOMAIN functions[f].code :
              functions[f].code[k].result \in 0..temp_num

NInv ==
  /\ temp_num \in 0..(UInt16 - 1)
  /\ HeapOK /\ SetOnce /\ Numbered /\ ReservedOnce

(* What a step may set or reserve: a new number, or what was reserved for it. *)
Usable(r) == r \in (temp_num + 1)..temp_num' \/ r = Reserved(Head(work))

(* The width of the counter is a number; no step needs to know which.        *)
LEMMA UInt16Nat == UInt16 \in Nat \ {0}
BY DEF UInt16

LEMMA UsableFresh ==
  ASSUME WInv, NInv, work # <<>>, temp_num' \in temp_num..(UInt16 - 1),
         NEW r, r # 0, Usable(r)
  PROVE  /\ r \in 0..temp_num' /\ Unset(r)
         /\ \A p \in 2..Len(work) : Reserved(work[p]) # r
<1>1. Len(work) \in Nat \ {0} /\ Head(work) = work[1]
  BY TailShape DEF WInv, Items
<1>2. temp_num \in Nat /\ temp_num' \in Nat /\ temp_num <= temp_num'
  BY UInt16Nat DEF NInv
<1>3. CASE r \in (temp_num + 1)..temp_num'
  <2>1. Unset(r)
    BY <1>2, <1>3 DEF NInv, Numbered, Unset
  <2>2. \A p \in 1..Len(work) : Reserved(work[p]) # r
    BY <1>2, <1>3 DEF NInv, ReservedOnce
  <2>3. QED
    BY <1>1, <1>2, <1>3, <2>1, <2>2
<1>4. CASE r = Reserved(work[1])
  <2>1. 1 \in 1..Len(work)
    BY <1>1
  <2>2. /\ r \in 0..temp_num /\ Unset(r)
        /\ \A q \in 1..Len(work) : Reserved(work[q]) = r => 1 = q
    BY <1>4, <2>1 DEF NInv, ReservedOnce
  <2>3. QED
    BY <1>1, <1>2, <2>2
<1>5. QED
  BY <1>1, <1>3, <1>4 DEF Usable

LEMMA CounterNat ==
  ASSUME NInv
  PROVE  temp_num \in Nat /\ temp_num <= UInt16 - 1
<1>1. temp_num \in 0..(UInt16 - 1)
  BY DEF NInv
<1>2. QED
  BY <1>1, UInt16Nat

LEMMA NumberStep ==
  ASSUME WInv, NInv, work # <<>>, NEW items, Items(items), Proceed(items),
         temp_num' \in temp_num..(UInt16 - 1), HeapOK',
         NEW c, NEW g, NEW n \in Int, Extends(functions, functions', g, n, c),
         \A k \in DOMAIN c : c[k].result # 0 =>
           /\ Usable(c[k].result)
           /\ \A l \in DOMAIN c : c[l].result = c[k].result => k = l,
         \A i \in 1..Len(items) : Reserved(items[i]) # 0 =>
           /\ Usable(Reserved(items[i]))
           /\ \A k \in DOMAIN c : c[k].result # Reserved(items[i])
           /\ \A j \in 1..Len(items) : Reserved(items[j]) = Reserved(items[i]) => i = j
  PROVE  NInv'
<1> DEFINE fs == functions
           gs == functions'
           old(f, k) == /\ f \in DOMAIN fs /\ k \in DOMAIN fs[f].code
                        /\ gs[f].code[k].result = fs[f].code[k].result
           new(f, k) == /\ f = g /\ k \in Int /\ k - n \in DOMAIN c
                        /\ gs[f].code[k].result = c[k - n].result
<1>0. temp_num \in Nat
  BY CounterNat
<1>1. temp_num' \in Nat /\ temp_num <= temp_num' /\ temp_num' <= UInt16 - 1
  BY <1>0, UInt16Nat
<1>2. \A f \in DOMAIN gs : \A k \in DOMAIN gs[f].code : old(f, k) \/ new(f, k)
  BY DEF Extends
<1>3. \A f \in DOMAIN fs : \A k \in DOMAIN fs[f].code : fs[f].code[k].result \in 0..temp_num
  BY DEF NInv, Numbered
<1>4. \A f, h \in DOMAIN fs : \A k \in DOMAIN fs[f].code, l \in DOMAIN fs[h].code :
        fs[f].code[k].result = fs[h].code[l].result /\ fs[f].code[k].result # 0 => f = h /\ k = l
  BY DEF NInv, SetOnce
<1>5. \A k \in DOMAIN c : c[k].result # 0 =>
        /\ c[k].result \in 0..temp_num'
        /\ \A f \in DOMAIN fs : \A l \in DOMAIN fs[f].code : fs[f].code[l].result # c[k].result
        /\ \A p \in 2..Len(work) : Reserved(work[p]) # c[k].result
  BY UsableFresh DEF Unset
<1> HIDE DEF fs, gs
<1>6. ASSUME NEW f \in DOMAIN gs, NEW k \in DOMAIN gs[f].code
      PROVE  gs[f].code[k].result \in 0..temp_num'
  BY <1>0, <1>1, <1>2, <1>3, <1>5
<1>7. ASSUME NEW f \in DOMAIN gs, NEW h \in DOMAIN gs,
             NEW k \in DOMAIN gs[f].code, NEW l \in DOMAIN gs[h].code,
             gs[f].code[k].result = gs[h].code[l].result, gs[f].code[k].result # 0
      PROVE  f = h /\ k = l
  <2>1. CASE old(f, k) /\ old(h, l)
    <3>1. /\ f \in DOMAIN fs /\ h \in DOMAIN fs /\ k \in DOMAIN fs[f].code /\ l \in DOMAIN fs[h].code
          /\ fs[f].code[k].result = fs[h].code[l].result /\ fs[f].code[k].result # 0
      BY <1>7, <2>1
    <3>2. QED
      BY <1>4, <3>1
  <2>2. CASE new(f, k) /\ new(h, l)
    <3>1. /\ f = h /\ k \in Int /\ l \in Int /\ k - n \in DOMAIN c /\ l - n \in DOMAIN c
          /\ c[k - n].result = c[l - n].result /\ c[k - n].result # 0
      BY <1>7, <2>2
    <3>2. k - n = l - n
      BY <3>1
    <3>3. QED
      BY <3>1, <3>2
  <2>3. CASE old(f, k) /\ new(h, l)
    <3>1. /\ f \in DOMAIN fs /\ k \in DOMAIN fs[f].code /\ l - n \in DOMAIN c
          /\ fs[f].code[k].result = c[l - n].result /\ c[l - n].result # 0
      BY <1>7, <2>3
    <3>2. QED
      BY <1>5, <3>1
  <2>4. CASE new(f, k) /\ old(h, l)
    <3>1. /\ h \in DOMAIN fs /\ l \in DOMAIN fs[h].code /\ k - n \in DOMAIN c
          /\ fs[h].code[l].result = c[k - n].result /\ c[k - n].result # 0
      BY <1>7, <2>4
    <3>2. QED
      BY <1>5, <3>1
  <2>5. QED
    BY <1>2, <2>1, <2>2, <2>3, <2>4
<1>8. SetOnce' /\ Numbered'
  BY <1>6, <1>7 DEF SetOnce, Numbered, gs
<1> DEFINE later == work'
           m == Len(items)
<1>9. /\ m \in Nat /\ Len(work) \in Nat \ {0} /\ Len(later) = m + Len(work) - 1
      /\ \A p \in 1..m : later[p] = items[p]
      /\ \A p \in 1..(Len(work) - 1) : later[m + p] = work[p + 1]
  <2>1. /\ Len(work) \in Nat \ {0} /\ IsSeq(Tail(work)) /\ Len(Tail(work)) = Len(work) - 1
        /\ \A p \in 1..(Len(work) - 1) : Tail(work)[p] = work[p + 1]
    BY TailShape DEF WInv, Items
  <2> DEFINE t == Tail(work)
  <2>2. later = items \o t /\ IsSeq(items) /\ IsSeq(t)
    BY <2>1 DEF Proceed, Items
  <2> HIDE DEF t
  <2>3. /\ Len(items \o t) = Len(items) + Len(t) /\ Len(items) \in Nat
        /\ \A p \in 1..Len(items) : (items \o t)[p] = items[p]
        /\ \A p \in 1..Len(t) : (items \o t)[Len(items) + p] = t[p]
    BY <2>2, ConcatShape, SeqShape
  <2>4. QED
    BY <2>1, <2>2, <2>3 DEF t
<1> HIDE DEF later, m
<1>10. ASSUME NEW p \in 1..Len(later)
       PROVE  \/ p \in 1..m /\ later[p] = items[p]
              \/ p > m /\ p - m + 1 \in 2..Len(work) /\ later[p] = work[p - m + 1]
  <2>1. CASE p <= m
    BY <1>9, <2>1
  <2>2. CASE ~(p <= m)
    <3>1. p - m \in 1..(Len(work) - 1) /\ m + (p - m) = p /\ p \in Int
      BY <1>9, <2>2
    <3>2. later[m + (p - m)] = work[(p - m) + 1]
      BY <1>9, <3>1
    <3>3. QED
      BY <1>9, <2>2, <3>1, <3>2
  <2>3. QED
    BY <2>1, <2>2
<1>11. \A i \in 1..m : Reserved(items[i]) # 0 =>
         /\ Reserved(items[i]) \in 0..temp_num'
         /\ \A f \in DOMAIN fs : \A k \in DOMAIN fs[f].code : fs[f].code[k].result # Reserved(items[i])
         /\ \A p \in 2..Len(work) : Reserved(work[p]) # Reserved(items[i])
         /\ \A k \in DOMAIN c : c[k].result # Reserved(items[i])
         /\ \A j \in 1..m : Reserved(items[j]) = Reserved(items[i]) => i = j
  BY UsableFresh DEF Unset, m, fs
<1>12. \A p \in 2..Len(work) :
         /\ Reserved(work[p]) \in 0..temp_num
         /\ Reserved(work[p]) # 0 =>
              /\ \A f \in DOMAIN fs : \A k \in DOMAIN fs[f].code : fs[f].code[k].result # Reserved(work[p])
              /\ \A q \in 2..Len(work) : Reserved(work[q]) = Reserved(work[p]) => p = q
              /\ \A k \in DOMAIN c : c[k].result # Reserved(work[p])
  <2>1. \A p \in 2..Len(work) :
         /\ Reserved(work[p]) \in 0..temp_num
         /\ Reserved(work[p]) # 0 =>
              /\ \A f \in DOMAIN fs : \A k \in DOMAIN fs[f].code : fs[f].code[k].result # Reserved(work[p])
              /\ \A q \in 2..Len(work) : Reserved(work[q]) = Reserved(work[p]) => p = q
    BY <1>9 DEF NInv, ReservedOnce, Unset, fs
  <2>2. QED
    BY <1>5, <2>1
<1>13. ASSUME NEW p \in 1..Len(later)
       PROVE  Reserved(later[p]) \in 0..temp_num'
  <2>1. CASE p \in 1..m /\ later[p] = items[p]
    BY <1>0, <1>1, <1>11, <2>1
  <2>2. CASE p - m + 1 \in 2..Len(work) /\ later[p] = work[p - m + 1]
    BY <1>0, <1>1, <1>12, <2>2
  <2>3. QED
    BY <1>10, <2>1, <2>2
<1>14. ASSUME NEW p \in 1..Len(later), Reserved(later[p]) # 0
       PROVE  /\ \A f \in DOMAIN fs : \A k \in DOMAIN fs[f].code : fs[f].code[k].result # Reserved(later[p])
              /\ \A k \in DOMAIN c : c[k].result # Reserved(later[p])
  BY <1>0, <1>10, <1>11, <1>12, <1>14
<1>15. ASSUME NEW p \in 1..Len(later), Reserved(later[p]) # 0,
              NEW f \in DOMAIN gs, NEW k \in DOMAIN gs[f].code
       PROVE  gs[f].code[k].result # Reserved(later[p])
  BY <1>2, <1>14, <1>15
<1>16. ASSUME NEW p \in 1..Len(later), Reserved(later[p]) # 0, NEW q \in 1..Len(later),
              Reserved(later[q]) = Reserved(later[p])
       PROVE  p = q
  <2>1. CASE p \in 1..m /\ later[p] = items[p] /\ q \in 1..m /\ later[q] = items[q]
    BY <1>11, <1>16, <2>1
  <2>2. CASE /\ p - m + 1 \in 2..Len(work) /\ later[p] = work[p - m + 1]
             /\ q - m + 1 \in 2..Len(work) /\ later[q] = work[q - m + 1]
    <3>1. p - m + 1 = q - m + 1
      BY <1>12, <1>16, <2>2
    <3>2. QED
      BY <1>9, <3>1
  <2>3. CASE p \in 1..m /\ later[p] = items[p] /\ q - m + 1 \in 2..Len(work) /\ later[q] = work[q - m + 1]
    BY <1>11, <1>16, <2>3
  <2>4. CASE q \in 1..m /\ later[q] = items[q] /\ p - m + 1 \in 2..Len(work) /\ later[p] = work[p - m + 1]
    BY <1>11, <1>16, <2>4
  <2>5. QED
    BY <1>10, <2>1, <2>2, <2>3, <2>4
<1>17. ReservedOnce'
  BY <1>13, <1>15, <1>16 DEF ReservedOnce, Unset, Reserved, later, gs
<1>18. temp_num' \in 0..(UInt16 - 1)
  <2>1. UInt16 - 1 \in Int
    BY UInt16Nat
  <2>2. QED
    BY <1>1, <2>1
<1>19. QED
  BY <1>8, <1>17, <1>18 DEF NInv
-----------------------------------------------------------------------------
(* The items that the steps put in front.                                  *)
Plain(s) == \A i \in 1..Len(s) : s[i].op \notin {"then", "else"}

LEMMA PlainConcat ==
  ASSUME NEW s, NEW t, Items(s), Items(t), Plain(s), Plain(t)
  PROVE  Plain(s \o t)
<1> DEFINE u == s \o t
<1>1. /\ Len(u) = Len(s) + Len(t) /\ Len(s) \in Nat /\ Len(t) \in Nat
      /\ \A i \in 1..Len(s) : u[i] = s[i]
      /\ \A i \in 1..Len(t) : u[Len(s) + i] = t[i]
  BY ConcatShape, SeqShape DEF Items
<1> HIDE DEF u
<1>2. ASSUME NEW i \in 1..Len(u) PROVE u[i].op \notin {"then", "else"}
  <2>1. CASE i \in 1..Len(s)
    BY <1>1, <2>1 DEF Plain
  <2>2. CASE i \notin 1..Len(s)
    <3>1. i - Len(s) \in 1..Len(t) /\ i = Len(s) + (i - Len(s))
      BY <1>1, <2>2
    <3>2. u[i] = t[i - Len(s)]
      BY <1>1, <3>1
    <3>3. QED
      BY <3>1, <3>2 DEF Plain
  <2>3. QED
    BY <2>1, <2>2
<1>3. QED
  BY <1>2 DEF Plain, u

LEMMA RunsLower ==
  ASSUME NEW s, Items(s), NEW low, NEW high \in Int, NEW floor, Runs(s, low, high, floor),
         NEW less \in Int, less <= high
  PROVE  Runs(s, low, less, floor)
<1>1. PICK h : Heights(h, s, floor) /\ h[1] <= low /\ high <= h[Len(s) + 1]
  BY DEF Runs
<1>2. h[Len(s) + 1] \in Int
  BY <1>1, SeqShape DEF Heights, Items
<1>3. less <= h[Len(s) + 1]
  BY <1>1, <1>2
<1>4. QED
  BY <1>1, <1>3 DEF Runs

LEMMA VisitsRun ==
  ASSUME NEW nodes \in Seq(Nodes), NEW low \in Int
  PROVE  Items(Visits(nodes)) /\ Plain(Visits(nodes)) /\ Runs(Visits(nodes), low, low, low)
<1> DEFINE s == Visits(nodes)
           n == Len(nodes)
           m == low + n
<1>1. /\ Items(s) /\ Len(s) = n /\ n \in Nat
      /\ \A i \in 1..n : s[i] = [op |-> "visit", node |-> nodes[i]]
      /\ Runs(s, low, m, low)
  BY ItemsVisits, RunsVisits
<1>2. m \in Int /\ low <= m
  BY <1>1
<1> HIDE DEF s, n, m
<1>3. Plain(s)
  BY <1>1 DEF Plain
<1>4. Runs(s, low, low, low)
  BY <1>1, <1>2, RunsLower
<1>5. QED
  BY <1>1, <1>3, <1>4 DEF s

(* Some nodes, and an operation that pops no more than they push.          *)
LEMMA VisitsRest ==
  ASSUME NEW nodes \in Seq(Nodes), NEW op, NEW arg, ItemOK([op |-> op, arg |-> arg]),
         op \notin {"visit", "close"}, Pops([op |-> op, arg |-> arg]) <= Len(nodes),
         NEW low \in Int
  PROVE  /\ Items(Visits(nodes) \o Rest(op, arg))
         /\ op \notin {"then", "else"} => Plain(Visits(nodes) \o Rest(op, arg))
         /\ Runs(Visits(nodes) \o Rest(op, arg), low, low + Pushes([op |-> op, arg |-> arg]), low)
<1> DEFINE w == [op |-> op, arg |-> arg]
           s == Visits(nodes)
           t == Rest(op, arg)
           n == Len(nodes)
<1>1. /\ Items(s) /\ Len(s) = n /\ n \in Nat
      /\ \A i \in 1..n : s[i] = [op |-> "visit", node |-> nodes[i]]
      /\ Runs(s, low, low + n, low)
  BY ItemsVisits, RunsVisits
<1>2. Items(t) /\ Len(t) = 1 /\ t[1] = w
  BY ItemsRest
<1>3. w.op = op /\ ItemOK(w) /\ Pops(w) <= n
  OBVIOUS
<1> HIDE DEF s, t, w, n
<1>4. Plain(s)
  BY <1>1 DEF Plain
<1>5. op \notin {"then", "else"} => Plain(t)
  BY <1>2, <1>3 DEF Plain
<1>6. low + n \in Int /\ Pushes(w) \in 0..1 /\ Pops(w) \in Nat /\ Left(w, low + n) = low + n - Pops(w)
  BY <1>1, <1>3, LeftInt DEF Left
<1>7. Runs(t, low + n, low + Pushes(w), low)
  <2> DEFINE k == low + n
             l == low + Pushes(w)
  <2>1. /\ k \in Int /\ l \in Int
        /\ low <= Left(t[1], k) /\ Left(t[1], k) <= k /\ l <= Left(t[1], k) + Pushes(t[1])
    BY <1>1, <1>2, <1>3, <1>6
  <2> HIDE DEF k, l
  <2>2. Runs(t, k, l, low)
    BY <1>2, <2>1, RunsOne
  <2>3. QED
    BY <2>2 DEF k, l
<1>8. \A c \in 1..Len(t) : t[c].op = "close" => t[c].arg <= low
  BY <1>2, <1>3
<1>9. Runs(s \o t, low, low + Pushes(w), low)
  <2> DEFINE k == low + n
             l == low + Pushes(w)
  <2>1. k \in Int /\ l \in Int /\ Runs(s, low, k, low) /\ Runs(t, k, l, low) /\ low <= low
    BY <1>1, <1>6, <1>7
  <2> HIDE DEF k, l
  <2>2. Runs(s \o t, low, l, low)
    BY <1>1, <1>2, <1>8, <2>1, RunsConcat
  <2>3. QED
    BY <2>2 DEF l
<1>10. QED
  BY <1>1, <1>2, <1>4, <1>5, <1>9, ItemsConcat, PlainConcat DEF s, t, w

(* What a step puts in front, and what it does to the stack for it.        *)
Fits(items) ==
  /\ work # <<>> /\ Items(items) /\ Proceed(items) /\ Underneath
  /\ Runs(items, Len(args_stack'), Kept + Pushes(Head(work)), Kept)

LEMMA FitsSteady ==
  ASSUME WInv, SInv, NEW items, Fits(items)
  PROVE  WInv' /\ Steady
BY ItemsProceed, StackStep DEF Fits

(* A node that leaves the stack alone at first.                            *)
LEMMA VisitFits ==
  ASSUME WInv, SInv, At("visit"), NEW s, Items(s), Plain(s),
         NEW m \in Int, Height <= m, Runs(s, Height, m, Height),
         Proceed(s \o Close), UNCHANGED args_stack
  PROVE  Fits(s \o Close) /\ Plain(s \o Close)
<1>1. work # <<>> /\ Height \in Nat /\ IsSeq(args_stack) /\ Head(work).op = "visit"
  BY SeqShape DEF SInv, Height, At
<1>2. Kept = Height /\ Pushes(Head(work)) = 1
  BY <1>1 DEF Kept, Left, Pops, Pushes
<1>3. Underneath
  BY <1>1, <1>2 DEF Underneath, Height
<1> DEFINE t == Close
           k == Height
           l == Height + 1
<1>4. Items(t) /\ Len(t) = 1 /\ t[1] = [op |-> "close", arg |-> k]
  BY <1>1, ItemsClose DEF Height
<1>5. k \in Int /\ l \in Int /\ l = k + 1 /\ k <= m /\ Runs(s, k, m, k)
  BY <1>1
<1> HIDE DEF t, k, l
<1>6. Left(t[1], m) = k /\ Pushes(t[1]) = 1
  BY <1>4 DEF Left, Pushes
<1>7. Runs(t, m, l, k)
  BY <1>4, <1>5, <1>6, RunsOne
<1>8. Runs(s \o t, k, l, k)
  <2>1. k <= k /\ \A c \in 1..Len(t) : t[c].op = "close" => t[c].arg <= k
    BY <1>4, <1>5
  <2>2. QED
    BY <1>4, <1>5, <1>7, <2>1, RunsConcat
<1>9. Items(s \o t) /\ Plain(s \o t)
  <2>1. Plain(t)
    BY <1>4 DEF Plain
  <2>2. QED
    BY <1>4, <2>1, ItemsConcat, PlainConcat
<1>10. QED
  BY <1>1, <1>2, <1>3, <1>8, <1>9 DEF Fits, t, k, l, Height

(* A node that is done.                                                    *)
LEMMA CloseFits ==
  ASSUME WInv, SInv, At("visit"), Underneath, Proceed(Close)
  PROVE  Fits(Close) /\ Plain(Close)
<1>1. work # <<>> /\ Height \in Nat /\ IsSeq(args_stack) /\ Head(work).op = "visit"
  BY SeqShape DEF SInv, Height, At
<1>2. Kept = Height /\ Pushes(Head(work)) = 1
  BY <1>1 DEF Kept, Left, Pops, Pushes
<1>3. IsSeq(args_stack') /\ Height <= Len(args_stack')
  BY <1>2 DEF Underneath
<1>4. Items(Close) /\ Len(Close) = 1 /\ Close[1] = [op |-> "close", arg |-> Height]
  BY <1>1, ItemsClose DEF Height
<1> DEFINE k == Height
           l == Len(args_stack')
           m == Height + 1
           s == Close
<1>5. /\ k \in Int /\ l \in Int /\ k <= l /\ m = k + 1 /\ m \in Int
      /\ Items(s) /\ Len(s) = 1 /\ s[1] = [op |-> "close", arg |-> k]
  BY <1>1, <1>3, <1>4, SeqShape
<1> HIDE DEF k, l, m, s
<1>6. Left(s[1], l) = k /\ Pushes(s[1]) = 1
  BY <1>5 DEF Left, Pushes
<1>7. Runs(s, l, m, k)
  BY <1>5, <1>6, RunsOne
<1>8. Plain(Close)
  BY <1>4 DEF Plain
<1>9. QED
  BY <1>1, <1>2, <1>4, <1>7, <1>8 DEF Fits, k, l, m, s

LEMMA PushFits ==
  ASSUME WInv, SInv, At("visit"), NEW t, PushTemp(t), Proceed(Close)
  PROVE  Fits(Close) /\ Plain(Close)
<1>1. Height \in Nat /\ IsSeq(args_stack) /\ Head(work).op = "visit"
  BY SeqShape DEF SInv, Height, At
<1>2. Kept = Height
  BY <1>1 DEF Kept, Left, Pops
<1>3. /\ IsSeq(args_stack') /\ Len(args_stack') = Height + 1
      /\ \A i \in 1..Height : args_stack'[i] = args_stack[i]
  BY <1>1, AppendShape DEF PushTemp, Height
<1>4. Underneath
  BY <1>1, <1>2, <1>3 DEF Underneath
<1>5. QED
  BY <1>4, CloseFits

(* The rest of a call that is over with it.                                *)
LEMMA PopFits ==
  ASSUME WInv, SInv, work # <<>>, Proceed(<<>>), Underneath,
         Kept + Pushes(Head(work)) <= Len(args_stack')
  PROVE  Fits(<<>>) /\ Plain(<<>>)
<1>1. Items(<<>>) /\ Plain(<<>>)
  BY NoneShape DEF Items, Plain
<1> DEFINE m == Kept + Pushes(Head(work))
           l == Len(args_stack')
<1>2. m \in Int /\ l \in Int /\ m <= l
  BY FrontFits, SeqShape DEF Underneath
<1> HIDE DEF m, l
<1>3. Runs(<<>>, l, m, Kept)
  BY <1>2, RunsNone
<1>4. QED
  BY <1>1, <1>3 DEF Fits, m, l

(* An operation pops its operands ...                                      *)
LEMMA PoppedUnder ==
  ASSUME WInv, SInv, work # <<>>, Head(work).op # "close",
         args_stack' = Dropped(Pops(Head(work)))
  PROVE  Underneath /\ Len(args_stack') = Kept /\ Kept \in Nat
<1>1. Height \in Nat /\ Kept \in 0..Height /\ ItemOK(Head(work)) /\ IsSeq(args_stack)
  BY FrontFits DEF SInv
<1>2. Pops(Head(work)) \in Nat /\ Kept = Height - Pops(Head(work))
  BY <1>1, LeftInt DEF Kept, Left
<1>3. Kept \in 0..Len(args_stack)
  BY <1>1 DEF Height
<1> DEFINE k == Kept
<1>4. args_stack' = SubSeq(args_stack, 1, k)
  BY <1>2 DEF Dropped, Height
<1> HIDE DEF k
<1>5. /\ IsSeq(args_stack') /\ Len(args_stack') = k
      /\ \A i \in 1..k : args_stack'[i] = args_stack[i]
  BY <1>1, <1>3, <1>4, PrefixShape DEF k
<1>6. QED
  BY <1>1, <1>5 DEF Underneath, k

(* ... and pushes its result.                                              *)
LEMMA OperationFits ==
  ASSUME WInv, SInv, work # <<>>, Head(work).op # "close", NEW x,
         args_stack' = Append(Dropped(Pops(Head(work))), x), Proceed(<<>>)
  PROVE  Fits(<<>>) /\ Plain(<<>>)
<1>1. Height \in Nat /\ Kept \in 0..Height /\ ItemOK(Head(work)) /\ IsSeq(args_stack)
      /\ Pushes(Head(work)) \in 0..1
  BY FrontFits DEF SInv
<1>2. Pops(Head(work)) \in Nat /\ Kept = Height - Pops(Head(work))
  BY <1>1, LeftInt DEF Kept, Left
<1>3. Kept \in 0..Len(args_stack)
  BY <1>1 DEF Height
<1> DEFINE k == Kept
           s == SubSeq(args_stack, 1, k)
<1>4. args_stack' = Append(s, x)
  BY <1>2 DEF Dropped, Height
<1>5. IsSeq(s) /\ Len(s) = k /\ \A i \in 1..k : s[i] = args_stack[i]
  <2> HIDE DEF k
  <2>1. k \in 0..Len(args_stack)
    BY <1>3 DEF k
  <2>2. QED
    BY <1>1, <2>1, PrefixShape
<1> HIDE DEF k, s
<1>6. /\ IsSeq(args_stack') /\ Len(args_stack') = k + 1
      /\ \A i \in 1..k : args_stack'[i] = s[i]
  <2>1. IsSeq(s)
    BY <1>5
  <2>2. /\ IsSeq(Append(s, x)) /\ Len(Append(s, x)) = Len(s) + 1
        /\ \A i \in 1..Len(s) : Append(s, x)[i] = s[i]
    BY <2>1, AppendShape
  <2>3. QED
    BY <1>4, <1>5, <2>2
<1>7. Underneath /\ Kept + Pushes(Head(work)) <= Len(args_stack')
  BY <1>1, <1>5, <1>6 DEF Underneath, k
<1>8. QED
  BY <1>7, PopFits

-----------------------------------------------------------------------------
(* Action by action.                                                       *)
Fitting == \E items : Fits(items) /\ Plain(items)

LEMMA FrontOK ==
  ASSUME WInv, work # <<>>
  PROVE  ItemOK(Head(work))
<1>1. Len(work) \in Nat \ {0} /\ Head(work) = work[1]
  BY TailShape DEF WInv, Items
<1>2. QED
  BY <1>1 DEF WInv, Items

LEMMA VisitNode ==
  ASSUME WInv, At("visit")
  PROVE  work # <<>> /\ Node \in Nodes
BY FrontOK DEF At, ItemOK, Node

LEMMA ExternFits == ASSUME WInv, SInv, GenExtern PROVE Fitting
<1>1. At("visit") /\ Proceed(Close) /\ UNCHANGED args_stack
  BY DEF GenExtern, AtNode
<1>2. Underneath
  BY <1>1, FrontFits DEF Underneath, SInv, Height, At
<1>3. QED
  BY <1>1, <1>2, CloseFits DEF Fitting

LEMMA DefFits == ASSUME WInv, SInv, GenDef PROVE Fitting
<1> DEFINE nodes == Node.body
           s == Visits(nodes)
           m == Height
<1>1. /\ At("visit") /\ Node.kind = "DEF" /\ UNCHANGED args_stack
      /\ Proceed(s \o Close)
  BY DEF GenDef, AtNode, Node
<1>2. nodes \in Seq(Nodes)
  BY <1>1, VisitNode, NodesAssumption
<1>3. m \in Int /\ m <= m
  BY SeqShape DEF SInv, Height
<1> HIDE DEF nodes, m
<1>4. Items(s) /\ Plain(s) /\ Runs(s, m, m, m)
  BY <1>2, <1>3, VisitsRun
<1>5. QED
  BY <1>1, <1>3, <1>4, VisitFits DEF Fitting, m

LEMMA FuncFits == ASSUME WInv, SInv, GenFunc PROVE Fitting
<1> DEFINE arg == [node |-> Node, prev_func |-> current_function]
           w == [op |-> "end_func", arg |-> arg]
           s == Visits(Node.body) \o Rest("end_func", arg)
<1>1. /\ At("visit") /\ Node.kind = "FUNC" /\ UNCHANGED args_stack
      /\ Proceed(s \o Close)
  BY DEF GenFunc, AtNode, Node
<1>2. Node \in Nodes /\ Node.body \in Seq(Nodes) /\ (Node.ret_type_void \/ Node.body # <<>>)
  BY <1>1, VisitNode, NodesAssumption, BodiesAssumption
<1>3. ItemOK(w) /\ Pushes(w) = 0
  BY DEF ItemOK, Operations, Pushes
<1>4. Pops(w) <= Len(Node.body)
  <2>1. w.op = "end_func" /\ w.arg.node = Node
    OBVIOUS
  <2> HIDE DEF w
  <2>2. Pops(w) = IF Node.ret_type_void THEN 0 ELSE 1
    BY <2>1 DEF Pops, Operations
  <2>3. Len(Node.body) \in Nat /\ (Node.body # <<>> => Len(Node.body) # 0)
    BY <1>2
  <2>4. QED
    BY <1>2, <2>2, <2>3
<1>5. Height \in Int
  BY SeqShape DEF SInv, Height
<1> HIDE DEF arg
<1>6. Items(s) /\ Plain(s) /\ Runs(s, Height, Height + 0, Height)
  BY <1>2, <1>3, <1>4, <1>5, VisitsRest
<1> HIDE DEF s
<1>7. Height + 0 = Height /\ Height <= Height
  BY <1>5
<1>8. QED
  BY <1>1, <1>5, <1>6, <1>7, VisitFits DEF Fitting

(* What is left of a let.                                                  *)
LEMMA BindingsRun ==
  ASSUME NEW let \in Nodes, let.kind = "VARDEF", NEW j \in Nat \ {0}, NEW low \in Int
  PROVE  /\ Items(BindingsFrom(let, j)) /\ Plain(BindingsFrom(let, j))
         /\ Runs(BindingsFrom(let, j), low, low, low)
<1>1. /\ let.body \in Seq(Nodes)
      /\ DOMAIN let.variables = 1..Len(let.variables) /\ Len(let.variables) \in Nat
      /\ \A i \in DOMAIN let.variables : let.variables[i].value \in Seq(Nodes) \ {<<>>}
  BY NodesAssumption
<1>2. CASE j > Len(let.variables)
  <2>1. BindingsFrom(let, j) = Visits(let.body)
    BY <1>2 DEF BindingsFrom
  <2> DEFINE b == let.body
  <2>2. b \in Seq(Nodes)
    BY <1>1
  <2> HIDE DEF b
  <2>3. Items(Visits(b)) /\ Plain(Visits(b)) /\ Runs(Visits(b), low, low, low)
    BY <2>2, VisitsRun
  <2>4. QED
    BY <2>1, <2>3 DEF b
<1>3. CASE ~(j > Len(let.variables))
  <2> DEFINE value == let.variables[j].value
             arg == [let |-> let, j |-> j]
             w == [op |-> "bind", arg |-> arg]
  <2>1. BindingsFrom(let, j) = Visits(value) \o Rest("bind", arg)
    BY <1>3 DEF BindingsFrom
  <2>2. j \in DOMAIN let.variables /\ value \in Seq(Nodes) /\ value # <<>>
    BY <1>1, <1>3
  <2>3. ItemOK(w)
    BY <2>2 DEF ItemOK, Operations
  <2>4. Pushes(w) = 0 /\ Pops(w) = 1
    BY DEF Pushes, Pops, Operations
  <2> HIDE DEF value, arg
  <2>5. Len(value) \in Nat /\ 1 <= Len(value)
    BY <2>2
  <2>6. /\ Items(Visits(value) \o Rest("bind", arg)) /\ Plain(Visits(value) \o Rest("bind", arg))
        /\ Runs(Visits(value) \o Rest("bind", arg), low, low + Pushes(w), low)
    BY <2>2, <2>3, <2>4, <2>5, VisitsRest
  <2>7. low + Pushes(w) = low
    BY <2>4
  <2>8. QED
    BY <2>1, <2>6, <2>7
<1>4. QED
  BY <1>2, <1>3

LEMMA VardefFits == ASSUME WInv, SInv, GenVardef PROVE Fitting
<1> DEFINE s == BindingsFrom(Node, 1)
           m == Height
<1>1. At("visit") /\ Node.kind = "VARDEF" /\ UNCHANGED args_stack /\ Proceed(s \o Close)
  BY DEF GenVardef, AtNode, Node
<1>2. Node \in Nodes
  BY <1>1, VisitNode
<1>3. m \in Int /\ m <= m /\ 1 \in Nat \ {0}
  BY SeqShape DEF SInv, Height
<1> HIDE DEF m
<1>4. Items(s) /\ Plain(s) /\ Runs(s, m, m, m)
  BY <1>1, <1>2, <1>3, BindingsRun
<1>5. QED
  BY <1>1, <1>3, <1>4, VisitFits DEF Fitting, m

LEMMA BindFits == ASSUME WInv, SInv, Bind PROVE Fitting
<1> DEFINE s == BindingsFrom(Arg.let, Arg.j + 1)
           w == Head(work)
           k == Kept
<1>1. /\ work # <<>> /\ w.op = "bind" /\ w.arg = Arg
      /\ args_stack' = Dropped(1) /\ Proceed(s)
  BY DEF Bind, At, Arg
<1>2. ItemOK(w)
  BY <1>1, FrontOK
<1>3. Pops(w) = 1 /\ Pushes(w) = 0
  BY <1>1 DEF Pops, Pushes, Operations
<1>4. /\ Arg.let \in Nodes /\ Arg.let.kind = "VARDEF" /\ Arg.j \in DOMAIN Arg.let.variables
  BY <1>1, <1>2 DEF ItemOK
<1>5. Arg.j + 1 \in Nat \ {0}
  <2>1. DOMAIN Arg.let.variables = 1..Len(Arg.let.variables)
    BY <1>4, NodesAssumption
  <2>2. QED
    BY <1>4, <2>1
<1>6. Underneath /\ Len(args_stack') = k /\ k \in Nat
  BY <1>1, <1>3, PoppedUnder
<1> HIDE DEF k
<1>7. Items(s) /\ Plain(s) /\ Runs(s, k, k, k)
  <2> DEFINE let == Arg.let
             j == Arg.j + 1
  <2>1. let \in Nodes /\ let.kind = "VARDEF" /\ j \in Nat \ {0} /\ k \in Int
    BY <1>4, <1>5, <1>6
  <2> HIDE DEF let, j
  <2>2. /\ Items(BindingsFrom(let, j)) /\ Plain(BindingsFrom(let, j))
        /\ Runs(BindingsFrom(let, j), k, k, k)
    BY <2>1, BindingsRun
  <2>3. QED
    BY <2>2 DEF let, j
<1> HIDE DEF s
<1>8. k + Pushes(w) = k
  BY <1>3, <1>6
<1>9. QED
  BY <1>1, <1>6, <1>7, <1>8 DEF Fitting, Fits, k

LEMMA EndFuncFits == ASSUME WInv, SInv, EndFunc PROVE Fitting
<1> DEFINE w == Head(work)
<1>1. work # <<>> /\ w.op = "end_func" /\ w.arg = Arg /\ Proceed(<<>>)
  BY DEF EndFunc, At, Arg
<1>2. Pushes(w) = 0 /\ Pops(w) = IF Arg.node.ret_type_void THEN 0 ELSE 1
  BY <1>1 DEF Pops, Pushes, Operations
<1>3. CASE Arg.node.ret_type_void
  <2>1. UNCHANGED args_stack /\ Pops(w) = 0
    BY <1>2, <1>3 DEF EndFunc
  <2>2. Kept = Height /\ Height \in Nat /\ IsSeq(args_stack)
    BY <1>1, <2>1, SeqShape DEF Kept, Left, SInv, Height
  <2>3. Underneath /\ Kept + Pushes(w) <= Len(args_stack')
    BY <1>2, <2>1, <2>2 DEF Underneath, Height
  <2>4. QED
    BY <1>1, <2>3, PopFits DEF Fitting
<1>4. CASE ~Arg.node.ret_type_void
  <2>1. args_stack' = Dropped(1) /\ Pops(w) = 1
    BY <1>2, <1>4 DEF EndFunc
  <2>2. Underneath /\ Len(args_stack') = Kept /\ Kept \in Nat
    BY <1>1, <2>1, PoppedUnder
  <2>3. Kept + Pushes(w) <= Len(args_stack')
    BY <1>2, <2>2
  <2>4. QED
    BY <1>1, <2>2, <2>3, PopFits DEF Fitting
<1>5. QED
  BY <1>3, <1>4

LEMMA ValueFits ==
  ASSUME WInv, SInv, GenNumber \/ GenBool \/ GenString \/ GenVariable \/ GenSymbol
  PROVE  Fits(Close) /\ Plain(Close)
<1>1. At("visit") /\ Proceed(Close) /\ \E t : PushTemp(t)
  BY DEF GenNumber, GenBool, GenString, GenVariable, GenSymbol, EmitValue, AtNode
<1>2. QED
  BY <1>1, PushFits

LEMMA CallFits == ASSUME WInv, SInv, GenCall PROVE Fitting
<1> DEFINE op == IF Node.callee \in Builtins THEN Node.callee ELSE "call"
           nodes == Node.args
           w == [op |-> op, arg |-> Node]
           s == Visits(nodes) \o Rest(op, Node)
           m == Height
           k == m + Pushes(w)
<1>1. /\ At("visit") /\ Node.kind = "CALL" /\ Node.callee # "if"
      /\ Proceed(s \o Close) /\ UNCHANGED args_stack
  BY DEF GenCall, AtNode, Node
<1>2. Node \in Nodes /\ nodes \in Seq(Nodes) /\ m \in Int
  BY <1>1, VisitNode, NodesAssumption, SeqShape DEF SInv, Height
<1>3. op \in Operations
  BY <1>1 DEF Operations, Builtins
<1>4. op \notin {"visit", "close", "then", "else"} /\ ItemOK(w)
  BY <1>1, <1>2, <1>3 DEF ItemOK, Operations
<1>5. Pops(w) = Len(nodes) /\ Pushes(w) \in 0..1 /\ Len(nodes) \in Nat
  <2>1. w.op = op /\ w.arg = Node
    OBVIOUS
  <2> HIDE DEF w, op
  <2>2. Pops(w) = Len(nodes)
    BY <1>3, <1>4, <2>1 DEF Pops
  <2>3. QED
    BY <1>2, <2>2 DEF Pushes
<1> HIDE DEF op, nodes, m
<1>6. Items(s) /\ Plain(s) /\ Runs(s, m, k, m)
  <2>1. Pops(w) <= Len(nodes)
    BY <1>5
  <2>2. QED
    BY <1>2, <1>4, <2>1, VisitsRest
<1>7. k \in Int /\ m <= k
  BY <1>2, <1>5
<1> HIDE DEF s, k
<1>8. QED
  BY <1>1, <1>6, <1>7, VisitFits DEF Fitting, m

LEMMA OperatorFits ==
  ASSUME WInv, SInv, GenAdd \/ GenSub \/ GenLess \/ GenGreater \/ GenInvoke
  PROVE  Fits(<<>>) /\ Plain(<<>>)
<1>1. /\ work # <<>> /\ Head(work).op \in Operations /\ Proceed(<<>>)
      /\ \E x : args_stack' = Append(Dropped(Len(Arg.args)), x)
  <2>1. CASE GenAdd
    BY <2>1 DEF GenAdd, At, Operations
  <2>2. CASE GenSub \/ GenLess \/ GenGreater
    BY <2>2 DEF GenSub, GenLess, GenGreater, EmitBinary, At, Operations
  <2>3. CASE GenInvoke
    BY <2>3 DEF GenInvoke, At, Operations
  <2>4. QED
    BY <2>1, <2>2, <2>3
<1>2. Pops(Head(work)) = Len(Arg.args) /\ Head(work).op # "close"
  BY <1>1 DEF Pops, Arg, Operations
<1>3. QED
  BY <1>1, <1>2, OperationFits

(* The parts of an if.                                                     *)
LEMMA PartRun ==
  ASSUME NEW node \in Nodes, NEW op \in {"condition", "then", "else"}, NEW arg,
         ItemOK([op |-> op, arg |-> arg]), NEW low \in Int
  PROVE  /\ Items(Visits(<<node>>) \o Rest(op, arg))
         /\ op = "condition" => Plain(Visits(<<node>>) \o Rest(op, arg))
         /\ Runs(Visits(<<node>>) \o Rest(op, arg), low, low + 1, low)
<1> DEFINE w == [op |-> op, arg |-> arg]
           nodes == <<node>>
<1>1. nodes \in Seq(Nodes) /\ Len(nodes) = 1
  OBVIOUS
<1>2. Pops(w) = 1 /\ Pushes(w) = 1
  BY DEF Pops, Pushes, Operations
<1> HIDE DEF nodes
<1>3. op \notin {"visit", "close"} /\ Pops(w) <= Len(nodes)
  BY <1>1, <1>2
<1>4. /\ Items(Visits(nodes) \o Rest(op, arg))
      /\ op \notin {"then", "else"} => Plain(Visits(nodes) \o Rest(op, arg))
      /\ Runs(Visits(nodes) \o Rest(op, arg), low, low + Pushes(w), low)
  BY <1>1, <1>3, VisitsRest
<1>5. QED
  BY <1>2, <1>4 DEF nodes

LEMMA IfFits == ASSUME WInv, SInv, GenIf PROVE Fitting
<1> DEFINE arg == [node |-> Node, false |-> NextBranch(1), exit |-> NextBranch(2)]
           s == Visits(<<Node.args[1]>>) \o Rest("condition", arg)
           m == Height
           k == m + 1
<1>1. /\ At("visit") /\ Node.kind = "CALL" /\ Len(Node.args) = 3
      /\ Proceed(s \o Close) /\ UNCHANGED args_stack
  BY DEF GenIf, AtNode, Node
<1>2. Node \in Nodes /\ Node.args \in Seq(Nodes) /\ m \in Int
  BY <1>1, VisitNode, NodesAssumption, SeqShape DEF SInv, Height
<1>3. Node.args[1] \in Nodes
  BY <1>1, <1>2
<1>4. ItemOK([op |-> "condition", arg |-> arg])
  BY <1>1, <1>2 DEF ItemOK, Operations
<1> HIDE DEF arg, m
<1>5. Items(s) /\ Plain(s) /\ Runs(s, m, k, m)
  BY <1>2, <1>3, <1>4, PartRun
<1>6. k \in Int /\ m <= k
  BY <1>2
<1> HIDE DEF s, k
<1>7. QED
  BY <1>1, <1>5, <1>6, VisitFits DEF Fitting, m

LEMMA PartFits ==
  ASSUME WInv, SInv, work # <<>>, Head(work).op \in {"condition", "then"},
         args_stack' = Dropped(1), NEW node \in Nodes, NEW op \in {"then", "else"}, NEW arg,
         ItemOK([op |-> op, arg |-> arg]), Proceed(Visits(<<node>>) \o Rest(op, arg))
  PROVE  Fits(Visits(<<node>>) \o Rest(op, arg))
<1> DEFINE s == Visits(<<node>>) \o Rest(op, arg)
           k == Kept
<1>1. Pops(Head(work)) = 1 /\ Pushes(Head(work)) = 1 /\ Head(work).op # "close"
  BY DEF Pops, Pushes, Operations
<1>2. Underneath /\ Len(args_stack') = k /\ k \in Nat
  BY <1>1, PoppedUnder
<1> HIDE DEF k
<1>3. Items(s) /\ Runs(s, k, k + 1, k)
  BY <1>2, PartRun
<1> HIDE DEF s
<1>4. QED
  BY <1>1, <1>2, <1>3 DEF Fits, k, s

LEMMA ConditionFits ==
  ASSUME WInv, SInv, IfCondition
  PROVE  Fits(Visits(<<Arg.node.args[2]>>) \o Rest("then", [if |-> Arg, result |-> NextTemp]))
<1> DEFINE arg == [if |-> Arg, result |-> NextTemp]
           node == Arg.node.args[2]
<1>1. /\ work # <<>> /\ Head(work).op = "condition" /\ Head(work).arg = Arg
      /\ args_stack' = Dropped(1) /\ Proceed(Visits(<<node>>) \o Rest("then", arg))
  BY DEF IfCondition, At, Arg
<1>2. Arg.node \in Nodes /\ Arg.node.kind = "CALL" /\ Len(Arg.node.args) = 3
  BY <1>1, FrontOK DEF ItemOK
<1>3. node \in Nodes
  <2>1. Arg.node.args \in Seq(Nodes)
    BY <1>2, NodesAssumption
  <2>2. QED
    BY <1>2, <2>1
<1>4. ItemOK([op |-> "then", arg |-> arg])
  BY <1>2 DEF ItemOK, Operations
<1> HIDE DEF arg, node
<1>5. QED
  BY <1>1, <1>3, <1>4, PartFits DEF arg, node

LEMMA ThenFits ==
  ASSUME WInv, SInv, IfThen
  PROVE  Fits(Visits(<<Arg.if.node.args[3]>>)
              \o Rest("else", [exit |-> Arg.if.exit, result |-> Arg.result, result_1 |-> Peek(0)]))
<1> DEFINE arg == [exit |-> Arg.if.exit, result |-> Arg.result, result_1 |-> Peek(0)]
           node == Arg.if.node.args[3]
<1>1. /\ work # <<>> /\ Head(work).op = "then" /\ Head(work).arg = Arg
      /\ args_stack' = Dropped(1) /\ Proceed(Visits(<<node>>) \o Rest("else", arg))
  BY DEF IfThen, At, Arg
<1>2. Arg.if.node \in Nodes /\ Arg.if.node.kind = "CALL" /\ Len(Arg.if.node.args) = 3
  BY <1>1, FrontOK DEF ItemOK
<1>3. node \in Nodes
  <2>1. Arg.if.node.args \in Seq(Nodes)
    BY <1>2, NodesAssumption
  <2>2. QED
    BY <1>2, <2>1
<1>4. ItemOK([op |-> "else", arg |-> arg])
  BY DEF ItemOK, Operations
<1> HIDE DEF arg, node
<1>5. QED
  BY <1>1, <1>3, <1>4, PartFits DEF arg, node

LEMMA ElseFits == ASSUME WInv, SInv, IfElse PROVE Fits(<<>>) /\ Plain(<<>>)
<1>1. /\ work # <<>> /\ Head(work).op = "else" /\ Proceed(<<>>)
      /\ args_stack' = Append(Dropped(1), Arg.result)
  BY DEF IfElse, At
<1>2. Pops(Head(work)) = 1 /\ Head(work).op # "close"
  BY <1>1 DEF Pops, Operations
<1>3. QED
  BY <1>1, <1>2, OperationFits

LEMMA CloseNodeFits == ASSUME WInv, SInv, CloseNode PROVE Fits(<<>>) /\ Plain(<<>>)
<1> DEFINE k == Kept
<1>1. /\ work # <<>> /\ Head(work).op = "close" /\ Head(work).arg = Arg /\ Proceed(<<>>)
      /\ Len(args_stack) >= Arg
      /\ args_stack' = IF Len(args_stack) > Arg THEN SubSeq(args_stack, 1, Arg + 1)
                       ELSE Append(args_stack, 0)
  BY DEF CloseNode, At, Arg
<1>2. k = Arg /\ Pushes(Head(work)) = 1
  BY <1>1 DEF Kept, Left, Pushes
<1>3. Height \in Nat /\ k \in 0..Height /\ IsSeq(args_stack) /\ Height = Len(args_stack)
  BY FrontFits, <1>1 DEF SInv, Height
<1> HIDE DEF k
<1>4. /\ IsSeq(args_stack') /\ Len(args_stack') = k + 1
      /\ \A i \in 1..k : args_stack'[i] = args_stack[i]
  <2>1. CASE Len(args_stack) > k
    <3> DEFINE n == k + 1
    <3>1. n \in 0..Len(args_stack) /\ args_stack' = SubSeq(args_stack, 1, n)
      BY <1>1, <1>2, <1>3, <2>1
    <3> HIDE DEF n
    <3>2. /\ IsSeq(args_stack') /\ Len(args_stack') = n
          /\ \A i \in 1..n : args_stack'[i] = args_stack[i]
      BY <1>3, <3>1, PrefixShape
    <3>3. QED
      BY <1>3, <3>2 DEF n
  <2>2. CASE ~(Len(args_stack) > k)
    <3>1. args_stack' = Append(args_stack, 0) /\ Len(args_stack) = k
      BY <1>1, <1>2, <1>3, <2>2
    <3>2. /\ IsSeq(args_stack') /\ Len(args_stack') = Len(args_stack) + 1
          /\ \A i \in 1..Len(args_stack) : args_stack'[i] = args_stack[i]
      BY <1>3, <3>1, AppendShape
    <3>3. QED
      BY <3>1, <3>2
  <2>3. QED
    BY <2>1, <2>2
<1>5. Underneath /\ Kept + Pushes(Head(work)) <= Len(args_stack')
  BY <1>2, <1>3, <1>4 DEF Underneath, k
<1>6. QED
  BY <1>1, <1>5, PopFits

-----------------------------------------------------------------------------
(* The theorem about the operand stack.                                    *)
LEMMA StackInit == Init => WInv /\ SInv
<1> SUFFICES ASSUME Init PROVE WInv /\ SInv
  OBVIOUS
<1>1. ast \in Seq(Nodes) /\ work = Visits(ast) /\ args_stack = <<>>
  BY ProgramsAssumption DEF Init, Fresh
<1>2. IsSeq(args_stack) /\ Len(args_stack) = 0
  BY <1>1, NoneShape
<1>3. Items(work) /\ Runs(work, 0, 0, 0)
  BY <1>1, VisitsRun
<1>4. QED
  BY <1>2, <1>3 DEF WInv, SInv

LEMMA StackGoesOn ==
  ASSUME WInv, SInv, Generation
  PROVE  (WInv /\ SInv)' /\ (status' = "running" => Steady)
<1>1. CASE \E items : Fits(items)
  <2>1. WInv' /\ Steady
    BY <1>1, FitsSteady
  <2>2. QED
    BY <2>1 DEF Steady
<1>2. CASE GenExtern \/ GenDef \/ GenFunc \/ GenVardef \/ Bind \/ GenCall \/ GenIf \/ EndFunc
  BY <1>1, <1>2, ExternFits, DefFits, FuncFits, VardefFits, BindFits, CallFits, IfFits,
     EndFuncFits DEF Fitting
<1>3. CASE GenNumber \/ GenBool \/ GenString \/ GenVariable \/ GenSymbol
  BY <1>1, <1>3, ValueFits
<1>4. CASE GenAdd \/ GenSub \/ GenLess \/ GenGreater \/ GenInvoke
  BY <1>1, <1>4, OperatorFits
<1>5. CASE IfCondition \/ IfThen
  BY <1>1, <1>5, ConditionFits, ThenFits
<1>6. CASE IfElse \/ CloseNode
  BY <1>1, <1>6, ElseFits, CloseNodeFits
<1>7. CASE Abort \/ Finish
  <2>1. UNCHANGED <<work, args_stack>> /\ status' # "running"
    BY <1>7 DEF Abort, Finish
  <2>2. QED
    BY <2>1 DEF WInv, SInv
<1>8. QED
  BY <1>2, <1>3, <1>4, <1>5, <1>6, <1>7 DEF Generation

LEMMA StackNext == WInv /\ SInv /\ [Next]_vars => (WInv /\ SInv)'
<1> SUFFICES ASSUME WInv, SInv, [Next]_vars PROVE (WInv /\ SInv)'
  OBVIOUS
<1>1. CASE Next
  BY <1>1, StackGoesOn DEF Next
<1>2. CASE UNCHANGED vars
  BY <1>2 DEF vars, WInv, SInv
<1>3. QED
  BY <1>1, <1>2

(* Whatever the program, a step leaves alone all that is on the operand      *)
(* stack under the base of any node it is in: what an enclosing expression  *)
(* or an earlier argument has pushed is there when it is wanted.            *)
THEOREM OperandsKept == Spec => BasesKept
<1>1. ASSUME WInv, SInv, [Next]_vars
      PROVE  [status' = "running" =>
                \A c \in DOMAIN work : work[c].op = "close" => LeavesBelow(work[c].arg)]_vars
  BY <1>1, StackGoesOn DEF Next, Steady
<1>2. QED
  BY <1>1, StackInit, StackNext, PTL DEF Spec, BasesKept

(* The assertion at the end of a node, that it has not popped what was there *)
(* before it (codegen.c:275), holds for every program.                      *)
NothingMissing == At("close") => Len(args_stack) >= Arg

(* codegen() never fails its own assertion.                                *)
THEOREM NeverTooFew == Spec => []NothingMissing
<1>1. WInv /\ SInv => NothingMissing
  <2> SUFFICES ASSUME WInv, SInv, At("close") PROVE Len(args_stack) >= Arg
    BY DEF NothingMissing
  <2>1. work # <<>> /\ Kept = Arg
    BY DEF At, Kept, Left, Arg
  <2>2. Height \in Nat /\ Kept \in 0..Height
    BY <2>1, FrontFits
  <2>3. QED
    BY <2>1, <2>2 DEF Height
<1>2. QED
  BY <1>1, StackInit, StackNext, PTL DEF Spec

-----------------------------------------------------------------------------
(* The temporaries, action by action.                                      *)
LEMMA NoWrap ==
  ASSUME NEW x \in Nat, x < UInt16
  PROVE  x % UInt16 = x
BY UInt16Nat

LEMMA PlainReserves ==
  ASSUME NEW items, Plain(items)
  PROVE  \A i \in 1..Len(items) : Reserved(items[i]) = 0
BY DEF Plain, Reserved

(* A step that reserves nothing.                                           *)
LEMMA PlainNumbers ==
  ASSUME WInv, NInv, NEW items, Fits(items), Plain(items),
         NEW c, IsSeq(c),
         \/ Emit(c)
         \/ \E name : heap' = Grown([name |-> name, code |-> c])
         \/ UNCHANGED heap,
         temp_num' \in temp_num..(UInt16 - 1),
         \A k \in DOMAIN c : c[k].result # 0 =>
           /\ Usable(c[k].result)
           /\ \A l \in DOMAIN c : c[l].result = c[k].result => k = l
  PROVE  NInv'
<1>1. work # <<>> /\ Items(items) /\ Proceed(items)
  BY DEF Fits
<1>2. \A i \in 1..Len(items) : Reserved(items[i]) = 0
  BY PlainReserves
<1>3. HeapOK
  BY DEF NInv
<1>4. HeapOK' /\ \E g, n \in Int : Extends(functions, functions', g, n, c)
  <2>1. CASE Emit(c)
    BY <1>3, <2>1, EmitExtends
  <2>2. CASE \E name : heap' = Grown([name |-> name, code |-> c])
    BY <1>3, <2>2, GrownExtends
  <2>3. CASE UNCHANGED heap
    <3>1. IsSeq(heap') /\ Len(heap') = Len(heap) /\ heap'[Len(heap)] = functions
      BY <1>3, <2>3, HeapShape
    <3>2. QED
      BY <1>3, <3>1, SameFunctions
  <2>4. QED
    BY <2>1, <2>2, <2>3
<1>5. PICK g, n \in Int : Extends(functions, functions', g, n, c)
  BY <1>4
<1>6. \A i \in 1..Len(items) : Reserved(items[i]) # 0 =>
        /\ Usable(Reserved(items[i]))
        /\ \A k \in DOMAIN c : c[k].result # Reserved(items[i])
        /\ \A j \in 1..Len(items) : Reserved(items[j]) = Reserved(items[i]) => i = j
  BY <1>2
<1>7. QED
  BY <1>1, <1>4, <1>5, <1>6, NumberStep

LEMMA SameNumber ==
  ASSUME NInv, UNCHANGED temp_num
  PROVE  temp_num' \in temp_num..(UInt16 - 1)
<1>1. UInt16 - 1 \in Int
  BY UInt16Nat
<1>2. QED
  BY <1>1, CounterNat

(* No instruction.                                                         *)
LEMMA SilentNumbers ==
  ASSUME WInv, NInv, Fitting, UNCHANGED <<heap, temp_num>>
  PROVE  NInv'
<1>1. PICK items : Fits(items) /\ Plain(items)
  BY DEF Fitting
<1> DEFINE c == <<>>
<1>2. IsSeq(c) /\ DOMAIN c = {}
  BY NoneShape
<1> HIDE DEF c
<1>3. QED
  BY <1>1, <1>2, SameNumber, PlainNumbers

(* One instruction, that sets nothing.                                     *)
LEMMA UnsetNumbers ==
  ASSUME WInv, NInv, Fitting, NEW f, NEW x, NEW y, Emit(<<Inst(0, f, x, y)>>),
         UNCHANGED temp_num
  PROVE  NInv'
<1>1. PICK items : Fits(items) /\ Plain(items)
  BY DEF Fitting
<1> DEFINE i == Inst(0, f, x, y)
           c == <<i>>
<1>2. IsSeq(c) /\ Emit(c) /\ \A k \in DOMAIN c : c[k].result = 0
  <2>1. i.result = 0
    BY DEF Inst
  <2> HIDE DEF i
  <2>2. QED
    BY <2>1, OneShape DEF i
<1> HIDE DEF c
<1>3. QED
  BY <1>1, <1>2, SameNumber, PlainNumbers

LEMMA NextFresh ==
  ASSUME NInv, temp_num + 1 < UInt16
  PROVE  NextTemp = temp_num + 1 /\ NextTemp \in temp_num..(UInt16 - 1)
<1>1. temp_num \in Nat /\ temp_num + 1 \in Nat /\ UInt16 - 1 \in Int /\ UInt16 \in Int
  BY CounterNat, UInt16Nat
<1>2. NextTemp = temp_num + 1
  BY <1>1, NoWrap DEF NextTemp
<1>3. QED
  BY <1>1, <1>2

(* One instruction, with a new number.                                     *)
LEMMA SetNumbers ==
  ASSUME WInv, NInv, NEW items, Fits(items), Plain(items),
         NEW f, NEW x, NEW y, Emit(<<Inst(NextTemp, f, x, y)>>),
         temp_num' = NextTemp, temp_num + 1 < UInt16
  PROVE  NInv'
<1> DEFINE i == Inst(NextTemp, f, x, y)
           c == <<i>>
<1>1. NextTemp = temp_num + 1 /\ temp_num' \in temp_num..(UInt16 - 1) /\ temp_num \in Nat
  BY NextFresh, CounterNat
<1>2. IsSeq(c) /\ Emit(c) /\ DOMAIN c = {1} /\ c[1].result = temp_num + 1
  <2>1. i.result = temp_num + 1
    BY <1>1 DEF Inst
  <2> HIDE DEF i
  <2>2. QED
    BY <2>1, OneShape DEF i
<1> HIDE DEF c
<1>3. Usable(temp_num + 1)
  BY <1>1 DEF Usable
<1>4. QED
  BY <1>1, <1>2, <1>3, PlainNumbers

LEMMA TakesOne ==
  ASSUME Room,
         \/ \E kind \in {"NUMBER", "BOOL", "STRING", "NAME"} : AtNode(kind)
         \/ \E op \in {"-", "<", ">", "call", "condition"} : At(op)
  PROVE  temp_num + 1 < UInt16
<1>1. ~AtNode("FUNC") /\ ~At("+")
  BY DEF AtNode, At
<1>2. Taken = 1
  BY <1>1 DEF Taken
<1>3. QED
  BY <1>2 DEF Room

LEMMA ValueNumbers ==
  ASSUME WInv, SInv, NInv, Room, GenNumber \/ GenBool \/ GenString \/ GenSymbol
  PROVE  NInv'
<1>1. PICK f, arg : Emit(<<Inst(NextTemp, f, arg, 0)>>) /\ temp_num' = NextTemp
  BY DEF GenNumber, GenBool, GenString, GenSymbol, EmitValue
<1>2. Fits(Close) /\ Plain(Close)
  BY ValueFits
<1>3. AtNode("NUMBER") \/ AtNode("BOOL") \/ AtNode("STRING") \/ AtNode("NAME")
  BY DEF GenNumber, GenBool, GenString, GenSymbol
<1>4. temp_num + 1 < UInt16
  BY <1>3, TakesOne
<1> DEFINE zero == 0
<1>5. Emit(<<Inst(NextTemp, f, arg, zero)>>)
  BY <1>1
<1> HIDE DEF zero
<1>6. QED
  BY <1>1, <1>2, <1>4, <1>5, SetNumbers

LEMMA BinaryNumbers ==
  ASSUME WInv, SInv, NInv, Room, GenSub \/ GenLess \/ GenGreater
  PROVE  NInv'
<1>1. PICK f, x, y : Emit(<<Inst(NextTemp, f, x, y)>>) /\ temp_num' = NextTemp
  BY DEF GenSub, GenLess, GenGreater, EmitBinary
<1>2. Fits(<<>>) /\ Plain(<<>>)
  BY OperatorFits
<1>3. At("-") \/ At("<") \/ At(">")
  BY DEF GenSub, GenLess, GenGreater
<1>4. temp_num + 1 < UInt16
  BY <1>3, TakesOne
<1> DEFINE items == <<>>
<1>5. Fits(items) /\ Plain(items)
  BY <1>2
<1> HIDE DEF items
<1>6. QED
  BY <1>1, <1>4, <1>5, SetNumbers

LEMMA EndFuncNumbers == ASSUME WInv, SInv, NInv, EndFunc PROVE NInv'
<1>1. Fitting /\ UNCHANGED temp_num
  BY EndFuncFits DEF EndFunc
<1>2. CASE Arg.node.ret_type_void
  BY <1>1, <1>2, SilentNumbers DEF EndFunc
<1>3. CASE ~Arg.node.ret_type_void
  <2>1. PICK f, x, y : Emit(<<Inst(0, f, x, y)>>)
    BY <1>3 DEF EndFunc
  <2>2. QED
    BY <1>1, <2>1, UnsetNumbers
<1>4. QED
  BY <1>2, <1>3

LEMMA QuietNumbers ==
  ASSUME WInv, SInv, NInv,
         GenExtern \/ GenDef \/ GenVardef \/ Bind \/ GenVariable \/ GenCall \/ GenIf \/ CloseNode
  PROVE  NInv'
<1>1. UNCHANGED <<heap, temp_num>>
  BY DEF GenExtern, GenDef, GenVardef, Bind, GenVariable, GenCall, GenIf, CloseNode
<1>2. Fitting
  <2>1. GenVariable => Fitting
    BY ValueFits DEF Fitting
  <2>2. CloseNode => Fitting
    BY CloseNodeFits DEF Fitting
  <2>3. QED
    BY <2>1, <2>2, ExternFits, DefFits, VardefFits, BindFits, CallFits, IfFits
<1>3. QED
  BY <1>1, <1>2, SilentNumbers

(* Instructions that set the next m numbers.                               *)
LEMMA RisingNumbers ==
  ASSUME WInv, NInv, NEW items, Fits(items), Plain(items), NEW m \in Nat,
         NEW c, c = [k \in 1..m |-> c[k]],
         \A k \in 1..m : c[k].result = (temp_num + k) % UInt16,
         Emit(c) \/ \E name : heap' = Grown([name |-> name, code |-> c]),
         temp_num' = (temp_num + m) % UInt16, temp_num + m < UInt16
  PROVE  NInv'
<1> DEFINE first == temp_num
<1>1. first \in Nat /\ UInt16 \in Int
  BY CounterNat, UInt16Nat
<1>2. \A k \in 0..m : first + k \in Nat /\ first + k < UInt16
  BY <1>1
<1>3. \A k \in 0..m : (temp_num + k) % UInt16 = first + k
  BY <1>2, NoWrap
<1>4. temp_num' = first + m /\ \A k \in 1..m : c[k].result = first + k
  BY <1>3
<1>5. temp_num' \in temp_num..(UInt16 - 1)
  <2>1. PICK n \in Nat : n = temp_num
    BY <1>1
  <2>2. temp_num' = n + m /\ n + m < UInt16
    BY <1>4, <2>1
  <2>3. n + m \in n..(UInt16 - 1)
    BY <1>1, <2>2
  <2>4. QED
    BY <2>1, <2>2, <2>3
<1>6. IsSeq(c) /\ DOMAIN c = 1..m
  BY FunctionIsSeq
<1>7. ASSUME NEW k \in 1..m PROVE Usable(c[k].result)
  <2>1. PICK n \in Nat : n = temp_num
    BY <1>1
  <2>2. n + k \in (n + 1)..(n + m)
    OBVIOUS
  <2>3. c[k].result = n + k /\ temp_num' = n + m
    BY <1>4, <2>1
  <2>4. c[k].result \in (temp_num + 1)..temp_num'
    BY <2>1, <2>2, <2>3
  <2>5. QED
    BY <2>4 DEF Usable
<1>8. ASSUME NEW k \in 1..m, NEW l \in 1..m, c[l].result = c[k].result PROVE k = l
  <2>1. first + l = first + k /\ first \in Int /\ l \in Int /\ k \in Int
    BY <1>1, <1>4, <1>8
  <2>2. QED
    BY <2>1
<1>9. QED
  BY <1>5, <1>6, <1>7, <1>8, PlainNumbers

(* The parameters of a function.                                           *)
LEMMA FuncNumbers == ASSUME WInv, SInv, NInv, Room, GenFunc PROVE NInv'
<1> DEFINE n == Len(Node.args)
           temp(j) == (temp_num + j) % UInt16
           loads == [j \in 1..n |-> Inst(temp(j), "LOAD_ARG", j - 1, 0)]
<1>1. PICK items : Fits(items) /\ Plain(items)
  BY FuncFits DEF Fitting
<1>2. AtNode("FUNC") /\ Node \in Nodes /\ Node.kind = "FUNC"
  BY VisitNode DEF GenFunc, AtNode, Node
<1>3. n \in Nat
  BY <1>2, NodesAssumption, LenProperties
<1>4. heap' = Grown([name |-> Len(symbols), code |-> loads]) /\ temp_num' = temp(n)
  BY DEF GenFunc
<1>5. temp_num + n < UInt16
  <2>1. Taken = n
    BY <1>2 DEF Taken
  <2>2. QED
    BY <2>1 DEF Room
<1>6. loads = [j \in 1..n |-> loads[j]] /\ \A j \in 1..n : loads[j].result = temp(j)
  BY DEF Inst
<1>7. \E name : heap' = Grown([name |-> name, code |-> loads])
  BY <1>4
<1> HIDE DEF loads, n
<1>8. QED
  BY <1>1, <1>3, <1>4, <1>5, <1>6, <1>7, RisingNumbers

(* The partial sums of an addition.                                        *)
LEMMA AddNumbers == ASSUME WInv, SInv, NInv, Room, GenAdd PROVE NInv'
<1> DEFINE n == Len(Arg.args)
           m == n - 1
           temp(k) == (temp_num + k) % UInt16
           sum(k) == IF k = 0 THEN Peek(0) ELSE temp(k)
           left == [k \in 1..m |-> Inst(temp(k), "ADD", Peek(k), sum(k - 1))]
           right == [k \in 1..m |-> Inst(temp(k), "ADD", sum(k - 1), Peek(k))]
<1>1. At("+") /\ n >= 2 /\ (Emit(left) \/ Emit(right)) /\ temp_num' = temp(m)
  BY DEF GenAdd
<1> DEFINE items == <<>>
<1>2. Fits(items) /\ Plain(items)
  BY OperatorFits
<1>3. n \in Nat
  <2>1. work # <<>> /\ Head(work).op = "+" /\ Head(work).arg = Arg
    BY <1>1 DEF At, Arg
  <2>2. Arg \in Nodes /\ Arg.kind = "CALL"
    BY <2>1, FrontOK DEF ItemOK, Operations
  <2>3. QED
    BY <2>2, NodesAssumption, LenProperties
<1>4. m \in Nat
  BY <1>1, <1>3
<1>5. temp_num + m < UInt16
  <2>1. Taken = m
    <3>1. ~AtNode("FUNC")
      BY <1>1 DEF AtNode, At
    <3>2. QED
      BY <1>1, <3>1 DEF Taken
  <2>2. QED
    BY <2>1 DEF Room
<1>6. /\ left = [k \in 1..m |-> left[k]] /\ \A k \in 1..m : left[k].result = temp(k)
      /\ right = [k \in 1..m |-> right[k]] /\ \A k \in 1..m : right[k].result = temp(k)
  BY DEF Inst
<1> HIDE DEF left, right, m, n, items
<1>7. PICK c : Emit(c) /\ c = [k \in 1..m |-> c[k]] /\ \A k \in 1..m : c[k].result = temp(k)
  BY <1>1, <1>6
<1>8. QED
  BY <1>1, <1>2, <1>4, <1>5, <1>7, RisingNumbers

(* The arguments and the call.                                             *)
LEMMA InvokeNumbers == ASSUME WInv, SInv, NInv, Room, GenInvoke PROVE NInv'
<1> DEFINE n == Len(Arg.args)
           pushes == [k \in 1..n |-> Inst(0, "CALL_PUSH", Peek(k - 1), n)]
           call == IF Arg.callee \in DOMAIN global_symbols
                   THEN Inst(NextTemp, "CALL_SYM", Len(symbols'), n)
                   ELSE Inst(NextTemp, "CALL_REG", variables[Arg.callee], n)
           c == Append(pushes, call)
<1>1. At("call") /\ Emit(c) /\ temp_num' = NextTemp
  BY DEF GenInvoke
<1> DEFINE items == <<>>
<1>2. Fits(items) /\ Plain(items)
  BY OperatorFits
<1>3. n \in Nat
  <2>1. work # <<>> /\ Head(work).op = "call" /\ Head(work).arg = Arg
    BY <1>1 DEF At, Arg
  <2>2. Arg \in Nodes /\ Arg.kind = "CALL"
    BY <2>1, FrontOK DEF ItemOK, Operations
  <2>3. QED
    BY <2>2, NodesAssumption, LenProperties
<1>4. /\ NextTemp = temp_num + 1 /\ temp_num' \in temp_num..(UInt16 - 1) /\ temp_num \in Nat
  BY <1>1, TakesOne, NextFresh, CounterNat
<1>5. call.result = NextTemp
  BY DEF Inst
<1>6. pushes = [k \in 1..n |-> pushes[k]] /\ \A k \in 1..n : pushes[k].result = 0
  BY DEF Inst
<1> HIDE DEF pushes, call, n, items
<1>7. IsSeq(pushes) /\ Len(pushes) = n
  BY <1>3, <1>6, FunctionIsSeq
<1>8. /\ IsSeq(c) /\ Len(c) = n + 1 /\ \A i \in 1..n : c[i] = pushes[i]
      /\ c[n + 1] = call
  <2>1. IsSeq(pushes)
    BY <1>7
  <2>2. /\ IsSeq(c) /\ Len(c) = Len(pushes) + 1 /\ \A i \in 1..Len(pushes) : c[i] = pushes[i]
        /\ c[Len(pushes) + 1] = call
    BY <2>1, AppendShape
  <2>3. QED
    BY <1>7, <2>2
<1> HIDE DEF c
<1>9. DOMAIN c = 1..(n + 1)
  BY <1>8, SeqShape
<1>10. \A k \in 1..(n + 1) : c[k].result # 0 => k = n + 1
  BY <1>3, <1>6, <1>8
<1>11. Usable(c[n + 1].result)
  BY <1>1, <1>4, <1>5, <1>8 DEF Usable
<1>12. \A k \in DOMAIN c : c[k].result # 0 =>
         /\ Usable(c[k].result)
         /\ \A l \in DOMAIN c : c[l].result = c[k].result => k = l
  BY <1>9, <1>10, <1>11
<1>13. QED
  BY <1>1, <1>2, <1>4, <1>8, <1>12, PlainNumbers

(* The result of an if: reserved with the condition, set with the PHI.     *)
LEMMA PartReserves ==
  ASSUME NEW node \in Nodes, NEW op \in {"then", "else"}, NEW arg, ItemOK([op |-> op, arg |-> arg])
  PROVE  LET items == Visits(<<node>>) \o Rest(op, arg)
         IN  /\ Len(items) = 2 /\ Reserved(items[1]) = 0
             /\ Reserved(items[2]) = arg.result
<1> DEFINE nodes == <<node>>
           s == Visits(nodes)
           t == Rest(op, arg)
           w == [op |-> op, arg |-> arg]
<1>1. nodes \in Seq(Nodes) /\ Len(nodes) = 1
  OBVIOUS
<1> HIDE DEF nodes
<1>2. Items(s) /\ Len(s) = 1 /\ s[1] = [op |-> "visit", node |-> nodes[1]]
  BY <1>1, ItemsVisits
<1>3. Items(t) /\ Len(t) = 1 /\ t[1] = w
  BY ItemsRest
<1>4. w.op = op /\ w.arg = arg
  OBVIOUS
<1> HIDE DEF s, t, w
<1>5. Len(s \o t) = 2 /\ (s \o t)[1] = s[1] /\ (s \o t)[2] = t[1]
  <2>1. IsSeq(s) /\ IsSeq(t)
    BY <1>2, <1>3 DEF Items
  <2>2. /\ Len(s \o t) = Len(s) + Len(t)
        /\ \A i \in 1..Len(s) : (s \o t)[i] = s[i]
        /\ \A i \in 1..Len(t) : (s \o t)[Len(s) + i] = t[i]
    BY <2>1, ConcatShape
  <2>3. QED
    BY <1>2, <1>3, <2>2
<1>6. Reserved(s[1]) = 0 /\ Reserved(t[1]) = arg.result
  BY <1>2, <1>3, <1>4 DEF Reserved
<1>7. QED
  BY <1>5, <1>6 DEF s, t, nodes

(* A step of an if that sets nothing, and reserves r until its next part.   *)
LEMMA ReservingNumbers ==
  ASSUME WInv, NInv, NEW items, Fits(items), Len(items) = 2,
         Reserved(items[1]) = 0, Usable(Reserved(items[2])),
         NEW c, IsSeq(c), Emit(c), \A k \in DOMAIN c : c[k].result = 0,
         temp_num' \in temp_num..(UInt16 - 1)
  PROVE  NInv'
<1>1. work # <<>> /\ Items(items) /\ Proceed(items)
  BY DEF Fits
<1>2. HeapOK' /\ \E g, n \in Int : Extends(functions, functions', g, n, c)
  BY EmitExtends DEF NInv
<1>3. PICK g, n \in Int : Extends(functions, functions', g, n, c)
  BY <1>2
<1>4. \A k \in DOMAIN c : c[k].result # 0 =>
        /\ Usable(c[k].result)
        /\ \A l \in DOMAIN c : c[l].result = c[k].result => k = l
  OBVIOUS
<1>5. \A i \in 1..Len(items) : Reserved(items[i]) # 0 => i = 2
  OBVIOUS
<1>6. \A i \in 1..Len(items) : Reserved(items[i]) # 0 =>
        /\ Usable(Reserved(items[i]))
        /\ \A k \in DOMAIN c : c[k].result # Reserved(items[i])
        /\ \A j \in 1..Len(items) : Reserved(items[j]) = Reserved(items[i]) => i = j
  BY <1>5
<1>7. QED
  BY <1>1, <1>2, <1>3, <1>4, <1>6, NumberStep

LEMMA ConditionNumbers == ASSUME WInv, SInv, NInv, Room, IfCondition PROVE NInv'
<1> DEFINE arg == [if |-> Arg, result |-> NextTemp]
           node == Arg.node.args[2]
           items == Visits(<<node>>) \o Rest("then", arg)
           i == Inst(0, "BIZ", Peek(0), Arg.false)
           c == <<i>>
<1>1. At("condition") /\ Emit(c) /\ temp_num' = NextTemp
  BY DEF IfCondition
<1>2. Fits(items)
  BY ConditionFits
<1>3. work # <<>> /\ Head(work).op = "condition" /\ Head(work).arg = Arg
  BY <1>1 DEF At, Arg
<1>4. Arg.node \in Nodes /\ Arg.node.kind = "CALL" /\ Len(Arg.node.args) = 3
  BY <1>3, FrontOK DEF ItemOK
<1>5. node \in Nodes
  <2>1. Arg.node.args \in Seq(Nodes)
    BY <1>4, NodesAssumption
  <2>2. QED
    BY <1>4, <2>1
<1>6. ItemOK([op |-> "then", arg |-> arg]) /\ arg.result = NextTemp
  BY <1>4 DEF ItemOK, Operations
<1>7. i.result = 0
  BY DEF Inst
<1> HIDE DEF arg, node, i
<1>8. Len(items) = 2 /\ Reserved(items[1]) = 0 /\ Reserved(items[2]) = NextTemp
  BY <1>5, <1>6, PartReserves
<1>9. IsSeq(c) /\ \A k \in DOMAIN c : c[k].result = 0
  BY <1>7, OneShape
<1> HIDE DEF items, c
<1>10. NextTemp = temp_num + 1 /\ temp_num' \in temp_num..(UInt16 - 1) /\ temp_num \in Nat
  BY <1>1, TakesOne, NextFresh, CounterNat
<1>11. Usable(NextTemp)
  BY <1>1, <1>10 DEF Usable
<1>12. QED
  BY <1>1, <1>2, <1>8, <1>9, <1>10, <1>11, ReservingNumbers

LEMMA ThenNumbers == ASSUME WInv, SInv, NInv, IfThen PROVE NInv'
<1> DEFINE arg == [exit |-> Arg.if.exit, result |-> Arg.result, result_1 |-> Peek(0)]
           node == Arg.if.node.args[3]
           items == Visits(<<node>>) \o Rest("else", arg)
           i == Inst(0, "GOTO", Arg.if.exit, 0)
           j == Inst(0, "LABEL", Arg.if.false, 0)
           c == <<i, j>>
<1>1. At("then") /\ Emit(c) /\ UNCHANGED temp_num
  BY DEF IfThen
<1>2. Fits(items)
  BY ThenFits
<1>3. work # <<>> /\ Head(work).op = "then" /\ Head(work).arg = Arg
  BY <1>1 DEF At, Arg
<1>4. Arg.if.node \in Nodes /\ Arg.if.node.kind = "CALL" /\ Len(Arg.if.node.args) = 3
  BY <1>3, FrontOK DEF ItemOK
<1>5. node \in Nodes
  <2>1. Arg.if.node.args \in Seq(Nodes)
    BY <1>4, NodesAssumption
  <2>2. QED
    BY <1>4, <2>1
<1>6. ItemOK([op |-> "else", arg |-> arg]) /\ arg.result = Arg.result
  BY DEF ItemOK, Operations
<1>7. i.result = 0 /\ j.result = 0
  BY DEF Inst
<1>8. Arg.result = Reserved(Head(work))
  BY <1>3 DEF Reserved
<1> HIDE DEF arg, node, i, j
<1>9. Len(items) = 2 /\ Reserved(items[1]) = 0 /\ Reserved(items[2]) = Arg.result
  BY <1>5, <1>6, PartReserves
<1>10. IsSeq(c) /\ \A k \in DOMAIN c : c[k].result = 0
  <2>1. c \in Seq({i, j}) /\ DOMAIN c = {1, 2} /\ c[1] = i /\ c[2] = j
    OBVIOUS
  <2>2. QED
    BY <1>7, <2>1 DEF IsSeq
<1> HIDE DEF items, c
<1>11. Usable(Arg.result)
  BY <1>8 DEF Usable
<1>12. QED
  BY <1>1, <1>2, <1>9, <1>10, <1>11, SameNumber, ReservingNumbers

LEMMA ElseNumbers == ASSUME WInv, SInv, NInv, IfElse PROVE NInv'
<1> DEFINE i == Inst(0, "LABEL", Arg.exit, 0)
           j == Inst(Arg.result, "PHI", Arg.result_1, Peek(0))
           c == <<i, j>>
           items == <<>>
<1>1. At("else") /\ Emit(c) /\ UNCHANGED temp_num
  BY DEF IfElse
<1>2. Fits(items) /\ Plain(items)
  BY ElseFits
<1>3. Arg.result = Reserved(Head(work))
  BY <1>1 DEF At, Arg, Reserved
<1>4. i.result = 0 /\ j.result = Arg.result
  BY DEF Inst
<1> HIDE DEF i, j, items
<1>5. IsSeq(c) /\ DOMAIN c = {1, 2} /\ c[1] = i /\ c[2] = j
  <2>1. c \in Seq({i, j}) /\ DOMAIN c = {1, 2} /\ c[1] = i /\ c[2] = j
    OBVIOUS
  <2>2. QED
    BY <2>1 DEF IsSeq
<1> HIDE DEF c
<1>6. Usable(Arg.result)
  BY <1>3 DEF Usable
<1>7. \A k \in DOMAIN c : c[k].result # 0 =>
        /\ Usable(c[k].result)
        /\ \A l \in DOMAIN c : c[l].result = c[k].result => k = l
  BY <1>4, <1>5, <1>6
<1>8. QED
  BY <1>1, <1>2, <1>5, <1>7, SameNumber, PlainNumbers

-----------------------------------------------------------------------------
(* The theorem about the temporaries.                                      *)
LEMMA NumbersInit == Init => NInv
<1> SUFFICES ASSUME Init PROVE NInv
  OBVIOUS
<1>1. ast \in Seq(Nodes) /\ work = Visits(ast) /\ heap = << <<>> >> /\ temp_num = 0
  BY ProgramsAssumption DEF Init, Fresh
<1>2. \A p \in 1..Len(work) : Reserved(work[p]) = 0
  <2>1. Plain(work)
    BY <1>1, VisitsRun
  <2>2. QED
    BY <2>1, PlainReserves
<1>3. IsSeq(heap) /\ heap # <<>> /\ functions = <<>>
  <2>1. Len(heap) = 1 /\ heap[1] = <<>> /\ IsSeq(heap)
    BY <1>1, OneShape
  <2>2. QED
    BY <2>1, NoneShape DEF functions
<1>4. HeapOK
  BY <1>3, NoneShape DEF HeapOK, FunctionsOK
<1>5. SetOnce /\ Numbered
  BY <1>3 DEF SetOnce, Numbered
<1>6. ReservedOnce
  BY <1>1, <1>2 DEF ReservedOnce
<1>7. QED
  BY <1>1, <1>4, <1>5, <1>6, UInt16Nat DEF NInv

LEMMA NumbersGoOn == ASSUME WInv, SInv, NInv, Room, Generation PROVE NInv'
<1>1. CASE Abort \/ Finish
  <2>1. UNCHANGED <<work, heap, temp_num>>
    BY <1>1 DEF Abort, Finish
  <2>2. QED
    BY <2>1 DEF NInv, HeapOK, functions, SetOnce, Numbered, ReservedOnce, Unset
<1>2. QED
  BY <1>1, QuietNumbers, ValueNumbers, BinaryNumbers, FuncNumbers, AddNumbers, InvokeNumbers,
     ConditionNumbers, ThenNumbers, ElseNumbers, EndFuncNumbers DEF Generation

LEMMA NumbersNext == WInv /\ SInv /\ NInv /\ Room /\ [Next]_vars => NInv'
<1> SUFFICES ASSUME WInv, SInv, NInv, Room, [Next]_vars PROVE NInv'
  OBVIOUS
<1>1. CASE Next
  BY <1>1, NumbersGoOn DEF Next
<1>2. CASE UNCHANGED vars
  BY <1>2 DEF vars, NInv, HeapOK, functions, SetOnce, Numbered, ReservedOnce, Unset
<1>3. QED
  BY <1>1, <1>2

(* Whatever the program, while the 16-bit counter does not wrap around no    *)
(* temporary is set by two instructions, in one function or in two.         *)
THEOREM TemporariesSetOnce == Spec /\ []Room => []SetOnce
<1>1. NInv => SetOnce
  BY DEF NInv
<1>2. QED
  BY <1>1, StackInit, StackNext, NumbersInit, NumbersNext, PTL DEF Spec
=============================================================================
