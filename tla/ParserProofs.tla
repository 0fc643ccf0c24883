---------------------------- MODULE ParserProofs ----------------------------
(***************************************************************************)
(* Addresses of nodes while the parser reads, for every text: the arrays     *)
(* that nodes lie in move, and still every pointer to a parent leads to the  *)
(* parent's number, and what parse() writes lands in the tree.              *)
(***************************************************************************)
EXTENDS Parser, SequenceTheorems, TLAPS

-----------------------------------------------------------------------------
(* Sequences of whatever it is.                                            *)
IsSeq(s) == \E S : s \in Seq(S)

LEMMA SeqShape ==
  ASSUME NEW s, IsSeq(s)
  PROVE  Len(s) \in Nat /\ DOMAIN s = 1..Len(s) /\ s = [i \in 1..Len(s) |-> s[i]]
BY LenProperties DEF IsSeq

LEMMA FunctionIsSeq ==
  ASSUME NEW n \in Nat, NEW s, s = [i \in 1..n |-> s[i]]
  PROVE  IsSeq(s) /\ Len(s) = n
<1> DEFINE S == {s[i] : i \in 1..n}
<1>1. s \in [1..n -> S]
  OBVIOUS
<1>2. s \in Seq(S)
  BY <1>1, SeqDef
<1>3. Len(s) = n
  BY <1>1, <1>2, LenProperties
<1>4. QED
  BY <1>2, <1>3 DEF IsSeq

LEMMA AppendShape ==
  ASSUME NEW s, IsSeq(s), NEW e
  PROVE  /\ IsSeq(Append(s, e)) /\ Len(Append(s, e)) = Len(s) + 1
         /\ \A i \in 1..Len(s) : Append(s, e)[i] = s[i]
         /\ Append(s, e)[Len(s) + 1] = e
<1>1. PICK S : s \in Seq(S)
  BY DEF IsSeq
<1>2. s \in Seq(S \cup {e})
  BY <1>1, SeqMonotonic
<1>3. QED
  BY <1>2, AppendProperties, LenProperties DEF IsSeq

LEMMA NoneShape == IsSeq(<<>>) /\ Len(<<>>) = 0
<1>1. <<>> \in Seq({})
  OBVIOUS
<1>2. QED
  BY <1>1 DEF IsSeq

LEMMA OneShape ==
  ASSUME NEW e
  PROVE  IsSeq(<<e>>) /\ Len(<<e>>) = 1 /\ <<e>>[1] = e
<1>1. <<e>> \in Seq({e})
  OBVIOUS
<1>2. QED
  BY <1>1 DEF IsSeq

LEMMA FrontShape ==
  ASSUME NEW s, IsSeq(s), Len(s) > 0
  PROVE  /\ IsSeq(Front(s)) /\ Len(Front(s)) = Len(s) - 1 /\ Last(s) = s[Len(s)]
         /\ \A i \in 1..(Len(s) - 1) : Front(s)[i] = s[i]
<1>1. PICK S : s \in Seq(S)
  BY DEF IsSeq
<1>2. Front(s) = SubSeq(s, 1, Len(s) - 1)
  BY DEF Front
<1>3. Len(s) \in Nat /\ \A i \in 1..(Len(s) - 1) : s[i] \in S
  BY <1>1, LenProperties
<1>4. /\ SubSeq(s, 1, Len(s) - 1) \in Seq(S)
      /\ Len(SubSeq(s, 1, Len(s) - 1)) = IF 1 <= Len(s) - 1 THEN Len(s) - 1 - 1 + 1 ELSE 0
      /\ \A i \in 1..(Len(s) - 1 - 1 + 1) : SubSeq(s, 1, Len(s) - 1)[i] = s[1 + i - 1]
  <2>1. 1 \in Int /\ Len(s) - 1 \in Int
    BY <1>3
  <2>2. QED
    BY <1>3, <2>1, SubSeqProperties
<1>5. Len(SubSeq(s, 1, Len(s) - 1)) = Len(s) - 1
  <2>1. \A n \in Nat : \A k : n > 0 /\ k = (IF 1 <= n - 1 THEN n - 1 - 1 + 1 ELSE 0) => k = n - 1
    OBVIOUS
  <2>2. QED
    BY <1>3, <1>4, <2>1
<1>6. \A i \in 1..(Len(s) - 1) : SubSeq(s, 1, Len(s) - 1)[i] = s[i]
  BY <1>3, <1>4
<1>7. QED
  BY <1>2, <1>4, <1>5, <1>6 DEF IsSeq, Last

LEMMA SeqPositive ==
  ASSUME NEW s, IsSeq(s), s # <<>>
  PROVE  Len(s) \in 1..Len(s)
<1>1. PICK S : s \in Seq(S)
  BY DEF IsSeq
<1>2. Len(s) \in Nat /\ Len(s) # 0
  BY <1>1, EmptySeq, LenProperties
<1>3. QED
  BY <1>2

(* The last entry replaced.                                                *)
LEMMA LastReplaced ==
  ASSUME NEW s, IsSeq(s), Len(s) > 0, NEW e
  PROVE  /\ IsSeq(Append(Front(s), e)) /\ Len(Append(Front(s), e)) = Len(s)
         /\ \A i \in 1..(Len(s) - 1) : Append(Front(s), e)[i] = s[i]
         /\ Append(Front(s), e)[Len(s)] = e
<1>1. Len(s) \in Nat
  BY SeqShape
<1>2. QED
  BY <1>1, FrontShape, AppendShape

LEMMA EntryChanged ==
  ASSUME NEW s, IsSeq(s), NEW k \in 1..Len(s), NEW e, NEW t, t = [s EXCEPT ![k] = e]
  PROVE  IsSeq(t) /\ Len(t) = Len(s) /\ \A i \in 1..Len(s) : t[i] = IF i = k THEN e ELSE s[i]
<1>1. Len(s) \in Nat /\ DOMAIN s = 1..Len(s)
  BY SeqShape
<1>2. t = [i \in 1..Len(s) |-> t[i]] /\ \A i \in 1..Len(s) : t[i] = IF i = k THEN e ELSE s[i]
  BY <1>1
<1>3. IsSeq(t) /\ Len(t) = Len(s)
  BY <1>1, <1>2, FunctionIsSeq
<1>4. QED
  BY <1>2, <1>3

-----------------------------------------------------------------------------
(* Memory.                                                                 *)
Buffers(m) == IsSeq(m) /\ \A b \in 1..Len(m) : IsSeq(m[b])

LEMMA AddressIn ==
  ASSUME NEW m, Buffers(m), NEW p
  PROVE  p \in Addresses(m)
           <=> p = <<p[1], p[2]>> /\ p[1] \in 1..Len(m) /\ p[2] \in 1..Len(m[p[1]])
<1>1. DOMAIN m = 1..Len(m) /\ \A b \in 1..Len(m) : DOMAIN m[b] = 1..Len(m[b])
  BY SeqShape DEF Buffers
<1>2. QED
  BY <1>1 DEF Addresses

(* w has every node of m where it was, with its number and its parent.       *)
Keeps(m, w) ==
  /\ Buffers(m) /\ Buffers(w) /\ Len(m) <= Len(w)
  /\ \A b \in 1..Len(m) : Len(m[b]) <= Len(w[b])
  /\ \A p \in Addresses(m) :
       /\ p \in Addresses(w)
       /\ NodeAt(w, p).id = NodeAt(m, p).id /\ NodeAt(w, p).parent = NodeAt(m, p).parent

IsArray(xs) == xs = [data |-> xs.data, len |-> xs.len, capacity |-> xs.capacity]

ArrayOK(m, xs) ==
  /\ IsArray(xs) /\ xs.len \in Nat
  /\ xs.len > 0 => xs.data \in 1..Len(m) /\ xs.len <= Len(m[xs.data])

(* Nothing lies behind its elements: it may be appended to.                 *)
Full(m, xs) ==
  xs # NoArray => xs.data \in 1..Len(m) /\ xs.len = Len(m[xs.data]) /\ xs.len > 0

(* The node of that number, or a copy of it, is around the element.          *)
Inside(m, id, element) == element.parent \in Addresses(m) /\ NodeAt(m, element.parent).id = id

IsPair(p) == p = [name |-> p.name, type |-> p.type, value |-> p.value]

Shaped(n) ==
  /\ n = [kind |-> n.kind, str |-> n.str, id |-> n.id, parent |-> n.parent,
          pairs |-> n.pairs, ret |-> n.ret, items |-> n.items]
  /\ IsSeq(n.pairs) /\ \A j \in 1..Len(n.pairs) : IsPair(n.pairs[j])

(* What holds of a node, wherever it is kept.                               *)
NodeOK(m, count, n) ==
  /\ Shaped(n) /\ n.id \in 1..(count - 1)
  /\ n.parent # NoNode => n.parent \in Addresses(m) /\ NodeAt(m, n.parent).id < n.id
  /\ \A s \in Slots(n) :
       /\ ArrayOK(m, ArrayIn(n, s))
       /\ \A i \in 1..ArrayIn(n, s).len : Inside(m, n.id, m[ArrayIn(n, s).data][i])
  /\ \A s \in Slots(n), t \in Slots(n) : \A i \in 1..ArrayIn(n, s).len, j \in 1..ArrayIn(n, t).len :
       m[ArrayIn(n, s).data][i].id = m[ArrayIn(n, t).data][j].id => s = t /\ i = j

MemoryOK(m, count) ==
  /\ Buffers(m) /\ count \in Nat \ {0}
  /\ \A p \in Addresses(m) : NodeOK(m, count, NodeAt(m, p))
  /\ \A p \in Addresses(m), q \in Addresses(m) :
       NodeAt(m, p).id = NodeAt(m, q).id => NodeAt(m, p).parent = NodeAt(m, q).parent

-----------------------------------------------------------------------------
(* The forms being read.                                                    *)
IsFrame(f) == f = [state |-> f.state, node |-> f.node, name |-> f.name, local |-> f.local]

Rec(m, f) ==
  IF IsLocal(f) THEN f.local
  ELSE IF f.state = "ret" THEN NodeAt(m, f.node).ret
  ELSE IF f.state = "value" THEN NodeAt(m, f.node).pairs[Len(NodeAt(m, f.node).pairs)].value
  ELSE NodeAt(m, f.node).items

NoRetYet == {"fn", "arguments", "argument name", "argument type", "argument"}
NoItemsYet == NoRetYet \cup {"ret", "let", "variables", "variable name", "type", "variable", "value",
                             "end variable", "name"}
WithLocal == {"argument type", "argument", "type", "variable"}

(* The elements of xs may be those of the slot of node n.                    *)
Fits(m, n, xs, slot) ==
  /\ ArrayOK(m, xs)
  /\ \A i \in 1..xs.len :
       /\ Inside(m, n.id, m[xs.data][i])
       /\ \A j \in 1..xs.len : m[xs.data][i].id = m[xs.data][j].id => i = j
       /\ \A s \in Slots(n) : s # slot => \A j \in 1..ArrayIn(n, s).len :
            m[xs.data][i].id # m[ArrayIn(n, s).data][j].id

(* A type that is not yet in its node.                                      *)
Nowhere == <<"nowhere", 0>>
LocalOK(m, f) == Fits(m, NodeAt(m, f.node), f.local, Nowhere)

FrameOK(m, f) ==
  /\ IsFrame(f) /\ f.state \notin {"top", "form"} /\ f.node \in Addresses(m)
  /\ f.state \in NoRetYet => NodeAt(m, f.node).ret = NoArray
  /\ f.state \in NoItemsYet => NodeAt(m, f.node).items = NoArray
  /\ f.state = "value" => NodeAt(m, f.node).pairs # <<>>
  /\ f.state \in WithLocal => LocalOK(m, f)
  /\ f.state \in Expecting => Full(m, Rec(m, f))

TopOK(m, f) ==
  /\ IsFrame(f) /\ f.state = "top" /\ f.node = NoNode
  /\ ArrayOK(m, f.local) /\ Outermost(m, f.local) /\ Full(m, f.local)

(* The frame around it waits for this one's node.                           *)
Awaited(m, outer, f) == Rec(m, outer) # NoArray /\ f.node = <<Rec(m, outer).data, Rec(m, outer).len>>

StackOK(m, st) ==
  /\ IsSeq(st) /\ Len(st) > 0 /\ TopOK(m, st[1])
  /\ \A k \in 2..Len(st) :
       IF st[k].state = "form" THEN IsFrame(st[k]) /\ k = Len(st)
       ELSE FrameOK(m, st[k]) /\ Awaited(m, st[k - 1], st[k])
  /\ \A k \in 1..(Len(st) - 1) : st[k].state \in Expecting
  /\ \A k \in 2..Len(st), l \in 2..Len(st) :
       k < l /\ st[l].state # "form" => NodeAt(m, st[k].node).id < NodeAt(m, st[l].node).id

PInv == MemoryOK(memory, node_id) /\ StackOK(memory, stack)

-----------------------------------------------------------------------------
(* What is kept of one memory in the next.                                   *)
LEMMA ElementIn ==
  ASSUME NEW m, Buffers(m), NEW xs, ArrayOK(m, xs), NEW i \in 1..xs.len
  PROVE  <<xs.data, i>> \in Addresses(m) /\ NodeAt(m, <<xs.data, i>>) = m[xs.data][i]
<1>1. xs.len \in Nat /\ xs.data \in 1..Len(m) /\ xs.len <= Len(m[xs.data])
  BY DEF ArrayOK
<1>2. Len(m[xs.data]) \in Nat
  BY <1>1, SeqShape DEF Buffers
<1>3. xs.data \in 1..Len(m) /\ i \in 1..Len(m[xs.data])
  BY <1>1, <1>2
<1>4. QED
  BY <1>3, AddressIn DEF NodeAt

LEMMA ElementKept ==
  ASSUME NEW m, NEW w, Keeps(m, w), NEW xs, ArrayOK(m, xs), NEW i \in 1..xs.len
  PROVE  /\ w[xs.data][i].id = m[xs.data][i].id
         /\ w[xs.data][i].parent = m[xs.data][i].parent
<1>1. <<xs.data, i>> \in Addresses(m) /\ NodeAt(m, <<xs.data, i>>) = m[xs.data][i]
  BY ElementIn DEF Keeps
<1>2. NodeAt(w, <<xs.data, i>>) = w[xs.data][i]
  BY DEF NodeAt
<1>3. QED
  BY <1>1, <1>2 DEF Keeps

LEMMA ArrayKept ==
  ASSUME NEW m, NEW w, Keeps(m, w), NEW xs, ArrayOK(m, xs)
  PROVE  ArrayOK(w, xs)
<1>1. Len(m) \in Nat /\ Len(w) \in Nat /\ Len(m) <= Len(w)
  BY SeqShape DEF Keeps, Buffers
<1>2. ASSUME xs.len > 0 PROVE xs.data \in 1..Len(w) /\ xs.len <= Len(w[xs.data])
  <2>1. xs.data \in 1..Len(m) /\ xs.len <= Len(m[xs.data]) /\ xs.len \in Nat
    BY <1>2 DEF ArrayOK
  <2>2. xs.data \in 1..Len(w)
    BY <1>1, <2>1
  <2>3. Len(m[xs.data]) \in Nat /\ Len(w[xs.data]) \in Nat /\ Len(m[xs.data]) <= Len(w[xs.data])
    BY <2>1, <2>2, SeqShape DEF Keeps, Buffers
  <2>4. QED
    BY <2>1, <2>2, <2>3
<1>3. QED
  BY <1>2 DEF ArrayOK

LEMMA InsideKept ==
  ASSUME NEW m, NEW w, Keeps(m, w), NEW id, NEW e, Inside(m, id, e), NEW e2, e2.parent = e.parent
  PROVE  Inside(w, id, e2)
BY DEF Keeps, Inside

LEMMA NodeKept ==
  ASSUME NEW m, NEW w, Keeps(m, w), NEW c \in Nat, NEW d \in Nat, c <= d,
         NEW n, NodeOK(m, c, n)
  PROVE  NodeOK(w, d, n)
<1>1. Shaped(n) /\ n.id \in 1..(d - 1)
  BY DEF NodeOK
<1>2. n.parent # NoNode => n.parent \in Addresses(w) /\ NodeAt(w, n.parent).id < n.id
  BY DEF NodeOK, Keeps
<1>3. \A s \in Slots(n) : ArrayOK(m, ArrayIn(n, s))
  BY DEF NodeOK
<1>4. \A s \in Slots(n) : \A i \in 1..ArrayIn(n, s).len :
        /\ w[ArrayIn(n, s).data][i].id = m[ArrayIn(n, s).data][i].id
        /\ w[ArrayIn(n, s).data][i].parent = m[ArrayIn(n, s).data][i].parent
  BY <1>3, ElementKept
<1>5. ASSUME NEW s \in Slots(n)
      PROVE  /\ ArrayOK(w, ArrayIn(n, s))
             /\ \A i \in 1..ArrayIn(n, s).len : Inside(w, n.id, w[ArrayIn(n, s).data][i])
  <2>1. ArrayOK(w, ArrayIn(n, s))
    BY <1>3, ArrayKept
  <2>2. ASSUME NEW i \in 1..ArrayIn(n, s).len PROVE Inside(w, n.id, w[ArrayIn(n, s).data][i])
    <3>1. Inside(m, n.id, m[ArrayIn(n, s).data][i])
      BY DEF NodeOK
    <3>2. QED
      BY <1>4, <3>1, InsideKept
  <2>3. QED
    BY <2>1, <2>2
<1>6. ASSUME NEW s \in Slots(n), NEW t \in Slots(n),
             NEW i \in 1..ArrayIn(n, s).len, NEW j \in 1..ArrayIn(n, t).len,
             w[ArrayIn(n, s).data][i].id = w[ArrayIn(n, t).data][j].id
      PROVE  s = t /\ i = j
  <2>1. m[ArrayIn(n, s).data][i].id = m[ArrayIn(n, t).data][j].id
    BY <1>4, <1>6
  <2>2. QED
    BY <2>1 DEF NodeOK
<1>7. QED
  BY <1>1, <1>2, <1>5, <1>6 DEF NodeOK

-----------------------------------------------------------------------------
(* An array grows: w is m with a node more at the end of xs, which is ys now. *)
Grows(m, w, xs, ys, node) ==
  /\ Buffers(m) /\ Buffers(w) /\ Len(m) <= Len(w)
  /\ \A b \in 1..Len(m) : xs = NoArray \/ b # xs.data => w[b] = m[b]
  /\ \A b \in 1..Len(m) : Len(m[b]) <= Len(w[b]) /\ \A i \in 1..Len(m[b]) : w[b][i] = m[b][i]
  /\ \A b \in 1..Len(w) : \A i \in 1..Len(w[b]) :
       w[b][i] = node \/ \E p \in Addresses(m) : w[b][i] = NodeAt(m, p)
  /\ xs.len \in Nat /\ IsArray(ys)
  /\ ys.data \in 1..Len(w) /\ ys.len = xs.len + 1 /\ ys.len = Len(w[ys.data])
  /\ \A i \in 1..xs.len : w[ys.data][i] = m[xs.data][i]
  /\ w[ys.data][ys.len] = node

LEMMA AppendedGrows ==
  ASSUME Buffers(memory), NEW xs, ArrayOK(memory, xs), Full(memory, xs), NEW node
  PROVE  Grows(memory, Appended(xs, node).memory, xs, Appended(xs, node).array, node)
<1> DEFINE elements == IF xs.data = 0 THEN <<>> ELSE memory[xs.data]
           m == memory
           more == Append(elements, node)
           n == Len(memory)
<1>1. n \in Nat /\ xs.len \in Nat /\ \A b \in 1..n : IsSeq(m[b]) /\ Len(m[b]) \in Nat
  BY SeqShape DEF Buffers, ArrayOK
<1>2. IsSeq(elements) /\ Len(elements) = xs.len
  <2>1. CASE xs = NoArray
    BY <2>1, NoneShape DEF NoArray
  <2>2. CASE xs # NoArray
    BY <1>1, <2>2 DEF Full
  <2>3. QED
    BY <2>1, <2>2
<1>3. xs # NoArray => xs.data \in 1..n /\ elements = m[xs.data]
  BY <1>1 DEF Full
<1>4. xs = NoArray => xs.len = 0 /\ xs.capacity = 0
  BY DEF NoArray
<1>5. /\ IsSeq(more) /\ Len(more) = xs.len + 1 /\ more[xs.len + 1] = node
      /\ \A i \in 1..xs.len : more[i] = elements[i]
  BY <1>2, AppendShape
<1>6. \A i \in 1..xs.len : elements[i] = m[xs.data][i] /\ <<xs.data, i>> \in Addresses(m)
                         /\ elements[i] = NodeAt(m, <<xs.data, i>>)
  <2>1. \A i \in 1..xs.len : xs # NoArray
    BY <1>4
  <2>2. QED
    BY <1>3, <2>1, ElementIn
<1>7. \A b \in 1..n : \A i \in 1..Len(m[b]) : <<b, i>> \in Addresses(m) /\ m[b][i] = NodeAt(m, <<b, i>>)
  BY AddressIn DEF NodeAt
<1>8. \A i \in 1..Len(more) : more[i] = node \/ \E p \in Addresses(m) : more[i] = NodeAt(m, p)
  <2>1. SUFFICES ASSUME NEW i \in 1..Len(more)
                 PROVE  more[i] = node \/ \E p \in Addresses(m) : more[i] = NodeAt(m, p)
    OBVIOUS
  <2>2. CASE i = xs.len + 1
    BY <1>5, <2>2
  <2>3. CASE i \in 1..xs.len
    BY <1>5, <1>6, <2>3
  <2>4. QED
    BY <1>1, <1>5, <2>2, <2>3
<1> HIDE DEF elements, more
<1>9. CASE xs.len = xs.capacity
  <2> DEFINE w == Append(m, more)
             ys == [data |-> n + 1, len |-> xs.len + 1,
                    capacity |-> IF xs.capacity = 0 THEN 4 ELSE xs.capacity * 2]
  <2>1. Appended(xs, node).memory = w /\ Appended(xs, node).array = ys
    BY <1>9 DEF Appended, Left, elements, more
  <2>2. IsSeq(w) /\ Len(w) = n + 1 /\ w[n + 1] = more /\ \A b \in 1..n : w[b] = m[b]
    BY AppendShape DEF Buffers
  <2>3. IsArray(ys) /\ ys.data = n + 1 /\ ys.len = xs.len + 1
    BY DEF IsArray
  <2> HIDE DEF w, ys
  <2>4. \A b \in 1..Len(w) : b \in 1..n \/ b = n + 1
    BY <1>1, <2>2
  <2>5. \A b \in 1..Len(w) : IsSeq(w[b])
    BY <1>1, <1>5, <2>2, <2>4
  <2>6. ASSUME NEW b \in 1..Len(w), NEW i \in 1..Len(w[b])
        PROVE  w[b][i] = node \/ \E p \in Addresses(m) : w[b][i] = NodeAt(m, p)
    BY <1>7, <1>8, <2>2, <2>4
  <2>7. Buffers(w) /\ Buffers(m) /\ Len(m) <= Len(w)
    BY <1>1, <2>2, <2>5 DEF Buffers
  <2>8. ys.data \in 1..Len(w) /\ w[ys.data] = more
    BY <1>1, <2>2, <2>3
  <2>9. ASSUME NEW b \in 1..n
        PROVE  w[b] = m[b] /\ Len(m[b]) <= Len(w[b]) /\ \A i \in 1..Len(m[b]) : w[b][i] = m[b][i]
    BY <1>1, <2>2
  <2>10. /\ ys.len = Len(w[ys.data]) /\ w[ys.data][ys.len] = node
         /\ \A i \in 1..xs.len : w[ys.data][i] = m[xs.data][i]
    BY <1>5, <1>6, <2>3, <2>8
  <2>11. Grows(m, w, xs, ys, node)
    BY <1>1, <2>3, <2>6, <2>7, <2>8, <2>9, <2>10 DEF Grows
  <2>12. QED
    BY <2>1, <2>11
<1>10. CASE xs.len # xs.capacity
  <2> DEFINE w == [m EXCEPT ![xs.data] = more]
             ys == [xs EXCEPT !.len = xs.len + 1]
  <2>1. xs # NoArray /\ xs.data \in 1..n /\ elements = m[xs.data]
    BY <1>3, <1>4, <1>10
  <2>2. Appended(xs, node).memory = w /\ Appended(xs, node).array = ys
    BY <1>10, <2>1 DEF Appended, Left, elements, more
  <2>3. IsSeq(w) /\ Len(w) = n /\ \A b \in 1..n : w[b] = IF b = xs.data THEN more ELSE m[b]
    <3>1. IsSeq(m) /\ xs.data \in 1..Len(m)
      BY <2>1 DEF Buffers
    <3>2. DOMAIN m = 1..n
      BY <3>1, SeqShape
    <3>3. w = [b \in 1..n |-> w[b]] /\ \A b \in 1..n : w[b] = IF b = xs.data THEN more ELSE m[b]
      BY <3>2
    <3> HIDE DEF w
    <3>4. IsSeq(w) /\ Len(w) = n
      BY <1>1, <3>3, FunctionIsSeq
    <3>5. QED
      BY <3>3, <3>4
  <2>4. IsArray(ys) /\ ys.data = xs.data /\ ys.len = xs.len + 1
    BY DEF IsArray, ArrayOK
  <2> HIDE DEF w, ys
  <2>5. \A b \in 1..Len(w) : IsSeq(w[b])
    BY <1>1, <1>5, <2>3
  <2>6. ASSUME NEW b \in 1..Len(w), NEW i \in 1..Len(w[b])
        PROVE  w[b][i] = node \/ \E p \in Addresses(m) : w[b][i] = NodeAt(m, p)
    <3>1. b \in 1..n
      BY <2>3
    <3>2. CASE b = xs.data
      BY <1>8, <2>3, <3>1, <3>2
    <3>3. CASE b # xs.data
      <4>1. i \in 1..Len(m[b]) /\ w[b][i] = m[b][i]
        BY <2>3, <3>1, <3>3
      <4>2. QED
        BY <1>7, <3>1, <4>1
    <3>4. QED
      BY <3>2, <3>3
  <2>7. Buffers(w) /\ Buffers(m) /\ Len(m) <= Len(w)
    BY <1>1, <2>3, <2>5 DEF Buffers
  <2>8. ys.data \in 1..Len(w) /\ w[ys.data] = more
    BY <2>1, <2>3, <2>4
  <2>9. ASSUME NEW b \in 1..n
        PROVE  Len(m[b]) <= Len(w[b]) /\ \A i \in 1..Len(m[b]) : w[b][i] = m[b][i]
    <3>1. CASE b = xs.data
      BY <1>1, <1>2, <1>5, <2>1, <2>3, <3>1
    <3>2. CASE b # xs.data
      BY <1>1, <2>3, <3>2
    <3>3. QED
      BY <3>1, <3>2
  <2>10. \A b \in 1..Len(m) : xs = NoArray \/ b # xs.data => w[b] = m[b]
    BY <2>1, <2>3
  <2>11. Grows(m, w, xs, ys, node)
    BY <1>1, <1>5, <1>6, <2>4, <2>6, <2>7, <2>8, <2>9, <2>10 DEF Grows
  <2>12. QED
    BY <2>2, <2>11
<1>11. QED
  BY <1>9, <1>10

-----------------------------------------------------------------------------
(* The slots of a node.                                                    *)
LEMMA SlotCases ==
  ASSUME NEW n, Shaped(n)
  PROVE  Slots(n) = {<<"ret", 1>>, <<"items", 1>>}
                    \cup {<<"type", j>> : j \in 1..Len(n.pairs)} \cup {<<"value", j>> : j \in 1..Len(n.pairs)}
<1>1. IsSeq(n.pairs)
  BY DEF Shaped
<1>2. DOMAIN n.pairs = 1..Len(n.pairs)
  BY <1>1, SeqShape
<1>3. QED
  BY <1>2 DEF Slots

LEMMA SlotArrays ==
  ASSUME NEW n
  PROVE  /\ ArrayIn(n, <<"ret", 1>>) = n.ret /\ ArrayIn(n, <<"items", 1>>) = n.items
         /\ \A j : ArrayIn(n, <<"type", j>>) = n.pairs[j].type
         /\ \A j : ArrayIn(n, <<"value", j>>) = n.pairs[j].value
BY DEF ArrayIn

(* A node without children yet.                                            *)
Fresh(m, c, node) ==
  /\ Shaped(node) /\ node.id = c /\ node.pairs = <<>> /\ node.ret = NoArray /\ node.items = NoArray
  /\ node.parent # NoNode => node.parent \in Addresses(m)

LEMMA NoArrayOK ==
  ASSUME NEW m
  PROVE  ArrayOK(m, NoArray) /\ NoArray.len = 0 /\ Full(m, NoArray)
BY DEF ArrayOK, IsArray, NoArray, Full

LEMMA FreshOK ==
  ASSUME NEW m, NEW c, MemoryOK(m, c), NEW w, Keeps(m, w), NEW node, Fresh(m, c, node)
  PROVE  NodeOK(w, c + 1, node)
<1>1. c \in Nat /\ c > 0 /\ node.id \in 1..((c + 1) - 1)
  BY DEF MemoryOK, Fresh
<1>2. Slots(node) = {<<"ret", 1>>, <<"items", 1>>}
  <2>1. Len(node.pairs) = 0 /\ Shaped(node)
    BY NoneShape DEF Fresh
  <2>2. 1..Len(node.pairs) = {}
    BY <2>1
  <2>3. Slots(node) = {<<"ret", 1>>, <<"items", 1>>} \cup {<<"type", j>> : j \in {}} \cup {<<"value", j>> : j \in {}}
    BY <2>1, <2>2, SlotCases
  <2>4. QED
    BY <2>3
<1>3. \A s \in Slots(node) : ArrayIn(node, s) = NoArray
  BY <1>2, SlotArrays DEF Fresh
<1>4. \A s \in Slots(node) : ArrayOK(w, ArrayIn(node, s)) /\ 1..ArrayIn(node, s).len = {}
  BY <1>3, NoArrayOK
<1>5. ASSUME node.parent # NoNode PROVE node.parent \in Addresses(w) /\ NodeAt(w, node.parent).id < node.id
  <2>1. node.parent \in Addresses(m)
    BY <1>5 DEF Fresh
  <2>2. NodeAt(m, node.parent).id \in 1..(c - 1)
    BY <2>1 DEF MemoryOK, NodeOK
  <2>3. node.parent \in Addresses(w) /\ NodeAt(w, node.parent).id = NodeAt(m, node.parent).id
    BY <2>1 DEF Keeps
  <2>4. QED
    BY <1>1, <2>2, <2>3 DEF Fresh
<1>6. QED
  BY <1>1, <1>4, <1>5 DEF NodeOK, Fresh

-----------------------------------------------------------------------------
LEMMA GrowsKeeps ==
  ASSUME NEW m, NEW w, NEW xs, NEW ys, NEW node, Grows(m, w, xs, ys, node)
  PROVE  Keeps(m, w) /\ \A p \in Addresses(m) : NodeAt(w, p) = NodeAt(m, p)
<1>1. Buffers(m) /\ Buffers(w) /\ Len(m) <= Len(w) /\ Len(m) \in Nat /\ Len(w) \in Nat
  BY SeqShape DEF Grows, Buffers
<1>2. \A b \in 1..Len(m) : Len(m[b]) <= Len(w[b])
  BY DEF Grows
<1>3. ASSUME NEW p \in Addresses(m)
      PROVE  p \in Addresses(w) /\ NodeAt(w, p) = NodeAt(m, p)
  <2>1. p = <<p[1], p[2]>> /\ p[1] \in 1..Len(m) /\ p[2] \in 1..Len(m[p[1]])
    BY <1>1, AddressIn
  <2>2. p[1] \in 1..Len(w)
    BY <1>1, <2>1
  <2>3. Len(m[p[1]]) \in Nat /\ Len(w[p[1]]) \in Nat /\ Len(m[p[1]]) <= Len(w[p[1]])
    BY <1>1, <1>2, <2>1, <2>2, SeqShape DEF Buffers
  <2>4. p[2] \in 1..Len(w[p[1]])
    BY <2>1, <2>3
  <2>5. w[p[1]][p[2]] = m[p[1]][p[2]]
    BY <2>1 DEF Grows
  <2>6. QED
    BY <1>1, <2>1, <2>2, <2>4, <2>5, AddressIn DEF NodeAt
<1>4. QED
  BY <1>1, <1>2, <1>3 DEF Keeps

(* Where a node is in the grown memory: it is the new one or a former one.   *)
LEMMA GrownNode ==
  ASSUME NEW m, NEW w, NEW xs, NEW ys, NEW node, Grows(m, w, xs, ys, node), NEW p \in Addresses(w)
  PROVE  NodeAt(w, p) = node \/ \E q \in Addresses(m) : NodeAt(w, p) = NodeAt(m, q)
<1>1. p[1] \in 1..Len(w) /\ p[2] \in 1..Len(w[p[1]])
  BY AddressIn DEF Grows
<1>2. QED
  BY <1>1 DEF Grows, NodeAt

LEMMA GrownMemory ==
  ASSUME NEW m, NEW w, NEW xs, NEW ys, NEW node, NEW c,
         MemoryOK(m, c), Grows(m, w, xs, ys, node), Fresh(m, c, node)
  PROVE  /\ MemoryOK(w, c + 1)
         /\ <<ys.data, ys.len>> \in Addresses(w) /\ NodeAt(w, <<ys.data, ys.len>>) = node
         /\ <<ys.data, ys.len>> \notin Addresses(m)
<1>1. Keeps(m, w) /\ \A p \in Addresses(m) : NodeAt(w, p) = NodeAt(m, p)
  BY GrowsKeeps
<1>2. c \in Nat /\ c > 0 /\ c + 1 \in Nat \ {0} /\ Buffers(w)
  BY DEF MemoryOK, Grows
<1>3. \A q \in Addresses(m) : NodeAt(m, q).id \in 1..(c - 1) /\ NodeAt(m, q).id # c
  BY <1>2 DEF MemoryOK, NodeOK
<1>4. ASSUME NEW p \in Addresses(w) PROVE NodeOK(w, c + 1, NodeAt(w, p))
  <2>1. CASE NodeAt(w, p) = node
    BY <1>1, <2>1, FreshOK
  <2>2. CASE \E q \in Addresses(m) : NodeAt(w, p) = NodeAt(m, q)
    <3>1. PICK q \in Addresses(m) : NodeAt(w, p) = NodeAt(m, q)
      BY <2>2
    <3>2. NodeOK(m, c, NodeAt(m, q)) /\ c <= c + 1 /\ c + 1 \in Nat
      BY <1>2 DEF MemoryOK
    <3>3. QED
      BY <1>1, <1>2, <3>1, <3>2, NodeKept
  <2>3. QED
    BY <2>1, <2>2, GrownNode
<1>5. ASSUME NEW p \in Addresses(w), NEW q \in Addresses(w), NodeAt(w, p).id = NodeAt(w, q).id
      PROVE  NodeAt(w, p).parent = NodeAt(w, q).parent
  <2>1. NodeAt(w, p) = node \/ \E r \in Addresses(m) : NodeAt(w, p) = NodeAt(m, r)
    BY GrownNode
  <2>2. NodeAt(w, q) = node \/ \E r \in Addresses(m) : NodeAt(w, q) = NodeAt(m, r)
    BY GrownNode
  <2>3. node.id = c
    BY DEF Fresh
  <2>4. \A r \in Addresses(m), t \in Addresses(m) :
          NodeAt(m, r).id = NodeAt(m, t).id => NodeAt(m, r).parent = NodeAt(m, t).parent
    BY DEF MemoryOK
  <2>5. QED
    BY <1>3, <1>5, <2>1, <2>2, <2>3, <2>4
<1>6. <<ys.data, ys.len>> \in Addresses(w) /\ NodeAt(w, <<ys.data, ys.len>>) = node
  <2> DEFINE q == <<ys.data, ys.len>>
  <2>1. ys.data \in 1..Len(w) /\ ys.len = Len(w[ys.data]) /\ w[ys.data][ys.len] = node
    BY DEF Grows
  <2>2. ys.len \in Nat /\ ys.len > 0
    BY DEF Grows
  <2>3. QED
    BY <1>2, <2>1, <2>2, AddressIn DEF NodeAt
<1>7. <<ys.data, ys.len>> \notin Addresses(m)
  BY <1>1, <1>3, <1>6 DEF Fresh
<1>8. QED
  BY <1>2, <1>4, <1>5, <1>6, <1>7 DEF MemoryOK

-----------------------------------------------------------------------------
(* Elements of arrays, and the numbers they have.                           *)
LEMMA ElementNumber ==
  ASSUME NEW m, NEW c, MemoryOK(m, c), NEW xs, ArrayOK(m, xs), NEW i \in 1..xs.len
  PROVE  m[xs.data][i].id \in 1..(c - 1) /\ m[xs.data][i].id # c
<1>1. <<xs.data, i>> \in Addresses(m) /\ NodeAt(m, <<xs.data, i>>) = m[xs.data][i]
  BY ElementIn DEF MemoryOK
<1>2. c \in Nat
  BY DEF MemoryOK
<1>3. NodeOK(m, c, m[xs.data][i])
  <2>1. NodeOK(m, c, NodeAt(m, <<xs.data, i>>))
    BY <1>1 DEF MemoryOK
  <2>2. QED
    BY <1>1, <2>1
<1>4. m[xs.data][i].id \in 1..(c - 1)
  BY <1>3 DEF NodeOK
<1>5. QED
  BY <1>2, <1>4

LEMMA FitsKept ==
  ASSUME NEW m, NEW w, Keeps(m, w), NEW c, NEW n, NodeOK(m, c, n), NEW xs, NEW slot, Fits(m, n, xs, slot)
  PROVE  Fits(w, n, xs, slot)
<1>1. ArrayOK(m, xs) /\ ArrayOK(w, xs)
  BY ArrayKept DEF Fits
<1>2. \A i \in 1..xs.len : w[xs.data][i].id = m[xs.data][i].id /\ w[xs.data][i].parent = m[xs.data][i].parent
  BY <1>1, ElementKept
<1>3. \A s \in Slots(n) : \A j \in 1..ArrayIn(n, s).len :
        w[ArrayIn(n, s).data][j].id = m[ArrayIn(n, s).data][j].id
  <2>1. \A s \in Slots(n) : ArrayOK(m, ArrayIn(n, s))
    BY DEF NodeOK
  <2>2. QED
    BY <2>1, ElementKept
<1>4. \A i \in 1..xs.len : Inside(w, n.id, w[xs.data][i])
  <2>1. \A i \in 1..xs.len : Inside(m, n.id, m[xs.data][i])
    BY DEF Fits
  <2>2. QED
    BY <1>2, <2>1, InsideKept
<1>5. \A i \in 1..xs.len, j \in 1..xs.len : w[xs.data][i].id = w[xs.data][j].id => i = j
  BY <1>2 DEF Fits
<1>6. \A i \in 1..xs.len : \A s \in Slots(n) : s # slot => \A j \in 1..ArrayIn(n, s).len :
        w[xs.data][i].id # w[ArrayIn(n, s).data][j].id
  BY <1>2, <1>3 DEF Fits
<1>7. QED
  BY <1>1, <1>4, <1>5, <1>6 DEF Fits

(* A new node behind the elements of an array fits there.                    *)
LEMMA GrownFits ==
  ASSUME NEW m, NEW w, NEW xs, NEW ys, NEW node, NEW c, NEW n, NEW slot,
         MemoryOK(m, c), Grows(m, w, xs, ys, node), node.id = c,
         NodeOK(m, c, n), Fits(m, n, xs, slot), Inside(w, n.id, node)
  PROVE  Fits(w, n, ys, slot)
<1>1. Keeps(m, w)
  BY GrowsKeeps
<1>2. Fits(w, n, xs, slot) /\ ArrayOK(m, xs)
  BY <1>1, FitsKept DEF Fits
<1>3. xs.len \in Nat /\ ys.len = xs.len + 1 /\ ArrayOK(w, ys)
  BY DEF Grows, ArrayOK, IsArray
<1>4. \A i \in 1..ys.len : i \in 1..xs.len \/ i = ys.len
  BY <1>3
<1>5. /\ \A i \in 1..xs.len : w[ys.data][i] = m[xs.data][i]
      /\ w[ys.data][ys.len] = node
  BY DEF Grows
<1>6. \A i \in 1..xs.len : w[xs.data][i].id = m[xs.data][i].id /\ w[xs.data][i].parent = m[xs.data][i].parent
  BY <1>1, <1>2, ElementKept
<1>7. \A i \in 1..xs.len : w[ys.data][i].id = w[xs.data][i].id /\ w[ys.data][i].parent = w[xs.data][i].parent
  BY <1>5, <1>6
<1>8. \A i \in 1..xs.len : w[ys.data][i].id # c
  BY <1>2, <1>5, ElementNumber
<1>9. \A s \in Slots(n) : \A j \in 1..ArrayIn(n, s).len : w[ArrayIn(n, s).data][j].id # c
  <2>1. \A s \in Slots(n) : ArrayOK(m, ArrayIn(n, s))
    BY DEF NodeOK
  <2>2. \A s \in Slots(n) : \A j \in 1..ArrayIn(n, s).len :
          /\ m[ArrayIn(n, s).data][j].id # c
          /\ w[ArrayIn(n, s).data][j].id = m[ArrayIn(n, s).data][j].id
    BY <1>1, <2>1, ElementNumber, ElementKept
  <2>3. QED
    BY <2>2
<1>10. \A i \in 1..ys.len : Inside(w, n.id, w[ys.data][i])
  <2>1. \A i \in 1..xs.len : Inside(w, n.id, w[xs.data][i])
    BY <1>2 DEF Fits
  <2>2. \A i \in 1..xs.len : Inside(w, n.id, w[ys.data][i])
    BY <1>7, <2>1 DEF Inside
  <2>3. QED
    BY <1>4, <1>5, <2>2
<1>11. \A i \in 1..ys.len, j \in 1..ys.len : w[ys.data][i].id = w[ys.data][j].id => i = j
  <2>1. \A i \in 1..xs.len, j \in 1..xs.len : w[ys.data][i].id = w[ys.data][j].id => i = j
    BY <1>2, <1>7 DEF Fits
  <2>2. QED
    BY <1>4, <1>5, <1>8, <2>1
<1>12. \A i \in 1..ys.len : \A s \in Slots(n) : s # slot => \A j \in 1..ArrayIn(n, s).len :
         w[ys.data][i].id # w[ArrayIn(n, s).data][j].id
  <2>1. \A i \in 1..xs.len : \A s \in Slots(n) : s # slot => \A j \in 1..ArrayIn(n, s).len :
          w[ys.data][i].id # w[ArrayIn(n, s).data][j].id
    BY <1>2, <1>7 DEF Fits
  <2>2. QED
    BY <1>4, <1>5, <1>9, <2>1
<1>13. QED
  BY <1>3, <1>10, <1>11, <1>12 DEF Fits

(* One slot of a node is given an array that fits, or is new with it.        *)
LEMMA NodeFilled ==
  ASSUME NEW m, NEW c, NEW n, NEW new, NodeOK(m, c, n), Shaped(new), new.id = n.id, new.parent = n.parent,
         NEW slot \in Slots(new), Fits(m, n, ArrayIn(new, slot), slot),
         \A s \in Slots(new) : \/ s = slot
                               \/ ArrayIn(new, s) = NoArray
                               \/ s \in Slots(n) /\ ArrayIn(new, s) = ArrayIn(n, s)
  PROVE  NodeOK(m, c, new)
<1>1. /\ new.id \in 1..(c - 1)
      /\ new.parent # NoNode => new.parent \in Addresses(m) /\ NodeAt(m, new.parent).id < new.id
  BY DEF NodeOK
<1>2. \A s \in Slots(n) : /\ ArrayOK(m, ArrayIn(n, s))
                          /\ \A i \in 1..ArrayIn(n, s).len : Inside(m, n.id, m[ArrayIn(n, s).data][i])
  BY DEF NodeOK
<1>3. /\ ArrayOK(m, ArrayIn(new, slot))
      /\ \A i \in 1..ArrayIn(new, slot).len : Inside(m, n.id, m[ArrayIn(new, slot).data][i])
  BY DEF Fits
<1>4. ArrayOK(m, NoArray) /\ \A i : i \notin 1..NoArray.len
  BY NoArrayOK
<1>5. \A s \in Slots(new) : /\ ArrayOK(m, ArrayIn(new, s))
                            /\ \A i \in 1..ArrayIn(new, s).len : Inside(m, new.id, m[ArrayIn(new, s).data][i])
  BY <1>2, <1>3, <1>4
<1>6. ASSUME NEW s \in Slots(new), NEW t \in Slots(new),
             NEW i \in 1..ArrayIn(new, s).len, NEW j \in 1..ArrayIn(new, t).len,
             m[ArrayIn(new, s).data][i].id = m[ArrayIn(new, t).data][j].id
      PROVE  s = t /\ i = j
  <2>1. s = slot \/ (s \in Slots(n) /\ ArrayIn(new, s) = ArrayIn(n, s))
    BY <1>4
  <2>2. t = slot \/ (t \in Slots(n) /\ ArrayIn(new, t) = ArrayIn(n, t))
    BY <1>4
  <2>3. CASE s = slot /\ t = slot
    BY <1>6, <2>3 DEF Fits
  <2>4. CASE s = slot /\ t # slot
    BY <1>6, <2>2, <2>4 DEF Fits
  <2>5. CASE s # slot /\ t = slot
    <3>1. s \in Slots(n) /\ s # slot /\ i \in 1..ArrayIn(n, s).len /\ ArrayIn(new, s) = ArrayIn(n, s)
      BY <2>1, <2>5
    <3>2. m[ArrayIn(new, slot).data][j].id # m[ArrayIn(n, s).data][i].id
      BY <2>5, <3>1 DEF Fits
    <3>3. QED
      BY <1>6, <2>5, <3>1, <3>2
  <2>6. CASE s # slot /\ t # slot
    BY <1>6, <2>1, <2>2, <2>6 DEF NodeOK
  <2>7. QED
    BY <2>3, <2>4, <2>5, <2>6
<1>7. QED
  BY <1>1, <1>5, <1>6 DEF NodeOK

-----------------------------------------------------------------------------
(* One node is changed where it lies.                                       *)
Rewrites(m, v, p, new) ==
  /\ Buffers(m) /\ Buffers(v) /\ Len(v) = Len(m) /\ \A b \in 1..Len(m) : Len(v[b]) = Len(m[b])
  /\ Addresses(v) = Addresses(m)
  /\ NodeAt(v, p) = new
  /\ \A q \in Addresses(m) : q # p => NodeAt(v, q) = NodeAt(m, q)

LEMMA Rewritten ==
  ASSUME NEW m, Buffers(m), NEW p \in Addresses(m), NEW new, NEW v,
         v = [b \in 1..Len(m) |-> v[b]],
         \A b \in 1..Len(m) : b # p[1] => v[b] = m[b],
         v[p[1]] = [i \in 1..Len(m[p[1]]) |-> v[p[1]][i]],
         \A i \in 1..Len(m[p[1]]) : v[p[1]][i] = IF i = p[2] THEN new ELSE m[p[1]][i]
  PROVE  Rewrites(m, v, p, new)
<1> DEFINE n == Len(m)
<1>1. IsSeq(m) /\ n \in Nat /\ DOMAIN m = 1..n
  BY SeqShape DEF Buffers
<1>2. p = <<p[1], p[2]>> /\ p[1] \in 1..n /\ p[2] \in 1..Len(m[p[1]])
  BY AddressIn
<1>3. \A b \in 1..n : b # p[1] => v[b] = m[b]
  OBVIOUS
<1>5. IsSeq(m[p[1]]) /\ Len(m[p[1]]) \in Nat
  BY <1>2, SeqShape DEF Buffers
<1>6. /\ IsSeq(v[p[1]]) /\ Len(v[p[1]]) = Len(m[p[1]])
      /\ \A i \in 1..Len(m[p[1]]) : v[p[1]][i] = IF i = p[2] THEN new ELSE m[p[1]][i]
  BY <1>5, FunctionIsSeq
<1>7. IsSeq(v) /\ Len(v) = n
  BY <1>1, FunctionIsSeq
<1>8. \A b \in 1..n : IsSeq(v[b]) /\ Len(v[b]) = Len(m[b])
  BY <1>3, <1>6 DEF Buffers
<1>9. Buffers(v)
  BY <1>7, <1>8 DEF Buffers
<1>10. \A q : q \in Addresses(v) <=> q \in Addresses(m)
  BY <1>7, <1>8, <1>9, AddressIn
<1>11. NodeAt(v, p) = new
  BY <1>2, <1>6 DEF NodeAt
<1>12. ASSUME NEW q \in Addresses(m), q # p PROVE NodeAt(v, q) = NodeAt(m, q)
  <2>1. q = <<q[1], q[2]>> /\ q[1] \in 1..n /\ q[2] \in 1..Len(m[q[1]])
    BY AddressIn
  <2>2. CASE q[1] # p[1]
    BY <1>3, <2>1, <2>2 DEF NodeAt
  <2>3. CASE q[1] = p[1]
    <3>1. q[2] # p[2]
      BY <1>2, <1>12, <2>1, <2>3
    <3>2. QED
      BY <1>6, <2>1, <2>3, <3>1 DEF NodeAt
  <2>4. QED
    BY <2>2, <2>3
<1>13. QED
  BY <1>7, <1>8, <1>9, <1>10, <1>11, <1>12 DEF Rewrites

LEMMA Rewriting ==
  ASSUME NEW m, Buffers(m), NEW p \in Addresses(m), NEW new
  PROVE  Rewrites(m, [m EXCEPT ![p[1]][p[2]] = new], p, new)
<1> DEFINE v == [m EXCEPT ![p[1]][p[2]] = new]
<1>1. DOMAIN m = 1..Len(m)
  BY SeqShape DEF Buffers
<1>2. p[1] \in 1..Len(m) /\ p[2] \in 1..Len(m[p[1]])
  BY AddressIn
<1>3. DOMAIN m[p[1]] = 1..Len(m[p[1]])
  BY <1>2, SeqShape DEF Buffers
<1>4. v = [b \in 1..Len(m) |-> v[b]] /\ \A b \in 1..Len(m) : b # p[1] => v[b] = m[b]
  BY <1>1, <1>2
<1>5. v[p[1]] = [m[p[1]] EXCEPT ![p[2]] = new]
  BY <1>1, <1>2
<1>6. /\ v[p[1]] = [i \in 1..Len(m[p[1]]) |-> v[p[1]][i]]
      /\ \A i \in 1..Len(m[p[1]]) : v[p[1]][i] = IF i = p[2] THEN new ELSE m[p[1]][i]
  <2> DEFINE r == v[p[1]]
  <2>1. r = [m[p[1]] EXCEPT ![p[2]] = new]
    BY <1>5
  <2> HIDE DEF r
  <2>2. r = [i \in 1..Len(m[p[1]]) |-> r[i]] /\ \A i \in 1..Len(m[p[1]]) : r[i] = IF i = p[2] THEN new ELSE m[p[1]][i]
    BY <1>2, <1>3, <2>1
  <2>3. QED
    BY <2>2 DEF r
<1> HIDE DEF v
<1>7. Rewrites(m, v, p, new)
  BY <1>4, <1>6, Rewritten
<1>8. QED
  BY <1>7 DEF v

LEMMA RewrittenMemory ==
  ASSUME NEW m, NEW v, NEW c, NEW p \in Addresses(m), NEW new, MemoryOK(m, c), Rewrites(m, v, p, new),
         NodeOK(m, c, new), new.id = NodeAt(m, p).id, new.parent = NodeAt(m, p).parent
  PROVE  MemoryOK(v, c) /\ Keeps(m, v)
<1>1. \A q \in Addresses(m) : NodeAt(v, q).id = NodeAt(m, q).id /\ NodeAt(v, q).parent = NodeAt(m, q).parent
  BY DEF Rewrites
<1>2. Keeps(m, v)
  <2>1. Len(m) <= Len(v) /\ \A b \in 1..Len(m) : Len(m[b]) <= Len(v[b])
    <3>1. Len(m) \in Nat /\ \A b \in 1..Len(m) : Len(m[b]) \in Nat
      BY SeqShape DEF Rewrites, Buffers
    <3>2. QED
      BY <3>1 DEF Rewrites
  <2>2. QED
    BY <1>1, <2>1 DEF Keeps, Rewrites
<1>3. c \in Nat \ {0} /\ c <= c
  BY DEF MemoryOK
<1>4. ASSUME NEW q \in Addresses(v) PROVE NodeOK(v, c, NodeAt(v, q))
  <2>1. q \in Addresses(m) /\ NodeAt(v, q) = IF q = p THEN new ELSE NodeAt(m, q)
    BY DEF Rewrites
  <2>2. NodeOK(m, c, NodeAt(v, q))
    BY <2>1 DEF MemoryOK
  <2>3. QED
    BY <1>2, <1>3, <2>2, NodeKept
<1>5. ASSUME NEW q \in Addresses(v), NEW r \in Addresses(v), NodeAt(v, q).id = NodeAt(v, r).id
      PROVE  NodeAt(v, q).parent = NodeAt(v, r).parent
  <2>1. q \in Addresses(m) /\ r \in Addresses(m)
    BY DEF Rewrites
  <2>2. QED
    BY <1>1, <1>5, <2>1 DEF MemoryOK
<1>6. QED
  BY <1>2, <1>3, <1>4, <1>5 DEF MemoryOK, Rewrites

-----------------------------------------------------------------------------
(* Frames.                                                                 *)
LEMMA Waits == Expecting = {"argument type", "ret", "type", "value", "whole", "body", "list", "top"}
BY DEF Expecting, Closer

(* The slot Rec is about.                                                   *)
RecSlot(m, f) ==
  IF IsLocal(f) THEN Nowhere
  ELSE IF f.state = "ret" THEN <<"ret", 1>>
  ELSE IF f.state = "value" THEN <<"value", Len(NodeAt(m, f.node).pairs)>>
  ELSE <<"items", 1>>

LEMMA SlotFits ==
  ASSUME NEW m, NEW c, NEW n, NodeOK(m, c, n), NEW slot \in Slots(n)
  PROVE  Fits(m, n, ArrayIn(n, slot), slot)
<1> DEFINE xs == ArrayIn(n, slot)
<1>1. ArrayOK(m, xs) /\ \A i \in 1..xs.len : Inside(m, n.id, m[xs.data][i])
  BY DEF NodeOK
<1>2. \A i \in 1..xs.len, j \in 1..xs.len : m[xs.data][i].id = m[xs.data][j].id => i = j
  BY DEF NodeOK
<1>3. \A i \in 1..xs.len : \A s \in Slots(n) : s # slot => \A j \in 1..ArrayIn(n, s).len :
        m[xs.data][i].id # m[ArrayIn(n, s).data][j].id
  BY DEF NodeOK
<1>4. QED
  BY <1>1, <1>2, <1>3 DEF Fits

LEMMA RecFits ==
  ASSUME NEW m, NEW c, MemoryOK(m, c), NEW f, FrameOK(m, f), f.state \in Expecting
  PROVE  /\ Fits(m, NodeAt(m, f.node), Rec(m, f), RecSlot(m, f))
         /\ ~IsLocal(f) => /\ RecSlot(m, f) \in Slots(NodeAt(m, f.node))
                           /\ ArrayIn(NodeAt(m, f.node), RecSlot(m, f)) = Rec(m, f)
<1> DEFINE n == NodeAt(m, f.node)
<1>1. NodeOK(m, c, n) /\ Shaped(n)
  BY DEF FrameOK, MemoryOK, NodeOK
<1>2. CASE IsLocal(f)
  <2>1. f.state \in WithLocal
    BY <1>2 DEF IsLocal, FrameOK, WithLocal
  <2>2. QED
    BY <1>2, <2>1 DEF FrameOK, LocalOK, Rec, RecSlot
<1>3. CASE ~IsLocal(f)
  <2>1. RecSlot(m, f) \in Slots(n) /\ ArrayIn(n, RecSlot(m, f)) = Rec(m, f)
    <3>1. CASE f.state = "value"
      <4>1. IsSeq(n.pairs) /\ n.pairs # <<>>
        BY <1>1, <3>1 DEF FrameOK, Shaped
      <4>2. Len(n.pairs) \in 1..Len(n.pairs)
        BY <4>1, SeqPositive
      <4>3. <<"value", Len(n.pairs)>> \in Slots(n)
        BY <1>1, <4>2, SlotCases
      <4>4. QED
        BY <1>3, <3>1, <4>3, SlotArrays DEF RecSlot, Rec
    <3>2. CASE f.state # "value"
      <4>1. <<"ret", 1>> \in Slots(n) /\ <<"items", 1>> \in Slots(n)
        BY <1>1, SlotCases
      <4>2. QED
        BY <1>3, <3>2, <4>1, SlotArrays DEF RecSlot, Rec
    <3>3. QED
      BY <3>1, <3>2
  <2>2. QED
    BY <1>1, <1>3, <2>1, SlotFits
<1>4. QED
  BY <1>2, <1>3

LEMMA FrameKept ==
  ASSUME NEW m, NEW w, NEW c, MemoryOK(m, c), Keeps(m, w), NEW f, FrameOK(m, f),
         NodeAt(w, f.node) = NodeAt(m, f.node), f.state \in Expecting => Full(w, Rec(m, f))
  PROVE  FrameOK(w, f) /\ Rec(w, f) = Rec(m, f)
<1>1. Rec(w, f) = Rec(m, f)
  BY DEF Rec
<1>2. f.node \in Addresses(w) /\ NodeOK(m, c, NodeAt(m, f.node))
  BY DEF FrameOK, Keeps, MemoryOK
<1>3. ASSUME f.state \in WithLocal PROVE LocalOK(w, f)
  <2>1. Fits(m, NodeAt(m, f.node), f.local, Nowhere)
    BY <1>3 DEF FrameOK, LocalOK
  <2>2. QED
    BY <1>2, <2>1, FitsKept DEF LocalOK
<1>4. QED
  BY <1>1, <1>2, <1>3 DEF FrameOK

LEMMA TopKept ==
  ASSUME NEW m, NEW w, Keeps(m, w), NEW f, TopOK(m, f), Full(w, f.local)
  PROVE  TopOK(w, f)
<1>1. ArrayOK(m, f.local) /\ ArrayOK(w, f.local)
  BY ArrayKept DEF TopOK
<1>2. \A i \in 1..f.local.len : /\ w[f.local.data][i].id = m[f.local.data][i].id
                                /\ w[f.local.data][i].parent = m[f.local.data][i].parent
  BY <1>1, ElementKept
<1>3. Outermost(w, f.local)
  BY <1>2 DEF TopOK, Outermost
<1>4. QED
  BY <1>1, <1>3 DEF TopOK

-----------------------------------------------------------------------------
(* The stack with another frame on top.                                     *)
Instead(st, st2, g) ==
  /\ IsSeq(st2) /\ Len(st2) = Len(st)
  /\ \A k \in 1..(Len(st) - 1) : st2[k] = st[k]
  /\ st2[Len(st)] = g

(* What StackOK says of the frames around the innermost form.                *)
LEMMA Around ==
  ASSUME NEW m, NEW st, StackOK(m, st)
  PROVE  /\ Len(st) \in Nat /\ Len(st) > 0 /\ st[1].state = "top" /\ Rec(m, st[1]) = st[1].local
         /\ \A k \in 1..(Len(st) - 1) : st[k].state # "form"
         /\ \A k \in 2..Len(st) : st[k].state # "form" => FrameOK(m, st[k]) /\ Awaited(m, st[k - 1], st[k])
         /\ \A k \in 2..Len(st) : st[k].state # "top"
<1>1. Len(st) \in Nat /\ Len(st) > 0 /\ st[1].state = "top"
  BY SeqShape DEF StackOK, TopOK
<1>2. Rec(m, st[1]) = st[1].local
  BY <1>1 DEF Rec, IsLocal
<1>3. "form" \notin Expecting
  BY Waits
<1>4. \A k \in 2..Len(st) : st[k].state # "form" => FrameOK(m, st[k]) /\ Awaited(m, st[k - 1], st[k])
  BY DEF StackOK
<1>5. \A k \in 2..Len(st) : st[k].state # "top"
  BY <1>4 DEF FrameOK
<1>6. QED
  BY <1>1, <1>2, <1>3, <1>4, <1>5 DEF StackOK

LEMMA StepKept ==
  ASSUME NEW m, NEW w, NEW c, MemoryOK(m, c), Keeps(m, w), NEW st, StackOK(m, st),
         NEW st2, NEW g, Instead(st, st2, g), st[Len(st)].state # "form",
         \A k \in 1..(Len(st) - 1) : Full(w, Rec(m, st[k])),
         \A k \in 2..(Len(st) - 1) : NodeAt(w, st[k].node) = NodeAt(m, st[k].node),
         Len(st) = 1 => TopOK(w, g),
         Len(st) > 1 => FrameOK(w, g) /\ g.node = st[Len(st)].node
  PROVE  StackOK(w, st2)
<1> DEFINE n == Len(st)
<1>1. n \in Nat /\ n > 0 /\ Len(st2) = n /\ IsSeq(st2)
  BY Around DEF Instead
<1>2. \A k \in 1..(n - 1) : st2[k] = st[k] /\ st[k].state # "form" /\ st[k].state \in Expecting
  <2>1. \A k \in 1..(n - 1) : st2[k] = st[k]
    BY DEF Instead
  <2>2. \A k \in 1..(n - 1) : st[k].state # "form" /\ st[k].state \in Expecting
    BY Around DEF StackOK
  <2>3. QED
    BY <2>1, <2>2
<1>3. \A k \in 2..(n - 1) : FrameOK(w, st[k]) /\ FrameOK(m, st[k]) /\ Rec(w, st[k]) = Rec(m, st[k])
  <2>1. SUFFICES ASSUME NEW k \in 2..(n - 1)
                 PROVE  FrameOK(w, st[k]) /\ FrameOK(m, st[k]) /\ Rec(w, st[k]) = Rec(m, st[k])
    OBVIOUS
  <2>2. k \in 1..(n - 1) /\ k \in 2..n
    BY <1>1
  <2>3. FrameOK(m, st[k])
    BY <1>2, <2>2, Around
  <2>4. QED
    BY <2>2, <2>3, FrameKept
<1>4. n > 1 => TopOK(w, st[1]) /\ Rec(w, st[1]) = Rec(m, st[1])
  <2>1. TopOK(m, st[1]) /\ Rec(m, st[1]) = st[1].local
    BY Around DEF StackOK
  <2>2. n > 1 => Full(w, st[1].local)
    BY <1>1, <2>1
  <2>3. Rec(w, st[1]) = st[1].local
    BY Around DEF Rec, IsLocal
  <2>4. QED
    BY <2>1, <2>2, <2>3, TopKept
<1>5. TopOK(w, st2[1])
  BY <1>1, <1>2, <1>4 DEF Instead
<1>6. ASSUME NEW k \in 2..n
      PROVE  st2[k].state # "form" /\ FrameOK(w, st2[k]) /\ Awaited(w, st2[k - 1], st2[k]) /\ st2[k].node = st[k].node
  <2>1. n > 1 /\ (k - 1) \in 1..(n - 1)
    BY <1>1
  <2>2. st2[k - 1] = st[k - 1] /\ Rec(w, st2[k - 1]) = Rec(m, st[k - 1])
    <3>1. st2[k - 1] = st[k - 1]
      BY <1>2, <2>1
    <3>2. CASE k = 2
      BY <1>4, <2>1, <3>1, <3>2
    <3>3. CASE k # 2
      <4>1. (k - 1) \in 2..(n - 1)
        BY <1>1, <3>3
      <4>2. QED
        BY <1>3, <3>1, <4>1
    <3>4. QED
      BY <3>2, <3>3
  <2>3. st[k].state # "form"
    BY <1>1, <1>2
  <2>4. Awaited(m, st[k - 1], st[k])
    BY <2>3, Around
  <2>5. FrameOK(w, st2[k]) /\ st2[k].node = st[k].node
    <3>1. CASE k = n
      BY <2>1, <3>1 DEF Instead
    <3>2. CASE k # n
      <4>1. k \in 2..(n - 1) /\ k \in 1..(n - 1)
        BY <1>1, <3>2
      <4>2. QED
        BY <1>2, <1>3, <4>1
    <3>3. QED
      BY <3>1, <3>2
  <2>6. Awaited(w, st2[k - 1], st2[k])
    BY <2>2, <2>4, <2>5 DEF Awaited
  <2>7. st2[k].state # "form"
    BY <2>5 DEF FrameOK
  <2>8. QED
    BY <2>5, <2>6, <2>7
<1>7. ASSUME NEW k \in 2..n, NEW l \in 2..n, k < l
      PROVE  NodeAt(w, st2[k].node).id < NodeAt(w, st2[l].node).id
  <2>1. st[k].state # "form" /\ st[l].state # "form"
    BY <1>1, <1>2
  <2>2. NodeAt(m, st[k].node).id < NodeAt(m, st[l].node).id
    BY <1>7, <2>1 DEF StackOK
  <2>3. st[k].node \in Addresses(m) /\ st[l].node \in Addresses(m)
    BY <2>1, Around DEF FrameOK
  <2>4. QED
    BY <1>6, <2>2, <2>3 DEF Keeps
<1>8. \A k \in 1..(n - 1) : st2[k].state \in Expecting
  BY <1>2
<1>9. QED
  BY <1>1, <1>5, <1>6, <1>7, <1>8 DEF StackOK

-----------------------------------------------------------------------------
(* No two forms fill one buffer: the last node in it would be inside both.    *)
LEMMA Apart ==
  ASSUME NEW m, NEW c, MemoryOK(m, c), NEW st, StackOK(m, st), st[Len(st)].state \in Expecting,
         NEW k \in 1..(Len(st) - 1), Rec(m, st[k]) # NoArray, Rec(m, st[Len(st)]) # NoArray
  PROVE  Rec(m, st[k]).data # Rec(m, st[Len(st)]).data
<1> DEFINE f == st[Len(st)]
           g == st[k]
           xs == Rec(m, f)
           ys == Rec(m, g)
           e == m[xs.data][xs.len]
<1> SUFFICES ASSUME ys.data = xs.data PROVE FALSE
  OBVIOUS
<1>1. Len(st) \in Nat /\ Len(st) \in 2..Len(st)
  BY Around
<1>2. f.state # "form" /\ g.state \in Expecting /\ g.state # "form"
  BY Waits, Around DEF StackOK
<1>3. FrameOK(m, f)
  BY <1>1, <1>2, Around
<1>4. xs.data \in 1..Len(m) /\ xs.len = Len(m[xs.data]) /\ xs.len > 0 /\ xs.len \in Nat
  <2>1. Full(m, xs)
    BY <1>3 DEF FrameOK
  <2>2. \A b \in 1..Len(m) : Len(m[b]) \in Nat
    BY SeqShape DEF MemoryOK, Buffers
  <2>3. QED
    BY <2>1, <2>2 DEF Full
<1>5. xs.len \in 1..xs.len
  BY <1>4
<1>6. Inside(m, NodeAt(m, f.node).id, e)
  <2>1. Fits(m, NodeAt(m, f.node), xs, RecSlot(m, f))
    BY <1>3, RecFits
  <2>2. QED
    BY <1>5, <2>1 DEF Fits
<1>7. CASE k = 1
  <2>1. TopOK(m, g) /\ ys = g.local
    BY <1>7, Around DEF StackOK
  <2>2. Full(m, ys) /\ Outermost(m, ys)
    BY <2>1 DEF TopOK
  <2>3. ys.len = xs.len
    BY <1>4, <2>2 DEF Full
  <2>4. e.parent = NoNode
    BY <1>5, <2>2, <2>3 DEF Outermost
  <2>5. NoNode \notin Addresses(m)
    BY AddressIn DEF MemoryOK, NoNode
  <2>6. QED
    BY <1>6, <2>4, <2>5 DEF Inside
<1>8. CASE k # 1
  <2>1. k \in 2..Len(st) /\ k < Len(st)
    BY <1>1, <1>8
  <2>2. FrameOK(m, g)
    BY <1>2, <2>1, Around
  <2>3. Full(m, ys)
    BY <1>2, <2>2 DEF FrameOK
  <2>4. ys.len = xs.len
    BY <1>4, <2>3 DEF Full
  <2>5. Inside(m, NodeAt(m, g.node).id, e)
    <3>1. Fits(m, NodeAt(m, g.node), ys, RecSlot(m, g))
      BY <1>2, <2>2, RecFits
    <3>2. QED
      BY <1>5, <2>4, <3>1 DEF Fits
  <2>6. NodeAt(m, g.node).id < NodeAt(m, f.node).id
    BY <1>1, <1>2, <2>1 DEF StackOK
  <2>7. NodeAt(m, g.node).id \in Nat
    BY <2>2 DEF FrameOK, MemoryOK, NodeOK
  <2>8. QED
    BY <1>6, <2>5, <2>6, <2>7 DEF Inside
<1>9. QED
  BY <1>7, <1>8

(* What the forms around it may append to is left alone while the innermost   *)
(* one's array grows.                                                      *)
LEMMA OthersFull ==
  ASSUME NEW m, NEW c, MemoryOK(m, c), NEW st, StackOK(m, st), st[Len(st)].state \in Expecting,
         NEW w, NEW ys, NEW node, Grows(m, w, Rec(m, st[Len(st)]), ys, node),
         NEW k \in 1..(Len(st) - 1)
  PROVE  Full(w, Rec(m, st[k]))
<1> DEFINE zs == Rec(m, st[k])
<1>1. Full(m, zs)
  <2>1. CASE k = 1
    BY <2>1, Around DEF StackOK, TopOK
  <2>2. CASE k # 1
    <3>1. Len(st) \in Nat /\ k \in 2..Len(st) /\ st[k].state # "form" /\ st[k].state \in Expecting
      BY <2>2, Around DEF StackOK
    <3>2. QED
      BY <3>1, Around DEF FrameOK
  <2>3. QED
    BY <2>1, <2>2
<1>2. CASE zs = NoArray
  BY <1>2, NoArrayOK
<1>3. CASE zs # NoArray
  <2>1. zs.data \in 1..Len(m)
    BY <1>1, <1>3 DEF Full
  <2>2. w[zs.data] = m[zs.data]
    <3>1. Rec(m, st[Len(st)]) = NoArray \/ zs.data # Rec(m, st[Len(st)]).data
      BY <1>3, Apart
    <3>2. QED
      BY <2>1, <3>1 DEF Grows
  <2>3. Len(m) \in Nat /\ Len(w) \in Nat /\ Len(m) <= Len(w)
    BY SeqShape DEF Grows, Buffers
  <2>4. zs.data \in 1..Len(w)
    BY <2>1, <2>3
  <2>5. QED
    BY <1>1, <1>3, <2>2, <2>4 DEF Full
<1>4. QED
  BY <1>2, <1>3

(* An array stored back into its node.                                      *)
Stored(n, new, state, slot, ys) ==
  /\ Shaped(new) /\ new.id = n.id /\ new.parent = n.parent
  /\ slot \in Slots(new) /\ ArrayIn(new, slot) = ys
  /\ \A s \in Slots(new) : s = slot \/ (s \in Slots(n) /\ ArrayIn(new, s) = ArrayIn(n, s))
  /\ Len(new.pairs) = Len(n.pairs)
  /\ state \in {"ret", "value"} => new.items = n.items
  /\ state = "ret" => new.ret = ys
  /\ state = "value" => new.pairs[Len(n.pairs)].value = ys /\ new.pairs # <<>>
  /\ state \notin {"ret", "value"} => new.items = ys

LEMMA Received ==
  ASSUME NEW n, Shaped(n), NEW state \in {"ret", "value", "whole", "body", "list"},
         state = "value" => n.pairs # <<>>, NEW ys,
         NEW slot, slot = IF state = "ret" THEN <<"ret", 1>>
                          ELSE IF state = "value" THEN <<"value", Len(n.pairs)>> ELSE <<"items", 1>>
  PROVE  Stored(n, WithReceiver(n, state, ys), state, slot, ys)
<1> DEFINE new == WithReceiver(n, state, ys)
           last == Len(n.pairs)
<1>1. IsSeq(n.pairs) /\ last \in Nat /\ DOMAIN n.pairs = 1..last
  BY SeqShape DEF Shaped
<1>2. CASE state = "ret"
  <2>1. new = [n EXCEPT !.ret = ys]
    BY <1>2 DEF WithReceiver
  <2> HIDE DEF new
  <2>2. /\ new = [kind |-> new.kind, str |-> new.str, id |-> new.id, parent |-> new.parent,
                  pairs |-> new.pairs, ret |-> new.ret, items |-> new.items]
        /\ new.id = n.id /\ new.parent = n.parent /\ new.pairs = n.pairs /\ new.items = n.items /\ new.ret = ys
    BY <2>1 DEF Shaped
  <2>3. Shaped(new)
    BY <2>2 DEF Shaped
  <2>4. Slots(new) = Slots(n) /\ slot \in Slots(new)
    BY <1>2, <2>2, <2>3, SlotCases
  <2>5. ArrayIn(new, slot) = ys
    BY <1>2, <2>2, SlotArrays
  <2>6. \A s \in Slots(new) : s = slot \/ ArrayIn(new, s) = ArrayIn(n, s)
    BY <1>2, <2>2, <2>3, SlotCases, SlotArrays
  <2>7. QED
    BY <1>2, <2>2, <2>3, <2>4, <2>5, <2>6 DEF new, Stored
<1>3. CASE state = "value"
  <2> DEFINE pair == [n.pairs[last] EXCEPT !.value = ys]
  <2>1. last \in 1..last /\ IsPair(n.pairs[last])
    BY <1>1, <1>3, SeqPositive DEF Shaped
  <2>2. new = [n EXCEPT !.pairs[last].value = ys]
    BY <1>3 DEF WithReceiver
  <2> HIDE DEF new
  <2>3. /\ new = [kind |-> new.kind, str |-> new.str, id |-> new.id, parent |-> new.parent,
                  pairs |-> new.pairs, ret |-> new.ret, items |-> new.items]
        /\ new.id = n.id /\ new.parent = n.parent /\ new.ret = n.ret /\ new.items = n.items
        /\ new.pairs = [n.pairs EXCEPT ![last] = pair]
    BY <2>2 DEF Shaped
  <2>4. IsPair(pair) /\ pair.type = n.pairs[last].type /\ pair.value = ys
    BY <2>1 DEF IsPair
  <2> HIDE DEF pair
  <2>5. /\ IsSeq(new.pairs) /\ Len(new.pairs) = last
        /\ \A j \in 1..last : new.pairs[j] = IF j = last THEN pair ELSE n.pairs[j]
    <3> DEFINE t == new.pairs
    <3>1. t = [j \in 1..last |-> t[j]] /\ \A j \in 1..last : t[j] = IF j = last THEN pair ELSE n.pairs[j]
      BY <1>1, <2>3
    <3> HIDE DEF t
    <3>2. IsSeq(t) /\ Len(t) = last
      BY <1>1, <3>1, FunctionIsSeq
    <3>3. QED
      BY <3>1, <3>2 DEF t
  <2>6. Shaped(new)
    <3>1. \A j \in 1..Len(new.pairs) : IsPair(new.pairs[j])
      BY <2>4, <2>5 DEF Shaped
    <3>2. QED
      BY <2>3, <2>5, <3>1 DEF Shaped
  <2>7. Slots(new) = Slots(n) /\ slot \in Slots(new)
    BY <1>3, <2>1, <2>5, <2>6, SlotCases
  <2>8. ArrayIn(new, slot) = ys
    BY <1>3, <2>1, <2>4, <2>5, SlotArrays
  <2>9. \A s \in Slots(new) : s = slot \/ ArrayIn(new, s) = ArrayIn(n, s)
    <3>1. SUFFICES ASSUME NEW s \in Slots(new), s # slot PROVE ArrayIn(new, s) = ArrayIn(n, s)
      OBVIOUS
    <3>2. CASE s \in {<<"ret", 1>>, <<"items", 1>>}
      BY <2>3, <3>2, SlotArrays
    <3>3. ASSUME NEW j \in 1..last, s = <<"type", j>> PROVE ArrayIn(new, s) = ArrayIn(n, s)
      BY <2>4, <2>5, <3>3, SlotArrays
    <3>4. ASSUME NEW j \in 1..last, s = <<"value", j>> PROVE ArrayIn(new, s) = ArrayIn(n, s)
      <4>1. j # last
        BY <1>3, <3>1, <3>4
      <4>2. QED
        BY <2>5, <3>4, <4>1, SlotArrays
    <3>5. QED
      BY <2>5, <2>6, <3>2, <3>3, <3>4, SlotCases
  <2>10. new.pairs[last].value = ys /\ new.pairs # <<>>
    BY <2>1, <2>4, <2>5, NoneShape
  <2>11. QED
    BY <1>3, <2>3, <2>5, <2>6, <2>7, <2>8, <2>9, <2>10 DEF new, Stored
<1>4. CASE state \notin {"ret", "value"}
  <2>1. new = [n EXCEPT !.items = ys]
    BY <1>4 DEF WithReceiver
  <2> HIDE DEF new
  <2>2. /\ new = [kind |-> new.kind, str |-> new.str, id |-> new.id, parent |-> new.parent,
                  pairs |-> new.pairs, ret |-> new.ret, items |-> new.items]
        /\ new.id = n.id /\ new.parent = n.parent /\ new.pairs = n.pairs /\ new.ret = n.ret /\ new.items = ys
    BY <2>1 DEF Shaped
  <2>3. Shaped(new)
    BY <2>2 DEF Shaped
  <2>4. Slots(new) = Slots(n) /\ slot \in Slots(new)
    BY <1>4, <2>2, <2>3, SlotCases
  <2>5. ArrayIn(new, slot) = ys
    BY <1>4, <2>2, SlotArrays
  <2>6. \A s \in Slots(new) : s = slot \/ ArrayIn(new, s) = ArrayIn(n, s)
    BY <1>4, <2>2, <2>3, SlotCases, SlotArrays
  <2>7. QED
    BY <1>4, <2>2, <2>3, <2>4, <2>5, <2>6 DEF new, Stored
<1>5. QED
  BY <1>2, <1>3, <1>4

-----------------------------------------------------------------------------
LEMMA ReceiverIs ==
  ASSUME NEW f, f.state \in Expecting
  PROVE  Receiver(f) = Rec(memory, f)
<1>1. f.state \in {"argument type", "ret", "type", "value", "whole", "body", "list", "top"}
  BY Waits
<1>2. QED
  BY <1>1 DEF Receiver, Rec, NodeAt, IsLocal, Last

LEMMA NewNodeFresh ==
  ASSUME NEW kind, NEW str, NEW parent, parent # NoNode => parent \in Addresses(memory)
  PROVE  Fresh(memory, node_id, NewNode(kind, str, parent))
<1> DEFINE node == NewNode(kind, str, parent)
<1>1. /\ node = [kind |-> node.kind, str |-> node.str, id |-> node.id, parent |-> node.parent,
                 pairs |-> node.pairs, ret |-> node.ret, items |-> node.items]
      /\ node.id = node_id /\ node.parent = parent
      /\ node.pairs = <<>> /\ node.ret = NoArray /\ node.items = NoArray
  BY DEF NewNode
<1> HIDE DEF node
<1>2. IsSeq(node.pairs) /\ \A j : j \notin 1..Len(node.pairs)
  BY <1>1, NoneShape
<1>3. Fresh(memory, node_id, node)
  BY <1>1, <1>2 DEF Fresh, Shaped
<1>4. QED
  BY <1>3 DEF node

(* The array of the program grows.                                          *)
LEMMA TopGrown ==
  ASSUME NEW m, NEW c, MemoryOK(m, c), NEW f, TopOK(m, f), NEW w, NEW ys, NEW node,
         Grows(m, w, f.local, ys, node), node.id = c, node.parent = NoNode
  PROVE  TopOK(w, [f EXCEPT !.local = ys])
<1> DEFINE g == [f EXCEPT !.local = ys]
           xs == f.local
<1>1. IsFrame(g) /\ g.state = "top" /\ g.node = NoNode /\ g.local = ys
  BY DEF TopOK, IsFrame
<1> HIDE DEF g
<1>2. ArrayOK(m, xs) /\ Outermost(m, xs)
  BY DEF TopOK
<1>3. xs.len \in Nat /\ ys.len = xs.len + 1 /\ ArrayOK(w, ys) /\ Full(w, ys)
  BY DEF Grows, ArrayOK, IsArray, Full
<1>4. \A i \in 1..ys.len : i \in 1..xs.len \/ i = ys.len
  BY <1>3
<1>5. /\ \A i \in 1..xs.len : w[ys.data][i] = m[xs.data][i]
      /\ w[ys.data][ys.len] = node
  BY DEF Grows
<1>6. \A i \in 1..xs.len : m[xs.data][i].id # c
  BY <1>2, ElementNumber
<1>7. \A i \in 1..ys.len : w[ys.data][i].parent = NoNode
  BY <1>2, <1>4, <1>5 DEF Outermost
<1>8. \A i, j \in 1..ys.len : w[ys.data][i].id = w[ys.data][j].id => i = j
  BY <1>2, <1>4, <1>5, <1>6 DEF Outermost
<1>9. TopOK(w, g)
  BY <1>1, <1>3, <1>7, <1>8 DEF TopOK, Outermost
<1>10. QED
  BY <1>9 DEF g

(* p is what Placed() makes of the stack st, whose innermost form wants a    *)
(* child.                                                                  *)
PlacedRight(st, p) ==
  /\ MemoryOK(p.memory, node_id + 1) /\ Keeps(memory, p.memory)
  /\ \A st2 : Instead(st, st2, p.frame) => StackOK(p.memory, st2)
  /\ p.frame.state = st[Len(st)].state /\ p.frame.node = st[Len(st)].node
  /\ p.node \in Addresses(p.memory) /\ NodeAt(p.memory, p.node).id = node_id
  /\ NodeAt(p.memory, p.node).ret = NoArray /\ NodeAt(p.memory, p.node).items = NoArray
  /\ Rec(p.memory, p.frame) # NoArray
  /\ p.node = <<Rec(p.memory, p.frame).data, Rec(p.memory, p.frame).len>>

LEMMA Placing ==
  ASSUME MemoryOK(memory, node_id), NEW st, StackOK(memory, st), st[Len(st)].state \in Expecting,
         NEW kind, NEW str
  PROVE  PlacedRight(st, Placed(st[Len(st)], kind, str))
<1> DEFINE m == memory
           c == node_id
           n == Len(st)
           f == st[n]
           xs == Rec(m, f)
           node == NewNode(kind, str, f.node)
           w == Appended(xs, node).memory
           ys == Appended(xs, node).array
           q == <<ys.data, ys.len>>
           p == Placed(f, kind, str)
<1>1. n \in Nat /\ n > 0 /\ f.state # "form" /\ Receiver(f) = xs
  BY Waits, Around, ReceiverIs
<1>2. (n = 1 => TopOK(m, f)) /\ (n > 1 => FrameOK(m, f))
  <2>1. n > 1 => n \in 2..n
    BY <1>1
  <2>2. QED
    BY <1>1, <2>1, Around DEF StackOK
<1>3. n = 1 \/ n > 1
  BY <1>1
<1>4. ArrayOK(m, xs) /\ Full(m, xs)
  <2>1. CASE n = 1
    BY <1>2, <2>1, Around DEF TopOK
  <2>2. CASE n > 1
    <3>1. FrameOK(m, f)
      BY <1>2, <2>2
    <3>2. Fits(m, NodeAt(m, f.node), xs, RecSlot(m, f))
      BY <3>1, RecFits
    <3>3. QED
      BY <3>1, <3>2 DEF FrameOK, Fits
  <2>3. QED
    BY <1>3, <2>1, <2>2
<1>5. Fresh(m, c, node) /\ node.id = c /\ node.parent = f.node
  <2>1. f.node # NoNode => f.node \in Addresses(m)
    BY <1>2, <1>3 DEF TopOK, FrameOK
  <2>2. QED
    BY <2>1, NewNodeFresh DEF NewNode
<1> HIDE DEF node
<1>6. Grows(m, w, xs, ys, node)
  BY <1>4, AppendedGrows DEF MemoryOK
<1>7. /\ IsLocal(f) => p.memory = w /\ p.frame = [f EXCEPT !.local = ys]
      /\ ~IsLocal(f) => /\ p.memory = [w EXCEPT ![f.node[1]][f.node[2]] = WithReceiver(w[f.node[1]][f.node[2]], f.state, ys)]
                        /\ p.frame = f
      /\ p.node = q
  BY <1>1 DEF Placed, node
<1> HIDE DEF w, ys, p
<1>8. /\ MemoryOK(w, c + 1) /\ Keeps(m, w)
      /\ q \in Addresses(w) /\ NodeAt(w, q) = node /\ q \notin Addresses(m)
      /\ \A r \in Addresses(m) : NodeAt(w, r) = NodeAt(m, r)
  BY <1>5, <1>6, GrownMemory, GrowsKeeps
<1>9. ys # NoArray /\ Full(w, ys)
  BY <1>6 DEF Grows, Full, NoArray
<1>10. \A k \in 1..(n - 1) : Full(w, Rec(m, st[k]))
  BY <1>6, OthersFull
<1>11. ASSUME NEW k \in 2..(n - 1)
       PROVE  /\ st[k].node \in Addresses(m) /\ NodeAt(w, st[k].node) = NodeAt(m, st[k].node)
              /\ st[k].node # f.node
  <2>1. k \in 2..n /\ k \in 1..(n - 1) /\ k < n /\ n \in 2..n
    BY <1>1
  <2>2. FrameOK(m, st[k])
    BY <2>1, Around
  <2>3. NodeAt(m, st[k].node).id < NodeAt(m, f.node).id
    BY <1>1, <2>1 DEF StackOK
  <2>4. st[k].node \in Addresses(m) /\ NodeAt(m, st[k].node).id \in Nat
    BY <2>2 DEF FrameOK, MemoryOK, NodeOK
  <2>5. QED
    BY <1>8, <2>3, <2>4
<1>12. NodeAt(w, q).ret = NoArray /\ NodeAt(w, q).items = NoArray /\ NodeAt(w, q).id = c
  BY <1>5, <1>8 DEF Fresh
<1>13. CASE n = 1
  <2>1. IsLocal(f) /\ TopOK(m, f) /\ xs = f.local
    BY <1>2, <1>13, Around DEF IsLocal
  <2>2. TopOK(w, p.frame) /\ p.memory = w
    <3>1. Grows(m, w, f.local, ys, node) /\ node.parent = NoNode
      BY <1>5, <1>6, <2>1 DEF TopOK
    <3>2. TopOK(w, [f EXCEPT !.local = ys])
      BY <1>5, <2>1, <3>1, TopGrown
    <3>3. QED
      BY <1>7, <2>1, <3>2
  <2>3. \A st2 : Instead(st, st2, p.frame) => StackOK(w, st2)
    <3>1. SUFFICES ASSUME NEW st2, Instead(st, st2, p.frame) PROVE StackOK(w, st2)
      OBVIOUS
    <3>2. \A k \in 2..(n - 1) : NodeAt(w, st[k].node) = NodeAt(m, st[k].node)
      BY <1>11
    <3>3. ~(n > 1)
      BY <1>13
    <3>4. QED
      BY <1>1, <1>8, <1>10, <2>2, <3>1, <3>2, <3>3, StepKept
  <2>4. p.frame.state = f.state /\ p.frame.node = f.node /\ p.frame.local = ys /\ Rec(w, p.frame) = ys
    BY <1>7, <2>1 DEF TopOK, IsFrame, Rec, IsLocal
  <2>5. QED
    BY <1>7, <1>8, <1>9, <1>12, <2>2, <2>3, <2>4 DEF PlacedRight, p
<1>14. CASE n > 1 /\ IsLocal(f)
  <2> DEFINE g == p.frame
  <2>1. FrameOK(m, f) /\ xs = f.local /\ f.state \in WithLocal /\ p.memory = w
    BY <1>2, <1>7, <1>14 DEF FrameOK, IsLocal, WithLocal, Rec
  <2>2. g = [state |-> f.state, node |-> f.node, name |-> f.name, local |-> ys]
    BY <1>7, <1>14, <2>1 DEF FrameOK, IsFrame
  <2> HIDE DEF g
  <2>3. IsFrame(g) /\ g.state = f.state /\ g.node = f.node /\ g.local = ys /\ Rec(w, g) = ys
    BY <1>14, <2>2 DEF IsFrame, Rec, IsLocal
  <2>4. f.node \in Addresses(m) /\ NodeAt(w, f.node) = NodeAt(m, f.node)
    BY <1>8, <2>1 DEF FrameOK
  <2>5. LocalOK(w, g)
    <3>1. NodeOK(m, c, NodeAt(m, f.node)) /\ Fits(m, NodeAt(m, f.node), xs, Nowhere)
      BY <2>1, <2>4 DEF MemoryOK, FrameOK, LocalOK
    <3>2. Inside(w, NodeAt(m, f.node).id, node)
      BY <1>5, <1>8, <2>4 DEF Inside, Keeps
    <3>3. Fits(w, NodeAt(m, f.node), ys, Nowhere)
      BY <1>5, <1>6, <3>1, <3>2, GrownFits
    <3>4. QED
      BY <2>3, <2>4, <3>3 DEF LocalOK
  <2>6. FrameOK(w, g)
    BY <1>8, <1>9, <2>1, <2>3, <2>4, <2>5 DEF FrameOK, Keeps
  <2>7. \A st2 : Instead(st, st2, g) => StackOK(w, st2)
    <3>1. SUFFICES ASSUME NEW st2, Instead(st, st2, g) PROVE StackOK(w, st2)
      OBVIOUS
    <3>2. \A k \in 2..(n - 1) : NodeAt(w, st[k].node) = NodeAt(m, st[k].node)
      BY <1>11
    <3>3. n # 1
      BY <1>14
    <3>4. QED
      BY <1>1, <1>8, <1>10, <2>3, <2>6, <3>1, <3>2, <3>3, StepKept
  <2>8. QED
    BY <1>7, <1>8, <1>9, <1>12, <2>1, <2>3, <2>7 DEF PlacedRight, p, g
<1>15. CASE n > 1 /\ ~IsLocal(f)
  <2> DEFINE old == NodeAt(m, f.node)
             new == WithReceiver(old, f.state, ys)
             v == p.memory
             slot == RecSlot(m, f)
  <2>1. FrameOK(m, f) /\ p.frame = f /\ f.node \in Addresses(m) /\ f.node \in Addresses(w) /\ NodeAt(w, f.node) = old
    BY <1>2, <1>7, <1>8, <1>15 DEF FrameOK, Keeps
  <2>2. v = [w EXCEPT ![f.node[1]][f.node[2]] = new]
    BY <1>7, <1>15, <2>1 DEF NodeAt
  <2>3. NodeOK(m, c, old) /\ Shaped(old) /\ NodeOK(w, c + 1, old)
    <3>1. NodeOK(m, c, old)
      BY <2>1 DEF MemoryOK
    <3>2. NodeOK(w, c + 1, NodeAt(w, f.node))
      BY <1>8, <2>1 DEF MemoryOK
    <3>3. Shaped(old)
      BY <3>1 DEF NodeOK
    <3>4. QED
      BY <2>1, <3>1, <3>2, <3>3
  <2>4. /\ f.state \in {"ret", "value", "whole", "body", "list"}
        /\ f.state = "value" => old.pairs # <<>>
        /\ slot = IF f.state = "ret" THEN <<"ret", 1>>
                  ELSE IF f.state = "value" THEN <<"value", Len(old.pairs)>> ELSE <<"items", 1>>
    BY <1>15, <2>1, Waits DEF FrameOK, IsLocal, RecSlot
  <2> HIDE DEF old, slot, v
  <2>5. Stored(old, new, f.state, slot, ys)
    BY <2>3, <2>4, Received
  <2> HIDE DEF new
  <2>6. Fits(w, old, ys, slot)
    <3>1. Fits(m, old, xs, slot)
      BY <2>1, RecFits DEF slot, old
    <3>2. Inside(w, old.id, node)
      BY <1>5, <2>1 DEF Inside
    <3>3. QED
      BY <1>5, <1>6, <2>3, <3>1, <3>2, GrownFits
  <2>7. NodeOK(w, c + 1, new)
    BY <2>3, <2>5, <2>6, NodeFilled DEF Stored
  <2>8. Rewrites(w, v, f.node, new)
    BY <1>8, <2>1, <2>2, Rewriting DEF MemoryOK
  <2>9. MemoryOK(v, c + 1) /\ Keeps(w, v)
    BY <1>8, <2>1, <2>5, <2>7, <2>8, RewrittenMemory DEF Stored
  <2>10. Keeps(m, v)
    <3>1. Len(m) <= Len(v) /\ \A b \in 1..Len(m) : Len(m[b]) <= Len(v[b])
      <4>1. Len(m) <= Len(w) /\ Len(m) \in Nat /\ Len(w) \in Nat /\ Len(v) = Len(w)
        BY <1>8, <2>8, SeqShape DEF Keeps, Buffers, Rewrites
      <4>2. \A b \in 1..Len(m) : Len(m[b]) <= Len(w[b]) /\ Len(v[b]) = Len(w[b])
        BY <1>8, <2>8, <4>1 DEF Keeps, Rewrites
      <4>3. QED
        BY <4>1, <4>2
    <3>2. QED
      BY <1>8, <2>9, <3>1 DEF Keeps
  <2>11. \A b \in 1..Len(w) : Len(v[b]) = Len(w[b])
    BY <2>8 DEF Rewrites
  <2>12. \A zs : Full(w, zs) => Full(v, zs)
    BY <2>8, <2>11 DEF Full, Rewrites
  <2>13. \A k \in 2..(n - 1) : NodeAt(v, st[k].node) = NodeAt(m, st[k].node)
    <3>1. \A r \in Addresses(m) : r \in Addresses(w)
      BY <1>8 DEF Keeps
    <3>2. QED
      BY <1>11, <2>8, <3>1 DEF Rewrites
  <2>14. NodeAt(v, f.node) = new /\ f.node \in Addresses(v) /\ NodeAt(v, q) = node /\ q \in Addresses(v)
    <3>1. q # f.node
      BY <1>8, <2>1
    <3>2. QED
      BY <1>8, <2>1, <2>8, <3>1 DEF Rewrites
  <2>15. Rec(v, f) = ys
    BY <1>15, <2>4, <2>5, <2>14 DEF Rec, Stored
  <2>16. FrameOK(v, f)
    <3>1. f.state \notin NoRetYet /\ f.state \notin WithLocal
      BY <2>4 DEF NoRetYet, WithLocal
    <3>2. f.state \in NoItemsYet => new.items = NoArray
      BY <2>1, <2>4, <2>5 DEF FrameOK, NoItemsYet, NoRetYet, Stored, old
    <3>3. QED
      BY <1>9, <2>1, <2>5, <2>12, <2>14, <2>15, <3>1, <3>2 DEF FrameOK, Stored
  <2>17. \A st2 : Instead(st, st2, f) => StackOK(v, st2)
    <3>1. SUFFICES ASSUME NEW st2, Instead(st, st2, f) PROVE StackOK(v, st2)
      OBVIOUS
    <3>2. \A k \in 1..(n - 1) : Full(v, Rec(m, st[k]))
      BY <1>10, <2>12
    <3>3. n # 1
      BY <1>15
    <3>4. QED
      BY <1>1, <2>10, <2>13, <2>16, <3>1, <3>2, <3>3, StepKept
  <2>18. QED
    BY <1>5, <1>7, <1>9, <2>1, <2>9, <2>10, <2>14, <2>15, <2>17 DEF PlacedRight, p, v, Fresh
<1>16. QED
  BY <1>3, <1>13, <1>14, <1>15

-----------------------------------------------------------------------------
(* A form goes on.                                                          *)
Turns ==
  {<<"fn", "arguments">>, <<"arguments", "argument name">>, <<"arguments", "ret">>, <<"let", "variables">>,
   <<"variables", "variable name">>, <<"variables", "body">>, <<"end variable", "variables">>,
   <<"name", "whole">>, <<"argument type", "argument">>, <<"ret", "body">>, <<"type", "variable">>,
   <<"value", "end variable">>, <<"whole", "end">>, <<"argument", "arguments">>,
   <<"list", "list">>, <<"body", "body">>}

LEMMA Turned ==
  ASSUME NEW m, NEW f, FrameOK(m, f), NEW s, <<f.state, s>> \in Turns
  PROVE  FrameOK(m, [f EXCEPT !.state = s]) /\ [f EXCEPT !.state = s].node = f.node
<1> DEFINE g == [f EXCEPT !.state = s]
<1>1. g = [state |-> s, node |-> f.node, name |-> f.name, local |-> f.local]
  BY DEF FrameOK, IsFrame
<1> HIDE DEF g
<1>2. IsFrame(g) /\ g.state = s /\ g.node = f.node /\ g.local = f.local
  BY <1>1 DEF IsFrame
<1>3. s \notin {"top", "form", "value"}
  BY DEF Turns
<1>4. s \in NoRetYet => f.state \in NoRetYet
  BY DEF Turns, NoRetYet
<1>5. s \in NoItemsYet => f.state \in NoItemsYet
  BY DEF Turns, NoItemsYet, NoRetYet
<1>6. s \in WithLocal => f.state \in WithLocal
  BY DEF Turns, WithLocal
<1>7. LocalOK(m, f) => LocalOK(m, g)
  BY <1>2 DEF LocalOK
<1>8. ASSUME s \in Expecting PROVE Full(m, Rec(m, g))
  <2>1. CASE s = "ret"
    <3>1. f.state \in NoRetYet
      BY <2>1 DEF Turns, NoRetYet
    <3>2. Rec(m, g) = NoArray
      BY <1>2, <2>1, <3>1 DEF FrameOK, Rec, IsLocal
    <3>3. QED
      BY <3>2, NoArrayOK
  <2>2. CASE s \in {"body", "whole"} /\ f.state # "body"
    <3>1. f.state \in NoItemsYet
      BY <2>2 DEF Turns, NoItemsYet
    <3>2. Rec(m, g) = NoArray
      BY <1>2, <2>2, <3>1 DEF FrameOK, Rec, IsLocal
    <3>3. QED
      BY <3>2, NoArrayOK
  <2>3. CASE f.state = s
    <3>1. g = f
      BY <1>1, <2>3 DEF FrameOK, IsFrame
    <3>2. QED
      BY <1>8, <2>3, <3>1 DEF FrameOK
  <2>4. QED
    BY <1>8, <2>1, <2>2, <2>3, Waits DEF Turns
<1>9. FrameOK(m, g)
  BY <1>2, <1>3, <1>4, <1>5, <1>6, <1>7, <1>8 DEF FrameOK
<1>10. QED
  BY <1>2, <1>9 DEF g

LEMMA KeepsItself ==
  ASSUME NEW m, Buffers(m)
  PROVE  Keeps(m, m)
<1>1. Len(m) \in Nat /\ \A b \in 1..Len(m) : Len(m[b]) \in Nat
  BY SeqShape DEF Buffers
<1>2. QED
  BY <1>1 DEF Keeps

LEMMA OuterFull ==
  ASSUME NEW m, NEW st, StackOK(m, st), NEW k \in 1..(Len(st) - 1)
  PROVE  Full(m, Rec(m, st[k]))
<1>1. CASE k = 1
  BY <1>1, Around DEF StackOK, TopOK
<1>2. CASE k # 1
  <2>1. Len(st) \in Nat /\ k \in 2..Len(st) /\ st[k].state # "form" /\ st[k].state \in Expecting
    BY <1>2, Around DEF StackOK
  <2>2. QED
    BY <2>1, Around DEF FrameOK
<1>3. QED
  BY <1>1, <1>2

LEMMA TopChanged ==
  ASSUME NEW m, NEW c, MemoryOK(m, c), NEW st, StackOK(m, st), Len(st) > 1, st[Len(st)].state # "form",
         NEW g, FrameOK(m, g), g.node = st[Len(st)].node, NEW st2, Instead(st, st2, g)
  PROVE  StackOK(m, st2)
<1>1. Keeps(m, m)
  BY KeepsItself DEF MemoryOK
<1>2. \A k \in 1..(Len(st) - 1) : Full(m, Rec(m, st[k]))
  BY OuterFull
<1>3. Len(st) # 1 /\ \A k \in 2..(Len(st) - 1) : NodeAt(m, st[k].node) = NodeAt(m, st[k].node)
  BY Around
<1>4. QED
  BY <1>1, <1>2, <1>3, StepKept

(* The innermost form.                                                      *)
LEMMA Innermost ==
  ASSUME NEW m, NEW st, StackOK(m, st)
  PROVE  /\ st[Len(st)].state = "top" => Len(st) = 1 /\ TopOK(m, st[Len(st)])
         /\ st[Len(st)].state \notin {"top", "form"} => Len(st) > 1 /\ FrameOK(m, st[Len(st)])
         /\ st[Len(st)].state = "form" => Len(st) > 1
<1>1. Len(st) \in Nat /\ Len(st) > 0 /\ st[1].state = "top"
  BY Around
<1>2. Len(st) = 1 \/ (Len(st) > 1 /\ Len(st) \in 2..Len(st))
  BY <1>1
<1>3. CASE Len(st) = 1
  BY <1>1, <1>3 DEF StackOK
<1>4. CASE Len(st) > 1 /\ Len(st) \in 2..Len(st)
  BY <1>4, Around
<1>5. QED
  BY <1>2, <1>3, <1>4

(* The child a form waits for is there: the form goes on.                    *)
LEMMA Continues ==
  ASSUME NEW m, NEW c, MemoryOK(m, c), NEW st, StackOK(m, st), st[Len(st)].state \in Expecting,
         NEW st2, Instead(st, st2, [st[Len(st)] EXCEPT !.state = After(st[Len(st)].state)])
  PROVE  StackOK(m, st2)
<1> DEFINE f == st[Len(st)]
           g == [f EXCEPT !.state = After(f.state)]
<1>1. f.state # "form"
  BY Waits
<1>2. CASE f.state = "top"
  <2>1. Len(st) = 1 /\ TopOK(m, f)
    BY <1>2, Innermost
  <2>2. After(f.state) = f.state
    BY <1>2 DEF After
  <2>3. g = f
    BY <2>1, <2>2 DEF TopOK, IsFrame
  <2>4. Keeps(m, m) /\ \A k \in 1..(Len(st) - 1) : Full(m, Rec(m, st[k]))
    BY KeepsItself, OuterFull DEF MemoryOK
  <2>5. ~(Len(st) > 1) /\ Instead(st, st2, g)
    BY <2>1
  <2> HIDE DEF g
  <2>6. \A k \in 2..(Len(st) - 1) : NodeAt(m, st[k].node) = NodeAt(m, st[k].node)
    OBVIOUS
  <2>7. QED
    BY <1>1, <2>1, <2>3, <2>4, <2>5, <2>6, StepKept
<1>3. CASE f.state # "top"
  <2>1. Len(st) > 1 /\ FrameOK(m, f)
    BY <1>1, <1>3, Innermost
  <2>2. <<f.state, After(f.state)>> \in Turns
    BY <1>3, Waits DEF After, Turns
  <2>3. FrameOK(m, g) /\ g.node = f.node
    BY <2>1, <2>2, Turned
  <2>4. QED
    BY <1>1, <2>1, <2>3, TopChanged
<1>4. QED
  BY <1>2, <1>3

-----------------------------------------------------------------------------
(* Another form inside the innermost one.                                   *)
Onto(st, st2, h) ==
  /\ IsSeq(st2) /\ Len(st2) = Len(st) + 1
  /\ \A k \in 1..Len(st) : st2[k] = st[k]
  /\ st2[Len(st) + 1] = h

LEMMA Pushed ==
  ASSUME NEW m, NEW st, StackOK(m, st), st[Len(st)].state \in Expecting, NEW h, NEW st2, Onto(st, st2, h),
         IsFrame(h),
         h.state # "form" => /\ FrameOK(m, h) /\ Awaited(m, st[Len(st)], h)
                             /\ \A k \in 2..Len(st) : NodeAt(m, st[k].node).id < NodeAt(m, h.node).id
  PROVE  StackOK(m, st2)
<1> DEFINE n == Len(st)
<1>1. n \in Nat /\ n > 0 /\ Len(st2) = n + 1 /\ IsSeq(st2) /\ st2[n + 1] = h
  BY Around DEF Onto
<1>2. \A k \in 1..n : st2[k] = st[k] /\ st[k].state # "form" /\ st[k].state \in Expecting
  <2>1. \A k \in 1..n : k = n \/ k \in 1..(n - 1)
    BY <1>1
  <2>2. st[n].state # "form" /\ st[n].state \in Expecting
    BY Waits
  <2>3. \A k \in 1..(n - 1) : st[k].state # "form" /\ st[k].state \in Expecting
    BY Around DEF StackOK
  <2>4. \A k \in 1..n : st2[k] = st[k]
    BY DEF Onto
  <2>5. QED
    BY <2>1, <2>2, <2>3, <2>4
<1>3. TopOK(m, st2[1])
  <2>1. 1 \in 1..n
    BY <1>1
  <2>2. QED
    BY <1>2, <2>1 DEF StackOK
<1>4. \A k \in 2..(n + 1) : k = n + 1 \/ (k \in 2..n /\ k \in 1..n /\ k - 1 \in 1..n)
  BY <1>1
<1>5. ASSUME NEW k \in 2..(n + 1)
      PROVE  IF st2[k].state = "form" THEN IsFrame(st2[k]) /\ k = n + 1
             ELSE FrameOK(m, st2[k]) /\ Awaited(m, st2[k - 1], st2[k])
  <2>1. CASE k = n + 1
    <3>1. n \in 1..n /\ k - 1 = n
      BY <1>1, <2>1
    <3>2. QED
      BY <1>1, <1>2, <2>1, <3>1
  <2>2. CASE k \in 2..n /\ k \in 1..n /\ k - 1 \in 1..n
    BY <1>2, <2>2, Around
  <2>3. QED
    BY <1>4, <2>1, <2>2
<1>6. \A k \in 1..n : st2[k].state \in Expecting
  BY <1>2
<1>7. ASSUME NEW k \in 2..(n + 1), NEW l \in 2..(n + 1), k < l, st2[l].state # "form"
      PROVE  NodeAt(m, st2[k].node).id < NodeAt(m, st2[l].node).id
  <2>1. k \in 2..n /\ k \in 1..n /\ st2[k] = st[k]
    BY <1>1, <1>2, <1>7
  <2>2. CASE l = n + 1
    BY <1>1, <1>7, <2>1, <2>2
  <2>3. CASE l \in 2..n /\ l \in 1..n
    BY <1>2, <1>7, <2>1, <2>3 DEF StackOK
  <2>4. QED
    BY <1>4, <2>2, <2>3
<1>8. Len(st2) = n + 1 /\ Len(st2) - 1 = n /\ Len(st2) > 0
  BY <1>1
<1>9. \A k \in 2..Len(st2) :
        IF st2[k].state = "form" THEN IsFrame(st2[k]) /\ k = Len(st2)
        ELSE FrameOK(m, st2[k]) /\ Awaited(m, st2[k - 1], st2[k])
  BY <1>5, <1>8
<1>10. \A k \in 1..(Len(st2) - 1) : st2[k].state \in Expecting
  BY <1>6, <1>8
<1>11. \A k \in 2..Len(st2), l \in 2..Len(st2) :
         k < l /\ st2[l].state # "form" => NodeAt(m, st2[k].node).id < NodeAt(m, st2[l].node).id
  BY <1>7, <1>8
<1>12. QED
  BY <1>1, <1>3, <1>8, <1>9, <1>10, <1>11 DEF StackOK

(* The innermost form is over.                                              *)
LEMMA Popped ==
  ASSUME NEW m, NEW st, StackOK(m, st), Len(st) > 1
  PROVE  /\ StackOK(m, Front(st)) /\ Len(Front(st)) = Len(st) - 1
         /\ Front(st)[Len(Front(st))] = st[Len(st) - 1] /\ st[Len(st) - 1].state \in Expecting
<1> DEFINE n == Len(st)
           st2 == Front(st)
<1>1. n \in Nat /\ n > 1 /\ IsSeq(st)
  BY Around DEF StackOK
<1>2. IsSeq(st2) /\ Len(st2) = n - 1 /\ \A k \in 1..(n - 1) : st2[k] = st[k]
  BY <1>1, FrontShape
<1> HIDE DEF st2
<1>3. /\ \A k \in 2..(n - 1) : k \in 1..(n - 1) /\ k - 1 \in 1..(n - 1) /\ k \in 2..n
      /\ 1 \in 1..(n - 1) /\ n - 1 \in 1..(n - 1)
      /\ \A k \in 1..(n - 1 - 1) : k \in 1..(n - 1)
      /\ n - 1 > 0
  BY <1>1
<1>4. \A k \in 1..(n - 1) : st[k].state # "form" /\ st[k].state \in Expecting
  <2>1. \A k \in 1..(n - 1) : st[k].state # "form"
    BY Around
  <2>2. \A k \in 1..(n - 1) : st[k].state \in Expecting
    BY DEF StackOK
  <2>3. QED
    BY <2>1, <2>2
<1>5. TopOK(m, st2[1])
  BY <1>2, <1>3, <1>4 DEF StackOK
<1>6. \A k \in 2..(n - 1) : /\ st2[k].state # "form" /\ FrameOK(m, st2[k])
                            /\ Awaited(m, st2[k - 1], st2[k])
  BY <1>2, <1>3, <1>4, Around
<1>7. \A k \in 2..(n - 1), l \in 2..(n - 1) :
        k < l /\ st2[l].state # "form" => NodeAt(m, st2[k].node).id < NodeAt(m, st2[l].node).id
  BY <1>2, <1>3, <1>4 DEF StackOK
<1>8. StackOK(m, st2)
  BY <1>2, <1>3, <1>4, <1>5, <1>6, <1>7 DEF StackOK
<1>9. QED
  BY <1>2, <1>3, <1>4, <1>8 DEF st2

-----------------------------------------------------------------------------
(* The node of the innermost form is changed.                               *)
LEMMA NodeChanged ==
  ASSUME NEW m, NEW c, MemoryOK(m, c), NEW st, StackOK(m, st), st[Len(st)].state \notin {"top", "form"},
         NEW new, NodeOK(m, c, new),
         new.id = NodeAt(m, st[Len(st)].node).id, new.parent = NodeAt(m, st[Len(st)].node).parent,
         NEW v, Rewrites(m, v, st[Len(st)].node, new),
         NEW g, FrameOK(v, g), g.node = st[Len(st)].node, NEW st2, Instead(st, st2, g)
  PROVE  MemoryOK(v, c) /\ StackOK(v, st2)
<1> DEFINE n == Len(st)
           f == st[n]
<1>1. n \in Nat /\ n > 1 /\ n \in 2..n /\ f.state # "form" /\ FrameOK(m, f) /\ f.node \in Addresses(m)
  BY Around, Innermost DEF FrameOK
<1>2. MemoryOK(v, c) /\ Keeps(m, v)
  BY <1>1, RewrittenMemory
<1>3. \A zs : Full(m, zs) => Full(v, zs)
  BY DEF Rewrites, Full
<1>4. \A k \in 1..(n - 1) : Full(v, Rec(m, st[k]))
  BY <1>3, OuterFull
<1>5. ASSUME NEW k \in 2..(n - 1) PROVE NodeAt(v, st[k].node) = NodeAt(m, st[k].node)
  <2>1. k \in 2..n /\ k \in 1..(n - 1) /\ k < n
    BY <1>1
  <2>2. FrameOK(m, st[k])
    BY <2>1, Around
  <2>3. NodeAt(m, st[k].node).id < NodeAt(m, f.node).id
    BY <1>1, <2>1 DEF StackOK
  <2>4. st[k].node \in Addresses(m) /\ NodeAt(m, st[k].node).id \in Nat
    BY <2>2 DEF FrameOK, MemoryOK, NodeOK
  <2>5. QED
    BY <2>3, <2>4 DEF Rewrites
<1>6. StackOK(v, st2)
  BY <1>1, <1>2, <1>4, <1>5, StepKept
<1>7. QED
  BY <1>2, <1>6

LEMMA FrameRewritten ==
  ASSUME NEW m, NEW f, FrameOK(m, f), NEW v, NEW new, Rewrites(m, v, f.node, new),
         new.ret = NodeAt(m, f.node).ret, new.items = NodeAt(m, f.node).items,
         NEW g, IsFrame(g), g.node = f.node, g.state \in {"arguments", "value", "whole"},
         f.state \in NoItemsYet, g.state = "arguments" => f.state \in NoRetYet,
         g.state = "value" => new.pairs # <<>> /\ new.pairs[Len(new.pairs)].value = NoArray
  PROVE  FrameOK(v, g)
<1>1. f.node \in Addresses(m) /\ g.node \in Addresses(v) /\ NodeAt(v, g.node) = new
  BY DEF FrameOK, Rewrites
<1>2. new.items = NoArray /\ (g.state = "arguments" => new.ret = NoArray)
  BY DEF FrameOK
<1>3. g.state \in NoRetYet => g.state = "arguments"
  BY DEF NoRetYet
<1>4. g.state \notin WithLocal /\ g.state \notin {"top", "form"}
  BY DEF WithLocal
<1>5. g.state \in Expecting => Full(v, Rec(v, g))
  <2>1. g.state \in {"value", "whole"} => Rec(v, g) = NoArray
    BY <1>1, <1>2 DEF Rec, IsLocal
  <2>2. "arguments" \notin Expecting
    BY Waits
  <2>3. QED
    BY <2>1, <2>2, NoArrayOK
<1>6. QED
  BY <1>1, <1>2, <1>3, <1>4, <1>5 DEF FrameOK

(* A pair more in a node.                                                   *)
Paired(n, new, pair) ==
  /\ new = [kind |-> new.kind, str |-> new.str, id |-> new.id, parent |-> new.parent,
            pairs |-> new.pairs, ret |-> new.ret, items |-> new.items]
  /\ new.id = n.id /\ new.parent = n.parent /\ new.ret = n.ret /\ new.items = n.items
  /\ new.pairs = Append(n.pairs, pair)

LEMMA Pairing ==
  ASSUME NEW n, Shaped(n), NEW pair
  PROVE  Paired(n, [n EXCEPT !.pairs = Append(n.pairs, pair)], pair)
<1> DEFINE pairs == Append(n.pairs, pair)
           new == [n EXCEPT !.pairs = pairs]
<1>1. n = [kind |-> n.kind, str |-> n.str, id |-> n.id, parent |-> n.parent,
           pairs |-> n.pairs, ret |-> n.ret, items |-> n.items]
  BY DEF Shaped
<1> HIDE DEF pairs
<1>2. new = [kind |-> n.kind, str |-> n.str, id |-> n.id, parent |-> n.parent,
             pairs |-> pairs, ret |-> n.ret, items |-> n.items]
  BY <1>1
<1> HIDE DEF new
<1>3. /\ new.kind = n.kind /\ new.str = n.str /\ new.id = n.id /\ new.parent = n.parent
      /\ new.pairs = pairs /\ new.ret = n.ret /\ new.items = n.items
  BY <1>2
<1>4. Paired(n, new, pair)
  BY <1>2, <1>3 DEF Paired, pairs
<1>5. QED
  BY <1>4 DEF new, pairs

LEMMA NodePaired ==
  ASSUME NEW m, NEW c, NEW n, NodeOK(m, c, n), NEW xs, Fits(m, n, xs, Nowhere), NEW name,
         NEW new, Paired(n, new, Pair(name, xs))
  PROVE  /\ NodeOK(m, c, new) /\ new.id = n.id /\ new.parent = n.parent
         /\ new.ret = n.ret /\ new.items = n.items
         /\ new.pairs # <<>> /\ new.pairs[Len(new.pairs)].value = NoArray
<1> DEFINE last == Len(n.pairs)
           pair == Pair(name, xs)
           slot == <<"type", last + 1>>
<1>1. Shaped(n) /\ IsSeq(n.pairs) /\ last \in Nat
  BY SeqShape DEF NodeOK, Shaped
<1>2. /\ new = [kind |-> new.kind, str |-> new.str, id |-> new.id, parent |-> new.parent,
                pairs |-> new.pairs, ret |-> new.ret, items |-> new.items]
      /\ new.id = n.id /\ new.parent = n.parent /\ new.ret = n.ret /\ new.items = n.items
      /\ new.pairs = Append(n.pairs, pair)
  BY DEF Paired
<1>3. IsPair(pair) /\ pair.type = xs /\ pair.value = NoArray
  BY DEF Pair, IsPair
<1> HIDE DEF pair
<1>4. /\ IsSeq(new.pairs) /\ Len(new.pairs) = last + 1 /\ new.pairs[last + 1] = pair
      /\ \A j \in 1..last : new.pairs[j] = n.pairs[j]
  BY <1>1, <1>2, AppendShape
<1>5. \A j \in 1..(last + 1) : j \in 1..last \/ j = last + 1
  BY <1>1
<1>6. Shaped(new)
  <2>1. \A j \in 1..Len(new.pairs) : IsPair(new.pairs[j])
    BY <1>1, <1>3, <1>4, <1>5 DEF Shaped
  <2>2. QED
    BY <1>2, <1>4, <2>1 DEF Shaped
<1>7. last + 1 \in 1..(last + 1) /\ last + 1 \notin 1..last
  BY <1>1
<1>8. slot \in Slots(new) /\ ArrayIn(new, slot) = xs
  BY <1>3, <1>4, <1>6, <1>7, SlotCases, SlotArrays
<1>9. \A s \in Slots(new) : \/ s = slot
                            \/ ArrayIn(new, s) = NoArray
                            \/ s \in Slots(n) /\ ArrayIn(new, s) = ArrayIn(n, s)
  <2>1. SUFFICES ASSUME NEW s \in Slots(new), s # slot
                 PROVE  ArrayIn(new, s) = NoArray \/ (s \in Slots(n) /\ ArrayIn(new, s) = ArrayIn(n, s))
    OBVIOUS
  <2>2. CASE s \in {<<"ret", 1>>, <<"items", 1>>}
    BY <1>1, <1>2, <2>2, SlotCases, SlotArrays
  <2>3. ASSUME NEW j \in 1..(last + 1), s = <<"type", j>>
        PROVE  s \in Slots(n) /\ ArrayIn(new, s) = ArrayIn(n, s)
    <3>1. j \in 1..last
      BY <1>5, <2>1, <2>3
    <3>2. QED
      BY <1>1, <1>4, <2>3, <3>1, SlotCases, SlotArrays
  <2>4. ASSUME NEW j \in 1..(last + 1), s = <<"value", j>>
        PROVE  ArrayIn(new, s) = NoArray \/ (s \in Slots(n) /\ ArrayIn(new, s) = ArrayIn(n, s))
    <3>1. CASE j = last + 1
      BY <1>3, <1>4, <2>4, <3>1, SlotArrays
    <3>2. CASE j \in 1..last
      BY <1>1, <1>4, <2>4, <3>2, SlotCases, SlotArrays
    <3>3. QED
      BY <1>5, <3>1, <3>2
  <2>5. QED
    BY <1>4, <1>6, <2>2, <2>3, <2>4, SlotCases
<1>10. Fits(m, n, ArrayIn(new, slot), slot)
  <2>1. Nowhere \notin Slots(n)
    BY <1>1, SlotCases DEF Nowhere
  <2>2. QED
    BY <1>8, <2>1 DEF Fits
<1>11. NodeOK(m, c, new)
  BY <1>2, <1>6, <1>8, <1>9, <1>10, NodeFilled
<1>12. new.pairs # <<>> /\ new.pairs[Len(new.pairs)].value = NoArray
  <2>1. Len(new.pairs) # 0
    BY <1>1, <1>4
  <2>2. QED
    BY <1>3, <1>4, <2>1, NoneShape
<1>13. QED
  BY <1>2, <1>11, <1>12

LEMMA PairAdded ==
  ASSUME NEW m, NEW c, MemoryOK(m, c), StackOK(m, stack), Top.state \in {"arguments", "argument", "variable"},
         NEW xs, Fits(m, NodeAt(m, Top.node), xs, Nowhere), NEW name,
         NEW g, IsFrame(g), g.node = Top.node, g.state \in {"arguments", "value"},
         g.state = "arguments" => Top.state # "variable", NEW st2, Instead(stack, st2, g)
  PROVE  MemoryOK(WithPair(m, Pair(name, xs)), c) /\ StackOK(WithPair(m, Pair(name, xs)), st2)
<1> DEFINE f == stack[Len(stack)]
           old == NodeAt(m, f.node)
           new == [old EXCEPT !.pairs = Append(old.pairs, Pair(name, xs))]
           v == WithPair(m, Pair(name, xs))
<1>1. Top = f
  BY DEF Top, Last
<1>2. FrameOK(m, f) /\ f.node \in Addresses(m) /\ NodeOK(m, c, old)
  BY <1>1, Innermost DEF FrameOK, MemoryOK
<1>3. v = [m EXCEPT ![f.node[1]][f.node[2]] = new]
  BY <1>1 DEF WithPair, NodeAt
<1>4. Paired(old, new, Pair(name, xs))
  BY <1>2, Pairing DEF NodeOK
<1> HIDE DEF new, v, old
<1>5. Rewrites(m, v, f.node, new)
  BY <1>2, <1>3, Rewriting DEF MemoryOK
<1>6. /\ NodeOK(m, c, new) /\ new.id = old.id /\ new.parent = old.parent
      /\ new.ret = old.ret /\ new.items = old.items
      /\ new.pairs # <<>> /\ new.pairs[Len(new.pairs)].value = NoArray
  <2>1. Fits(m, old, xs, Nowhere)
    BY <1>1 DEF old
  <2>2. QED
    BY <1>2, <1>4, <2>1, NodePaired
<1>7. f.state \in NoItemsYet /\ (g.state = "arguments" => f.state \in NoRetYet)
  BY <1>1 DEF NoItemsYet, NoRetYet
<1>8. FrameOK(v, g)
  BY <1>1, <1>2, <1>5, <1>6, <1>7, FrameRewritten DEF old
<1>9. MemoryOK(v, c) /\ StackOK(v, st2)
  BY <1>1, <1>5, <1>6, <1>8, NodeChanged DEF old
<1>10. QED
  BY <1>9 DEF v

(* A buffer is begun that no form around has.                               *)
LEMMA GrownAside ==
  ASSUME NEW m, NEW c, MemoryOK(m, c), NEW st, StackOK(m, st),
         st[Len(st)].state \notin Expecting, st[Len(st)].state \notin {"top", "form"},
         NEW w, NEW ys, NEW node, Grows(m, w, NoArray, ys, node)
  PROVE  StackOK(w, st)
<1> DEFINE n == Len(st)
<1>1. Keeps(m, w) /\ \A p \in Addresses(m) : NodeAt(w, p) = NodeAt(m, p)
  BY GrowsKeeps
<1>2. n \in Nat /\ n > 1 /\ FrameOK(m, st[n]) /\ IsSeq(st)
  BY Around, Innermost DEF StackOK
<1>3. \A zs : Full(m, zs) => Full(w, zs)
  <2>1. Len(m) \in Nat /\ Len(w) \in Nat /\ Len(m) <= Len(w) /\ \A b \in 1..Len(m) : w[b] = m[b]
    BY SeqShape DEF Grows, Buffers
  <2>2. QED
    BY <2>1 DEF Full
<1>4. \A k \in 1..(n - 1) : Full(w, Rec(m, st[k]))
  BY <1>3, OuterFull
<1>5. \A k \in 2..(n - 1) : NodeAt(w, st[k].node) = NodeAt(m, st[k].node)
  <2>1. \A k \in 2..(n - 1) : k \in 2..n /\ k \in 1..(n - 1)
    BY <1>2
  <2>2. \A k \in 2..(n - 1) : st[k].node \in Addresses(m)
    BY <2>1, Around DEF FrameOK
  <2>3. QED
    BY <1>1, <2>2
<1>6. FrameOK(w, st[n])
  <2>1. NodeAt(w, st[n].node) = NodeAt(m, st[n].node)
    BY <1>1, <1>2 DEF FrameOK
  <2>2. QED
    BY <1>1, <1>2, <2>1, FrameKept
<1>7. Instead(st, st, st[n])
  BY <1>2 DEF Instead
<1>8. QED
  BY <1>1, <1>2, <1>4, <1>5, <1>6, <1>7, StepKept

-----------------------------------------------------------------------------
(* The stack in the actions.                                                *)
LEMMA TopIs == Top = stack[Len(stack)]
BY DEF Top, Last

LEMMA InsteadLast ==
  ASSUME NEW s, IsSeq(s), Len(s) > 0, NEW e
  PROVE  Instead(s, Append(Front(s), e), e)
BY LastReplaced DEF Instead

LEMMA InsteadAgain ==
  ASSUME NEW st, NEW st1, NEW st2, NEW g, NEW h, Instead(st, st1, g), Instead(st, st2, h)
  PROVE  Instead(st1, st2, h) /\ st1[Len(st1)] = g
BY DEF Instead

LEMMA InsteadIn ==
  ASSUME NEW s, IsSeq(s), Len(s) > 0, NEW state
  PROVE  Instead(s, [s EXCEPT ![Len(s)].state = state], [s[Len(s)] EXCEPT !.state = state])
<1> DEFINE n == Len(s)
           e == [s[n] EXCEPT !.state = state]
           t == [s EXCEPT ![n].state = state]
<1>1. n \in Nat /\ n \in 1..n /\ DOMAIN s = 1..n /\ \A k \in 1..(n - 1) : k \in 1..n /\ k # n
  BY SeqShape
<1>2. t = [k \in 1..n |-> t[k]] /\ \A k \in 1..n : t[k] = IF k = n THEN e ELSE s[k]
  BY <1>1
<1> HIDE DEF t, e
<1>3. IsSeq(t) /\ Len(t) = n
  BY <1>1, <1>2, FunctionIsSeq
<1>4. Instead(s, t, e)
  BY <1>1, <1>2, <1>3 DEF Instead
<1>5. QED
  BY <1>4 DEF t, e

LEMMA InStateIs ==
  ASSUME NEW state, IsSeq(stack), Len(stack) > 0
  PROVE  Instead(stack, InState(state), [stack[Len(stack)] EXCEPT !.state = state])
BY InsteadIn DEF InState

LEMMA OntoAppended ==
  ASSUME NEW s, IsSeq(s), NEW e
  PROVE  Onto(s, Append(s, e), e)
BY AppendShape DEF Onto

LEMMA TwoAppended ==
  ASSUME NEW s, IsSeq(s), NEW a, NEW b
  PROVE  s \o <<a, b>> = Append(Append(s, a), b)
<1>1. PICK S : s \in Seq(S)
  BY DEF IsSeq
<1> DEFINE R == S \cup {a, b}
<1>2. s \in Seq(R) /\ a \in R /\ b \in R
  BY <1>1, SeqMonotonic
<1> HIDE DEF R
<1>3. QED
  BY <1>2

-----------------------------------------------------------------------------
(* One lemma for each kind of step.                                         *)
LEMMA LeafKeeps ==
  ASSUME PInv, NEW kind, NEW str, Leaf(kind, str)
  PROVE  PInv'
<1> DEFINE f == stack[Len(stack)]
           p == Placed(f, kind, str)
           st1 == Append(Front(stack), p.frame)
           h == [p.frame EXCEPT !.state = After(p.frame.state)]
<1>1. IsSeq(stack) /\ Len(stack) > 0 /\ f.state \in Expecting
  BY TopIs DEF PInv, StackOK, Leaf, CallsParse
<1>2. memory' = p.memory /\ stack' = Append(Front(stack), h) /\ node_id' = node_id + 1
  BY TopIs DEF Leaf
<1>3. PlacedRight(stack, p)
  BY <1>1, Placing DEF PInv
<1> HIDE DEF p
<1>4. Instead(stack, st1, p.frame) /\ Instead(stack, Append(Front(stack), h), h)
  BY <1>1, InsteadLast
<1>5. Instead(st1, Append(Front(stack), h), h) /\ st1[Len(st1)] = p.frame
  BY <1>4, InsteadAgain
<1>6. StackOK(p.memory, st1) /\ MemoryOK(p.memory, node_id + 1) /\ p.frame.state \in Expecting
  BY <1>1, <1>3, <1>4 DEF PlacedRight
<1> HIDE DEF st1
<1>7. Instead(st1, Append(Front(stack), h), [st1[Len(st1)] EXCEPT !.state = After(st1[Len(st1)].state)])
  BY <1>5
<1>8. StackOK(p.memory, Append(Front(stack), h))
  BY <1>5, <1>6, <1>7, Continues
<1>9. QED
  BY <1>2, <1>6, <1>8 DEF PInv

LEMMA Opening ==
  ASSUME MemoryOK(memory, node_id), NEW outer, StackOK(memory, outer), outer[Len(outer)].state \in Expecting,
         NEW kind, NEW str, NEW state \in {"list", "fn", "let", "name", "body"},
         Open(outer, kind, str, state)
  PROVE  PInv'
<1> DEFINE f == outer[Len(outer)]
           p == Placed(f, kind, str)
           v == p.memory
           st1 == Append(Front(outer), p.frame)
           h == Frame(state, p.node)
           n == Len(outer)
<1>1. IsSeq(outer) /\ n > 0 /\ n \in Nat /\ IsSeq(Front(outer)) /\ Last(outer) = f
  BY Around, FrontShape DEF StackOK
<1>2. memory' = v /\ stack' = Front(outer) \o <<p.frame, h>> /\ node_id' = node_id + 1
  BY <1>1 DEF Open
<1>3. PlacedRight(outer, p)
  BY Placing
<1> HIDE DEF p
<1>4. stack' = Append(st1, h)
  BY <1>1, <1>2, TwoAppended
<1>5. Instead(outer, st1, p.frame)
  BY <1>1, InsteadLast
<1> HIDE DEF st1
<1>6. StackOK(v, st1) /\ MemoryOK(v, node_id + 1) /\ IsSeq(st1) /\ Len(st1) = n /\ st1[n] = p.frame
  BY <1>3, <1>5 DEF PlacedRight, Instead
<1>7. p.frame.state \in Expecting /\ IsFrame(h) /\ h.state = state /\ h.node = p.node
  BY <1>3 DEF PlacedRight, Frame, IsFrame
<1> HIDE DEF h
<1>8. FrameOK(v, h)
  <2>1. /\ p.node \in Addresses(v) /\ NodeAt(v, p.node).id = node_id
        /\ NodeAt(v, p.node).ret = NoArray /\ NodeAt(v, p.node).items = NoArray
    BY <1>3 DEF PlacedRight
  <2>2. h.state \notin {"top", "form", "value"} /\ h.state \notin WithLocal
    BY <1>7 DEF WithLocal
  <2>3. h.state \in Expecting => h.state \in {"list", "body"}
    BY <1>7, Waits
  <2>4. h.state \in {"list", "body"} => Rec(v, h) = NoArray
    BY <1>7, <2>1 DEF Rec, IsLocal
  <2>5. QED
    BY <1>7, <2>1, <2>2, <2>3, <2>4, NoArrayOK DEF FrameOK
<1>9. Awaited(v, st1[Len(st1)], h)
  BY <1>3, <1>6, <1>7 DEF PlacedRight, Awaited
<1>10. ASSUME NEW k \in 2..Len(st1) PROVE NodeAt(v, st1[k].node).id < NodeAt(v, h.node).id
  <2>1. FrameOK(memory, outer[k]) /\ st1[k].node = outer[k].node
    <3>1. outer[k].state # "form"
      <4>1. k \in 1..(n - 1) \/ k = n
        BY <1>1, <1>6
      <4>2. QED
        BY <4>1, Waits, Around
    <3>2. FrameOK(memory, outer[k])
      BY <1>6, <3>1, Around
    <3>3. st1[k].node = outer[k].node
      <4>1. k \in 1..(n - 1) \/ k = n
        BY <1>1, <1>6
      <4>2. QED
        BY <1>3, <1>5, <1>6, <4>1 DEF Instead, PlacedRight
    <3>4. QED
      BY <3>2, <3>3
  <2>2. outer[k].node \in Addresses(memory)
    BY <2>1 DEF FrameOK
  <2>3. NodeAt(memory, outer[k].node).id \in 1..(node_id - 1) /\ node_id \in Nat
    BY <2>2 DEF MemoryOK, NodeOK
  <2>4. NodeAt(v, outer[k].node).id = NodeAt(memory, outer[k].node).id
    BY <1>3, <2>2 DEF PlacedRight, Keeps
  <2>5. NodeAt(v, h.node).id = node_id
    BY <1>3, <1>7 DEF PlacedRight
  <2>6. QED
    BY <2>1, <2>3, <2>4, <2>5
<1>11. StackOK(v, Append(st1, h))
  <2>1. Onto(st1, Append(st1, h), h)
    BY <1>6, OntoAppended
  <2>2. st1[Len(st1)].state \in Expecting
    BY <1>6, <1>7
  <2>3. QED
    BY <1>6, <1>7, <1>8, <1>9, <1>10, <2>1, <2>2, Pushed
<1>12. QED
  BY <1>2, <1>4, <1>6, <1>11 DEF PInv

LEMMA OpenListKeeps ==
  ASSUME PInv, OpenList
  PROVE  PInv'
BY TopIs, Opening DEF PInv, OpenList, CallsParse

LEMMA FirstWordKeeps ==
  ASSUME PInv, NEW word, NEW kind, NEW str, NEW state \in {"fn", "let", "name", "body"},
         FirstWord(word, kind, str, state)
  PROVE  PInv'
<1>1. StackOK(memory, stack) /\ MemoryOK(memory, node_id) /\ stack[Len(stack)].state = "form"
  BY TopIs DEF PInv, FirstWord, Waiting
<1>2. Len(stack) > 1
  BY <1>1, Innermost
<1>3. StackOK(memory, Front(stack)) /\ Front(stack)[Len(Front(stack))].state \in Expecting
  BY <1>1, <1>2, Popped
<1>4. Open(Front(stack), kind, str, state)
  BY DEF FirstWord
<1>5. QED
  BY <1>1, <1>3, <1>4, Opening

LEMMA OpenFormKeeps ==
  ASSUME PInv, OpenForm
  PROVE  PInv'
<1> DEFINE h == Frame("form", Top.node)
<1>1. StackOK(memory, stack) /\ MemoryOK(memory, node_id) /\ stack[Len(stack)].state \in Expecting /\ IsSeq(stack)
  BY TopIs DEF PInv, OpenForm, CallsParse, StackOK
<1>2. IsFrame(h) /\ h.state = "form"
  BY DEF Frame, IsFrame
<1>3. stack' = Append(stack, h) /\ memory' = memory /\ node_id' = node_id
  BY DEF OpenForm
<1> HIDE DEF h
<1>4. Onto(stack, Append(stack, h), h)
  BY <1>1, OntoAppended
<1>5. StackOK(memory, Append(stack, h))
  BY <1>1, <1>2, <1>4, Pushed
<1>6. QED
  BY <1>1, <1>3, <1>5 DEF PInv

LEMMA ShutKeeps ==
  ASSUME PInv, NEW token, Shut(token), Top.state \notin {"top", "form"}
  PROVE  PInv'
<1> DEFINE outer == Front(stack)
           n == Len(outer)
           t == [outer EXCEPT ![n].state = After(outer[n].state)]
<1>1. StackOK(memory, stack) /\ MemoryOK(memory, node_id) /\ Len(stack) > 1
  BY TopIs, Innermost DEF PInv
<1>2. StackOK(memory, outer) /\ n = Len(stack) - 1 /\ outer[n].state \in Expecting
  BY <1>1, Popped
<1>3. stack' = t /\ memory' = memory /\ node_id' = node_id
  BY <1>2 DEF Shut
<1>4. IsSeq(outer) /\ n > 0
  BY <1>2, Around DEF StackOK
<1>5. Instead(outer, t, [outer[n] EXCEPT !.state = After(outer[n].state)])
  BY <1>4, InsteadIn
<1>6. StackOK(memory, t)
  BY <1>1, <1>2, <1>5, Continues
<1>7. QED
  BY <1>1, <1>3, <1>6 DEF PInv

LEMMA SetNameKeeps ==
  ASSUME PInv, SetName
  PROVE  PInv'
<1> DEFINE f == stack[Len(stack)]
           old == NodeAt(memory, f.node)
           new == [old EXCEPT !.str = T.str]
           v == [memory EXCEPT ![f.node[1]][f.node[2]].str = T.str]
           g == [f EXCEPT !.state = "whole"]
<1>1. /\ StackOK(memory, stack) /\ MemoryOK(memory, node_id) /\ f.state = "name"
      /\ memory' = v /\ stack' = InState("whole") /\ node_id' = node_id
  BY TopIs DEF PInv, SetName, Waiting
<1>2. Len(stack) > 1 /\ FrameOK(memory, f) /\ IsSeq(stack)
  BY <1>1, Innermost DEF StackOK
<1>3. f.node \in Addresses(memory) /\ NodeOK(memory, node_id, old) /\ Shaped(old)
  BY <1>1, <1>2 DEF FrameOK, MemoryOK, NodeOK
<1>4. v = [memory EXCEPT ![f.node[1]][f.node[2]] = new]
  BY DEF NodeAt
<1>5. /\ new = [kind |-> new.kind, str |-> new.str, id |-> new.id, parent |-> new.parent,
                pairs |-> new.pairs, ret |-> new.ret, items |-> new.items]
      /\ new.id = old.id /\ new.parent = old.parent /\ new.pairs = old.pairs
      /\ new.ret = old.ret /\ new.items = old.items
  BY <1>3 DEF Shaped
<1> HIDE DEF new, v, old
<1>6. Rewrites(memory, v, f.node, new)
  BY <1>1, <1>3, <1>4, Rewriting DEF MemoryOK
<1>7. NodeOK(memory, node_id, new)
  <2>1. Shaped(new)
    BY <1>3, <1>5 DEF Shaped
  <2>2. Slots(new) = Slots(old)
    BY <1>3, <1>5, <2>1, SlotCases
  <2>3. \A s : ArrayIn(new, s) = ArrayIn(old, s)
    BY <1>5 DEF ArrayIn
  <2>4. QED
    BY <1>3, <1>5, <2>1, <2>2, <2>3 DEF NodeOK
<1>8. FrameOK(v, g) /\ g.node = f.node
  <2>1. IsFrame(g) /\ g.state = "whole" /\ g.node = f.node
    BY <1>2 DEF FrameOK, IsFrame
  <2>2. f.state \in NoItemsYet
    BY <1>1 DEF NoItemsYet
  <2>3. QED
    BY <1>2, <1>5, <1>6, <2>1, <2>2, FrameRewritten DEF old
<1>9. Instead(stack, InState("whole"), g)
  BY <1>2, InStateIs
<1> HIDE DEF g
<1>10. MemoryOK(v, node_id) /\ StackOK(v, stack')
  <2>1. Instead(stack, stack', g)
    BY <1>1, <1>9
  <2>2. QED
    BY <1>1, <1>2, <1>5, <1>6, <1>7, <1>8, <2>1, NodeChanged DEF old
<1>11. QED
  BY <1>1, <1>10 DEF PInv

LEMMA NoneFits ==
  ASSUME NEW m, NEW n, NEW slot
  PROVE  Fits(m, n, NoArray, slot)
BY NoArrayOK DEF Fits

LEMMA UnnamedArgumentKeeps ==
  ASSUME PInv, UnnamedArgument
  PROVE  PInv'
<1> DEFINE f == stack[Len(stack)]
           node == NewNode("NAME", T.str, f.node)
           w == Appended(NoArray, node).memory
           ys == Appended(NoArray, node).array
<1>1. /\ StackOK(memory, stack) /\ MemoryOK(memory, node_id) /\ f.state = "arguments"
      /\ memory' = WithPair(w, Pair("", ys)) /\ stack' = stack /\ node_id' = node_id + 1
  BY TopIs DEF PInv, UnnamedArgument, Waiting
<1>2. Len(stack) > 1 /\ FrameOK(memory, f) /\ IsSeq(stack) /\ f.node \in Addresses(memory)
  BY <1>1, Innermost DEF StackOK, FrameOK
<1>3. Fresh(memory, node_id, node) /\ node.id = node_id /\ node.parent = f.node
  BY <1>2, NewNodeFresh DEF NewNode
<1> HIDE DEF node
<1>4. Grows(memory, w, NoArray, ys, node)
  BY <1>1, NoArrayOK, AppendedGrows DEF MemoryOK
<1> HIDE DEF w, ys
<1>5. MemoryOK(w, node_id + 1) /\ Keeps(memory, w) /\ NodeAt(w, f.node) = NodeAt(memory, f.node)
  <2>1. MemoryOK(w, node_id + 1)
    BY <1>1, <1>3, <1>4, GrownMemory
  <2>2. Keeps(memory, w) /\ \A p \in Addresses(memory) : NodeAt(w, p) = NodeAt(memory, p)
    BY <1>4, GrowsKeeps
  <2>3. QED
    BY <1>2, <2>1, <2>2
<1>6. StackOK(w, stack)
  <2>1. f.state \notin Expecting /\ f.state \notin {"top", "form"}
    BY <1>1, Waits
  <2>2. QED
    BY <1>1, <1>4, <2>1, GrownAside
<1>7. Fits(w, NodeAt(w, f.node), ys, Nowhere)
  <2>1. NodeOK(memory, node_id, NodeAt(memory, f.node)) /\ Fits(memory, NodeAt(memory, f.node), NoArray, Nowhere)
    BY <1>1, <1>2, NoneFits DEF MemoryOK
  <2>2. Inside(w, NodeAt(memory, f.node).id, node)
    BY <1>2, <1>3, <1>5 DEF Inside, Keeps
  <2>3. QED
    BY <1>1, <1>3, <1>4, <1>5, <2>1, <2>2, GrownFits
<1>8. Instead(stack, stack, f) /\ IsFrame(f)
  BY <1>2 DEF Instead, FrameOK
<1>9. MemoryOK(WithPair(w, Pair("", ys)), node_id + 1) /\ StackOK(WithPair(w, Pair("", ys)), stack)
  BY <1>1, <1>5, <1>6, <1>7, <1>8, TopIs, PairAdded
<1>10. QED
  BY <1>1, <1>9 DEF PInv

(* The named argument or the variable that was read is put into its node.     *)
LEMMA LocalAdded ==
  ASSUME PInv, Top.state \in {"argument", "variable"}, NEW state \in {"arguments", "value"},
         state = "arguments" => Top.state = "argument",
         memory' = WithPair(memory, Pair(Top.name, Top.local)), stack' = InState(state), node_id' = node_id
  PROVE  PInv'
<1> DEFINE f == stack[Len(stack)]
           g == [f EXCEPT !.state = state]
<1>1. StackOK(memory, stack) /\ MemoryOK(memory, node_id) /\ Top = f
  BY TopIs DEF PInv
<1>2. Len(stack) > 1 /\ FrameOK(memory, f) /\ IsSeq(stack)
  BY <1>1, Innermost DEF StackOK
<1>3. Fits(memory, NodeAt(memory, Top.node), Top.local, Nowhere)
  BY <1>1, <1>2 DEF FrameOK, WithLocal, LocalOK
<1>4. IsFrame(g) /\ g.node = Top.node /\ g.state = state
  BY <1>1, <1>2 DEF FrameOK, IsFrame
<1>5. Instead(stack, InState(state), g)
  BY <1>2, InStateIs
<1> HIDE DEF g
<1>6. MemoryOK(memory', node_id) /\ StackOK(memory', stack')
  BY <1>1, <1>3, <1>4, <1>5, PairAdded
<1>7. QED
  BY <1>6 DEF PInv

LEMMA SeveralLast ==
  ASSUME NEW s, IsSeq(s), Len(s) > 1, NEW e
  PROVE  Instead(s, Append(Front(s), e), e)
<1>1. Len(s) \in Nat
  BY SeqShape
<1>2. Len(s) > 0
  BY <1>1
<1>3. QED
  BY <1>2, InsteadLast

LEMMA NamedFrame ==
  ASSUME NEW state, NEW node, NEW str
  PROVE  [Frame(state, node) EXCEPT !.name = str] = [state |-> state, node |-> node, name |-> str, local |-> NoArray]
<1> DEFINE f == Frame(state, node)
<1>1. /\ f = [state |-> f.state, node |-> f.node, name |-> f.name, local |-> f.local]
      /\ f.state = state /\ f.node = node /\ f.local = NoArray
  BY DEF Frame
<1> HIDE DEF f
<1>2. [f EXCEPT !.name = str] = [state |-> f.state, node |-> f.node, name |-> str, local |-> f.local]
  BY <1>1
<1>3. QED
  BY <1>1, <1>2 DEF f

LEMMA NamePairKeeps ==
  ASSUME PInv, NEW following,
         \/ NamePair("argument name", following) /\ following = "argument type"
         \/ NamePair("variable name", following) /\ following = "type"
  PROVE  PInv'
<1> DEFINE f == stack[Len(stack)]
           g == [Frame(following, f.node) EXCEPT !.name = T.str]
<1>1. /\ StackOK(memory, stack) /\ MemoryOK(memory, node_id)
      /\ \/ f.state = "argument name" /\ following = "argument type"
         \/ f.state = "variable name" /\ following = "type"
      /\ stack' = Append(Front(stack), g) /\ memory' = memory /\ node_id' = node_id
  BY TopIs DEF PInv, NamePair, Waiting
<1>2. Len(stack) > 1 /\ FrameOK(memory, f) /\ IsSeq(stack)
  BY <1>1, Innermost DEF StackOK
<1>3. g = [state |-> following, node |-> f.node, name |-> T.str, local |-> NoArray]
  BY NamedFrame
<1> HIDE DEF g
<1>4. IsFrame(g) /\ g.state = following /\ g.node = f.node /\ g.local = NoArray
  BY <1>3 DEF IsFrame
<1>5. /\ f.state = "argument name" => f.state \in NoRetYet
      /\ f.state \in NoItemsYet /\ g.state \in {"argument type", "type"}
      /\ g.state \in NoRetYet => f.state = "argument name"
  BY <1>1, <1>4 DEF NoRetYet, NoItemsYet
<1>6. LocalOK(memory, g) /\ Rec(memory, g) = NoArray
  BY <1>4, <1>5, NoneFits DEF LocalOK, Rec, IsLocal
<1>7. FrameOK(memory, g)
  BY <1>2, <1>4, <1>5, <1>6, NoArrayOK DEF FrameOK
<1>8. Instead(stack, Append(Front(stack), g), g)
  BY <1>2, SeveralLast
<1>9. StackOK(memory, stack')
  <2>1. f.state # "form"
    BY <1>1
  <2>2. QED
    BY <1>1, <1>2, <1>4, <1>7, <1>8, <2>1, TopChanged
<1>10. QED
  BY <1>1, <1>9 DEF PInv

LEMMA ExpectKeeps ==
  ASSUME PInv, Expect
  PROVE  PInv'
<1> DEFINE f == stack[Len(stack)]
<1>1. PICK s : /\ <<f.state, s>> \in Turns /\ f.state \notin {"top", "form"}
               /\ stack' = InState(s) /\ memory' = memory /\ node_id' = node_id
  <2>1. PICK p \in Punctuation : Top.state = p[1] /\ stack' = InState(p[3]) /\ memory' = memory /\ node_id' = node_id
    BY DEF Expect, Waiting
  <2>2. <<p[1], p[3]>> \in Turns /\ p[1] \notin {"top", "form"}
    <3>1. CASE p = <<"fn", "[", "arguments">>
      BY <3>1 DEF Turns
    <3>2. CASE p = <<"arguments", "(", "argument name">>
      BY <3>2 DEF Turns
    <3>3. CASE p = <<"arguments", "]", "ret">>
      BY <3>3 DEF Turns
    <3>4. CASE p = <<"let", "[", "variables">>
      BY <3>4 DEF Turns
    <3>5. CASE p = <<"variables", "(", "variable name">>
      BY <3>5 DEF Turns
    <3>6. CASE p = <<"variables", "]", "body">>
      BY <3>6 DEF Turns
    <3>7. CASE p = <<"end variable", ")", "variables">>
      BY <3>7 DEF Turns
    <3>8. QED
      BY <3>1, <3>2, <3>3, <3>4, <3>5, <3>6, <3>7 DEF Punctuation
  <2>3. QED
    BY <2>1, <2>2, TopIs
<1>2. StackOK(memory, stack) /\ MemoryOK(memory, node_id)
  BY DEF PInv
<1>3. Len(stack) > 1 /\ FrameOK(memory, f) /\ IsSeq(stack)
  BY <1>1, <1>2, Innermost DEF StackOK
<1>4. FrameOK(memory, [f EXCEPT !.state = s]) /\ [f EXCEPT !.state = s].node = f.node
  BY <1>1, <1>3, Turned
<1>5. Instead(stack, InState(s), [f EXCEPT !.state = s])
  BY <1>3, InStateIs
<1>6. StackOK(memory, stack')
  BY <1>1, <1>2, <1>3, <1>4, <1>5, TopChanged
<1>7. QED
  BY <1>1, <1>2, <1>6 DEF PInv

-----------------------------------------------------------------------------
LEMMA ParseInitPInv ==
  ASSUME ParseInit
  PROVE  PInv
<1> DEFINE f == Frame("top", NoNode)
<1>1. memory = <<>> /\ stack = <<f>> /\ node_id = 1
  BY DEF ParseInit
<1>2. IsSeq(memory) /\ Len(memory) = 0 /\ \A b : b \notin 1..Len(memory)
  BY <1>1, NoneShape
<1>3. Buffers(memory) /\ \A p : p \notin Addresses(memory)
  BY <1>2, AddressIn DEF Buffers
<1>4. MemoryOK(memory, node_id)
  BY <1>1, <1>3 DEF MemoryOK
<1>5. IsFrame(f) /\ f.state = "top" /\ f.node = NoNode /\ f.local = NoArray
  BY DEF Frame, IsFrame
<1> HIDE DEF f
<1>6. TopOK(memory, f)
  BY <1>5, NoArrayOK DEF TopOK, Outermost
<1>7. IsSeq(stack) /\ Len(stack) = 1 /\ stack[1] = f
  BY <1>1, OneShape
<1>8. StackOK(memory, stack)
  BY <1>6, <1>7 DEF StackOK
<1>9. QED
  BY <1>4, <1>8 DEF PInv

LEMMA ParseNextPInv ==
  ASSUME PInv, [ParseNext]_pvars
  PROVE  PInv'
<1>1. CASE ReadBool \/ ReadString \/ ReadNumber \/ ReadName
  BY <1>1, LeafKeeps DEF ReadBool, ReadString, ReadNumber, ReadName
<1>2. CASE OpenList
  BY <1>2, OpenListKeeps
<1>3. CASE OpenForm
  BY <1>3, OpenFormKeeps
<1>4. CASE OpenFunc \/ OpenLet \/ OpenDef \/ OpenExtern \/ OpenCall
  BY <1>4, FirstWordKeeps DEF OpenFunc, OpenLet, OpenDef, OpenExtern, OpenCall
<1>5. CASE SetName
  BY <1>5, SetNameKeeps
<1>6. CASE CloseForm \/ CloseList
  <2>1. Top.state \notin {"top", "form"}
    BY <1>6 DEF CloseForm, CloseList, Waiting
  <2>2. Shut(")") \/ Shut("]")
    BY <1>6 DEF CloseForm, CloseList
  <2>3. QED
    BY <2>1, <2>2, ShutKeeps
<1>7. CASE UnnamedArgument
  BY <1>7, UnnamedArgumentKeeps
<1>8. CASE NameArgument \/ NameVariable
  BY <1>8, NamePairKeeps DEF NameArgument, NameVariable
<1>9. CASE EndArgument
  BY <1>9, LocalAdded DEF EndArgument, Waiting
<1>10. CASE AddVariable
  BY <1>10, LocalAdded DEF AddVariable, Waiting
<1>11. CASE Expect
  BY <1>11, ExpectKeeps
<1>12. CASE EndOfFile \/ Unexpected
  BY <1>12 DEF EndOfFile, Unexpected, PInv
<1>13. CASE UNCHANGED pvars
  BY <1>13 DEF pvars, PInv
<1>14. QED
  BY <1>1, <1>2, <1>3, <1>4, <1>5, <1>6, <1>7, <1>8, <1>9, <1>10, <1>11, <1>12, <1>13 DEF ParseNext

LEMMA PInvLinks ==
  ASSUME PInv
  PROVE  LinksRight
<1> DEFINE m == memory
<1>1. MemoryOK(m, node_id) /\ StackOK(m, stack)
  BY DEF PInv
<1>2. Climbing(m)
  <2>1. \A p \in Addresses(m) : NodeOK(m, node_id, NodeAt(m, p))
    BY <1>1 DEF MemoryOK
  <2>2. \A p \in Addresses(m) : NodeAt(m, p).parent # NoNode =>
          NodeAt(m, p).parent \in Addresses(m) /\ NodeAt(m, NodeAt(m, p).parent).id < NodeAt(m, p).id
    BY <2>1 DEF NodeOK
  <2>3. \A p, q \in Addresses(m) : NodeAt(m, p).id = NodeAt(m, q).id => NodeAt(m, p).parent = NodeAt(m, q).parent
    BY <1>1 DEF MemoryOK
  <2>4. QED
    BY <2>2, <2>3 DEF Climbing
<1>3. ChildrenPoint(m)
  <2>1. SUFFICES ASSUME NEW p \in Addresses(m), NEW s \in Slots(NodeAt(m, p)),
                        NEW i \in 1..ArrayIn(NodeAt(m, p), s).len
                 PROVE  /\ PointsTo(m, p, m[ArrayIn(NodeAt(m, p), s).data][i])
                        /\ \A t \in Slots(NodeAt(m, p)) : \A j \in 1..ArrayIn(NodeAt(m, p), t).len :
                             m[ArrayIn(NodeAt(m, p), t).data][j].id = m[ArrayIn(NodeAt(m, p), s).data][i].id
                               => t = s /\ j = i
    BY DEF ChildrenPoint
  <2>2. NodeOK(m, node_id, NodeAt(m, p))
    BY <1>1 DEF MemoryOK
  <2>3. PointsTo(m, p, m[ArrayIn(NodeAt(m, p), s).data][i])
    BY <2>2 DEF NodeOK, PointsTo, Inside
  <2>4. QED
    BY <2>2, <2>3 DEF NodeOK
<1>4. Outermost(m, stack[1].local)
  BY <1>1 DEF StackOK, TopOK
<1>5. FillsTheTree
  <2>1. SUFFICES ASSUME NEW k \in 2..Len(stack), stack[k].state # "form"
                 PROVE  /\ stack[k].node = <<Receiver(stack[k - 1]).data, Receiver(stack[k - 1]).len>>
                        /\ Receiver(stack[k - 1]).len = Len(m[Receiver(stack[k - 1]).data])
    BY DEF FillsTheTree
  <2>2. Len(stack) \in Nat /\ k - 1 \in 1..(Len(stack) - 1)
    BY <1>1, Around
  <2>3. Receiver(stack[k - 1]) = Rec(m, stack[k - 1])
    BY <1>1, <2>2, ReceiverIs DEF StackOK
  <2>4. Awaited(m, stack[k - 1], stack[k])
    BY <1>1, <2>1, Around
  <2>5. Full(m, Rec(m, stack[k - 1]))
    BY <1>1, <2>2, OuterFull
  <2>6. QED
    BY <2>3, <2>4, <2>5 DEF Awaited, Full
<1>6. QED
  BY <1>2, <1>3, <1>4, <1>5 DEF LinksRight, ParentsRight

(* Pointers to parents while parse() runs, whatever the text: an address that *)
(* a node keeps of the node around it leads, copy or not, to a node of that    *)
(* node's number, so climbing through enclosing() meets the numbers the tree   *)
(* has; and the address a call of parse() keeps of its own node is the one in   *)
(* the tree, so that da_append through it is never lost on an abandoned copy.   *)
THEOREM ParserLinks == ParseSpec => []LinksRight
<1>1. ParseInit => PInv
  BY ParseInitPInv
<1>2. PInv /\ [ParseNext]_pvars => PInv'
  BY ParseNextPInv
<1>3. PInv => LinksRight
  BY PInvLinks
<1>4. QED
  BY <1>1, <1>2, <1>3, PTL DEF ParseSpec
=============================================================================
