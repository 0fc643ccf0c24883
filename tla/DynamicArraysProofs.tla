------------------------ MODULE DynamicArraysProofs ------------------------
(***************************************************************************)
(* The allocator under the dynamic arrays is right for every block size,     *)
(* every set of arrays and element sizes and every order of operations:     *)
(* allocations are apart, inside their block, and aligned.  On top of it     *)
(* the arrays implement lists: what is appended, popped or stored through a  *)
(* kept address changes one list as it should and no other.                *)
(***************************************************************************)
EXTENDS DynamicArrays, SequenceTheorems, TLAPS

(* What % and \div do.                                                     *)
LEMMA ModBounds ==
  ASSUME NEW n \in Nat, NEW s \in Nat \ {0}
  PROVE  /\ n % s \in 0..(s - 1)
         /\ n \div s \in Nat
         /\ n = s * (n \div s) + (n % s)
OBVIOUS

LEMMA ModProduct ==
  ASSUME NEW s \in Nat \ {0}, NEW q \in Int
  PROVE  (s * q) % s = 0
OBVIOUS

(* The padding brings any offset to a multiple of the size.                 *)
LEMMA PaddingAligns ==
  ASSUME NEW n \in Nat, NEW s \in Nat \ {0}
  PROVE  /\ (s - (n % s)) % s \in Nat
         /\ (n + ((s - (n % s)) % s)) % s = 0
<1> DEFINE r == n % s   q == n \div s
<1>1. r \in 0..(s - 1) /\ q \in Nat /\ n = s * q + r
  BY ModBounds
<1>2. CASE r = 0
  <2>1. (s - r) % s = 0
    BY <1>2, ModProduct
  <2> QED BY <1>1, <1>2, <2>1, ModProduct
<1>3. CASE r # 0
  <2>1. s - r \in 1..(s - 1)
    BY <1>1, <1>3
  <2>2. (s - r) % s = s - r
    BY <2>1
  <2>3. n + (s - r) = s * (q + 1)
    BY <1>1
  <2>4. (s * (q + 1)) % s = 0
    BY <1>1, ModProduct
  <2> HIDE DEF r, q
  <2>7. (n + (s - r)) % s = 0
    BY <2>3, <2>4, Zenon
  <2>5. (n + ((s - r) % s)) % s = 0
    BY <2>2, <2>7, Zenon
  <2>6. (s - r) % s \in Nat
    BY <2>1, <2>2
  <2> QED BY <2>5, <2>6, Zenon DEF r
<1> QED BY <1>2, <1>3

-----------------------------------------------------------------------------
(* The invariant of the arena: in each block, everything given out lies      *)
(* below the mark that the next allocation starts from.                     *)
Marked ==
  /\ \A b \in DOMAIN blocks : blocks[b].allocated <= blocks[b].capacity
  /\ \A k \in DOMAIN taken : taken[k].at + taken[k].size <= blocks[taken[k].block].allocated

AInv == ArenaTypeOK /\ Marked /\ Disjoint /\ Aligned

LEMMA AInvInit == ASSUME ArenaInit PROVE AInv
<1>1. blocks = <<[allocated |-> 0, capacity |-> 0]>> /\ taken = <<>>
  BY DEF ArenaInit
<1>2. blocks \in Seq(Blocks) /\ Len(blocks) = 1 /\ DOMAIN blocks = {1}
  BY <1>1 DEF Blocks
<1>3. taken \in Seq(Allocations) /\ DOMAIN taken = {}
  BY <1>1
<1>4. ArenaTypeOK
  BY <1>2, <1>3 DEF ArenaTypeOK
<1>5. Marked
  BY <1>1, <1>2, <1>3 DEF Marked
<1> QED BY <1>3, <1>4, <1>5 DEF AInv, Disjoint, Aligned

(* A block that arena_alloc() looks at has memory, and, when it is a new    *)
(* one, enough.                                                            *)
LEMMA OpenedRight ==
  ASSUME NEW size \in Nat \ {0}, NEW b \in Blocks,
         b.allocated <= b.capacity
  PROVE  /\ Opened(b, size) \in Blocks
         /\ Opened(b, size).allocated <= Opened(b, size).capacity
         /\ Opened(b, size).allocated = b.allocated
         /\ b.capacity = 0 => size <= Opened(b, size).capacity
BY BlockAssumption DEF Opened, Blocks

LEMMA TopRight ==
  ASSUME NEW size \in Nat \ {0}, NEW b \in Blocks
  PROVE  /\ Top(b, size) \in Nat
         /\ Top(b, size) - size \in Nat
         /\ b.allocated <= Top(b, size) - size
         /\ (Top(b, size) - size) % size = 0
<1>1. /\ Padding(b, size) \in Nat
      /\ (b.allocated + Padding(b, size)) % size = 0
  BY PaddingAligns DEF Padding, Blocks
<1>2. Top(b, size) - size = b.allocated + Padding(b, size)
  BY <1>1 DEF Top, Blocks
<1> QED BY <1>1, <1>2 DEF Top, Blocks

(* Adding an allocation that starts where nothing has been given out.      *)
LEMMA TakenExtended ==
  ASSUME ArenaTypeOK, Disjoint, Aligned,
         NEW t \in Allocations,
         taken' = Append(taken, t),
         t.at % t.size = 0,
         \A k \in DOMAIN taken : Apart(taken[k], t)
  PROVE  /\ Disjoint' /\ Aligned'
         /\ taken' \in Seq(Allocations)
         /\ DOMAIN taken' = DOMAIN taken \cup {Len(taken) + 1}
         /\ \A k \in DOMAIN taken : taken'[k] = taken[k]
         /\ taken'[Len(taken) + 1] = t
<1>1. /\ taken' \in Seq(Allocations)
      /\ DOMAIN taken' = DOMAIN taken \cup {Len(taken) + 1}
      /\ \A k \in DOMAIN taken : taken'[k] = taken[k]
      /\ taken'[Len(taken) + 1] = t
  BY AppendProperties, LenProperties DEF ArenaTypeOK
<1>2. \A k \in DOMAIN taken : Apart(t, taken[k])
  BY DEF Apart
<1>3. Disjoint'
  BY <1>1, <1>2, ZenonT(30) DEF Disjoint
<1>4. Aligned'
  BY <1>1, Zenon DEF Aligned
<1> QED BY <1>1, <1>3, <1>4

(* arena_alloc() keeps it.                                                 *)
LEMMA AllocKeeps ==
  ASSUME AInv, NEW size \in Nat \ {0}, arena_alloc(size)
  PROVE  AInv'
<1> DEFINE old == blocks[Last]
           b == Opened(old, size)
           new == Opened([allocated |-> 0, capacity |-> 0], size)
           top == Top(b, size)
           t == [block |-> Pointer(size).block, at |-> Pointer(size).at, size |-> size]
<1>1. /\ blocks \in Seq(Blocks)
      /\ Last \in DOMAIN blocks /\ Last = Len(blocks)
      /\ old \in Blocks /\ old.allocated <= old.capacity
  BY LenProperties, ElementOfSeq DEF AInv, ArenaTypeOK, Marked, Last
<1>2. /\ b \in Blocks /\ b.allocated = old.allocated
      /\ b.allocated <= b.capacity
  BY <1>1, OpenedRight
<1>3. new \in Blocks /\ size <= new.capacity
  <2> DEFINE empty == [allocated |-> 0, capacity |-> 0]
  <2>1. empty \in Blocks /\ empty.allocated <= empty.capacity
    BY DEF Blocks
  <2> HIDE DEF empty
  <2> QED BY <2>1, OpenedRight DEF empty
<1>4. /\ top \in Nat /\ top - size \in Nat
      /\ b.allocated <= top - size
      /\ (top - size) % size = 0
  BY <1>2, TopRight
<1>5. 0 % size = 0
  BY ModProduct
<1>6. taken' = Append(taken, t)
  BY DEF arena_alloc
<1>9. ASSUME NEW k \in DOMAIN taken
      PROVE  /\ taken[k].block \in DOMAIN blocks /\ taken[k].block \in Nat
             /\ taken[k].at \in Nat /\ taken[k].size \in Nat
             /\ taken[k].at + taken[k].size <= blocks[taken[k].block].allocated
  <2>1. taken[k] \in Allocations
    BY LenProperties, ElementOfSeq DEF AInv, ArenaTypeOK
  <2> QED BY <2>1 DEF AInv, ArenaTypeOK, Marked, Allocations
<1>7. CASE top <= b.capacity
  <2>1. blocks' = [blocks EXCEPT ![Last] = [b EXCEPT !.allocated = top]]
    BY <1>7 DEF arena_alloc
  <2>2. t = [block |-> Last, at |-> top - size, size |-> size]
    BY <1>7 DEF Pointer
  <2> HIDE DEF b, top, t
  <2>3. \A k \in DOMAIN taken : Apart(taken[k], t)
    BY <1>1, <1>2, <1>4, <1>9, <2>2, SMTT(20) DEF Blocks, Apart
  <2>4. t \in Allocations /\ t.at % t.size = 0
    BY <1>1, <1>4, <2>2, LenProperties DEF Allocations
  <2>5. /\ Disjoint' /\ Aligned'
        /\ taken' \in Seq(Allocations)
        /\ DOMAIN taken' = DOMAIN taken \cup {Len(taken) + 1}
        /\ \A k \in DOMAIN taken : taken'[k] = taken[k]
        /\ taken'[Len(taken) + 1] = t
    BY <1>6, <2>3, <2>4, TakenExtended DEF AInv
  <2> DEFINE used == [b EXCEPT !.allocated = top]
  <2>0. used \in Blocks /\ used.allocated = top /\ used.capacity = b.capacity
    BY <1>2, <1>4 DEF Blocks
  <2> HIDE DEF used
  <2>6. /\ blocks' \in Seq(Blocks) /\ Len(blocks') = Len(blocks)
        /\ DOMAIN blocks' = DOMAIN blocks
        /\ blocks'[Last] = used
        /\ \A k \in DOMAIN blocks : k # Last => blocks'[k] = blocks[k]
    BY <1>1, <2>0, <2>1, ExceptSeq, LenProperties DEF used
  <2>7. ArenaTypeOK'
    BY <1>1, <1>9, <2>2, <2>5, <2>6 DEF ArenaTypeOK
  <2>8. \A k \in DOMAIN blocks' : blocks'[k].allocated <= blocks'[k].capacity
    BY <1>7, <2>0, <2>6 DEF AInv, Marked
  <2>9. ASSUME NEW k \in DOMAIN taken
        PROVE  taken[k].at + taken[k].size <= blocks'[taken[k].block].allocated
    <3>1. CASE taken[k].block = Last
      BY <1>1, <1>2, <1>4, <1>9, <2>0, <2>6, <3>1, SMTT(20) DEF Blocks
    <3>2. CASE taken[k].block # Last
      BY <1>9, <2>6, <3>2
    <3> QED BY <3>1, <3>2
  <2>10. Marked'
    BY <1>4, <2>0, <2>2, <2>5, <2>6, <2>8, <2>9 DEF Marked
  <2> QED BY <2>5, <2>7, <2>10 DEF AInv
<1>8. CASE ~(top <= b.capacity)
  <2>1. blocks' = Append([blocks EXCEPT ![Last] = [b EXCEPT !.allocated = b.capacity]],
                         [new EXCEPT !.allocated = size])
    BY <1>8 DEF arena_alloc
  <2>2. t = [block |-> Last + 1, at |-> 0, size |-> size]
    BY <1>8 DEF Pointer
  <2> HIDE DEF b, top, t, new
  <2>3. \A k \in DOMAIN taken : Apart(taken[k], t)
    BY <1>1, <1>9, <2>2, LenProperties DEF Apart
  <2>4. t \in Allocations /\ t.at % t.size = 0
    BY <1>1, <1>5, <2>2, LenProperties DEF Allocations
  <2>5. /\ Disjoint' /\ Aligned'
        /\ taken' \in Seq(Allocations)
        /\ DOMAIN taken' = DOMAIN taken \cup {Len(taken) + 1}
        /\ \A k \in DOMAIN taken : taken'[k] = taken[k]
        /\ taken'[Len(taken) + 1] = t
    BY <1>6, <2>3, <2>4, TakenExtended DEF AInv
  <2> DEFINE full == [b EXCEPT !.allocated = b.capacity]
             used == [new EXCEPT !.allocated = size]
  <2>0. /\ full \in Blocks /\ full.allocated = b.capacity /\ full.capacity = b.capacity
        /\ used \in Blocks /\ used.allocated = size /\ used.capacity = new.capacity
    BY <1>2, <1>3 DEF Blocks
  <2> HIDE DEF full, used
  <2>6. /\ blocks' \in Seq(Blocks)
        /\ DOMAIN blocks' = DOMAIN blocks \cup {Last + 1} /\ Len(blocks') > 0
        /\ blocks'[Last] = full /\ blocks'[Last + 1] = used
        /\ \A k \in DOMAIN blocks : k # Last => blocks'[k] = blocks[k]
    <3>1. /\ [blocks EXCEPT ![Last] = full] \in Seq(Blocks)
          /\ Len([blocks EXCEPT ![Last] = full]) = Len(blocks)
          /\ \A k \in 1..Len(blocks) :
               [blocks EXCEPT ![Last] = full][k] = IF k = Last THEN full ELSE blocks[k]
      BY <1>1, <2>0, ExceptSeq, LenProperties
    <3>2. blocks' = Append([blocks EXCEPT ![Last] = full], used)
      BY <2>1 DEF full, used
    <3> QED BY <1>1, <2>0, <3>1, <3>2, AppendProperties, LenProperties
  <2>7. ArenaTypeOK'
    BY <1>1, <1>9, <2>2, <2>5, <2>6 DEF ArenaTypeOK
  <2>8. \A k \in DOMAIN blocks' : blocks'[k].allocated <= blocks'[k].capacity
    <3> SUFFICES ASSUME NEW k \in DOMAIN blocks'
                 PROVE  blocks'[k].allocated <= blocks'[k].capacity
      OBVIOUS
    <3>1. CASE k = Last
      BY <1>2, <2>0, <2>6, <3>1 DEF Blocks
    <3>2. CASE k = Last + 1
      BY <1>3, <2>0, <2>6, <3>2
    <3>3. CASE k \in DOMAIN blocks /\ k # Last
      BY <2>6, <3>3 DEF AInv, Marked
    <3> QED BY <2>6, <3>1, <3>2, <3>3
  <2>9. ASSUME NEW k \in DOMAIN taken
        PROVE  taken[k].at + taken[k].size <= blocks'[taken[k].block].allocated
    <3>1. CASE taken[k].block = Last
      <4>1. /\ taken[k].at + taken[k].size <= b.allocated /\ b.allocated <= b.capacity
            /\ b.allocated \in Nat /\ b.capacity \in Nat
        BY <1>1, <1>2, <1>9, <3>1 DEF Blocks
      <4>2. blocks'[taken[k].block].allocated = b.capacity
        BY <2>0, <2>6, <3>1
      <4> QED BY <1>9, <4>1, <4>2
    <3>2. CASE taken[k].block # Last
      BY <1>9, <2>6, <3>2
    <3> QED BY <3>1, <3>2
  <2>10. Marked'
    BY <2>0, <2>2, <2>5, <2>6, <2>8, <2>9 DEF Marked
  <2> QED BY <2>5, <2>7, <2>10 DEF AInv
<1> QED BY <1>7, <1>8

-----------------------------------------------------------------------------
(* The arrays ask for a whole number of elements, at least four.            *)
ArraysInv ==
  /\ arrays = [a \in Names |-> arrays[a]]
  /\ \A a \in Names :
       /\ arrays[a] = [data |-> arrays[a].data, len |-> arrays[a].len,
                       capacity |-> arrays[a].capacity]
       /\ arrays[a].len \in Nat /\ arrays[a].capacity \in Nat

LEMMA RequestPositive ==
  ASSUME NEW a \in Names, ArraysInv
  PROVE  ElemSize[a] * Doubled(arrays[a].capacity) \in Nat \ {0}
<1>1. ElemSize[a] \in Nat \ {0}
  BY ArraysAssumption
<1>2. Doubled(arrays[a].capacity) \in Nat \ {0}
  BY DEF ArraysInv, Doubled
<1> HIDE DEF Doubled
<1> QED BY <1>1, <1>2

LEMMA NextKeeps ==
  ASSUME AInv, ArraysInv, [Next]_dvars
  PROVE  AInv' /\ ArraysInv'
<1>0. ASSUME UNCHANGED avars PROVE AInv'
  BY <1>0 DEF avars, AInv, ArenaTypeOK, Marked, Disjoint, Apart, Aligned
<1>1. ASSUME NEW a \in Names, NEW v, da_append(a, v)
      PROVE  AInv' /\ ArraysInv'
  <2> DEFINE size == ElemSize[a] * Doubled(arrays[a].capacity)
  <2>1. size \in Nat \ {0}
    BY RequestPositive
  <2>2. arena_alloc(size) \/ UNCHANGED avars
    BY <1>1 DEF da_append
  <2> HIDE DEF size
  <2>3. AInv'
    BY <1>0, <2>1, <2>2, AllocKeeps
  <2>4. \/ \E data : arrays' = [arrays EXCEPT ![a] =
                        [data |-> data, len |-> arrays[a].len + 1,
                         capacity |-> Doubled(arrays[a].capacity)]]
        \/ arrays' = [arrays EXCEPT ![a].len = @ + 1]
    BY <1>1, Zenon DEF da_append
  <2>5. ArraysInv'
    <3>1. Doubled(arrays[a].capacity) \in Nat
      BY DEF ArraysInv, Doubled
    <3>2. ASSUME NEW data,
                 arrays' = [arrays EXCEPT ![a] =
                              [data |-> data, len |-> arrays[a].len + 1,
                               capacity |-> Doubled(arrays[a].capacity)]]
          PROVE  ArraysInv'
      BY <3>1, <3>2 DEF ArraysInv
    <3>3. CASE arrays' = [arrays EXCEPT ![a].len = @ + 1]
      BY <3>3 DEF ArraysInv
    <3> QED BY <2>4, <3>2, <3>3
  <2> QED BY <2>3, <2>5
<1>3. ASSUME NEW a \in Names, da_pop(a) PROVE AInv' /\ ArraysInv'
  <2>1. ArraysInv'
    BY <1>3 DEF da_pop, ArraysInv
  <2> QED BY <1>0, <1>3, <2>1 DEF da_pop
<1>4. ASSUME NEW a \in Names, da_last(a) PROVE AInv' /\ ArraysInv'
  BY <1>0, <1>4 DEF da_last, ArraysInv
<1>5. ASSUME NEW h, NEW v, StoreHeld(h, v) PROVE AInv' /\ ArraysInv'
  BY <1>0, <1>5 DEF StoreHeld, ArraysInv
<1>6. CASE UNCHANGED dvars
  BY <1>0, <1>6 DEF dvars, ArraysInv
<1> QED BY <1>1, <1>3, <1>4, <1>5, <1>6 DEF Next

LEMMA InvAlways == Spec => [](AInv /\ ArraysInv)
<1>1. Init => AInv /\ ArraysInv
  BY AInvInit DEF Init, ArraysInv
<1>2. AInv /\ ArraysInv /\ [Next]_dvars => (AInv /\ ArraysInv)'
  BY NextKeeps
<1> QED BY <1>1, <1>2, PTL DEF Spec

(* No byte belongs to two allocations, whatever the arrays do.              *)
THEOREM AllocationsDisjoint == Spec => []Disjoint
<1>1. AInv /\ ArraysInv => Disjoint
  BY DEF AInv
<1> QED BY <1>1, InvAlways, PTL

(* Every allocation is aligned to its own size.                            *)
THEOREM AllocationsAligned == Spec => []Aligned
<1>1. AInv /\ ArraysInv => Aligned
  BY DEF AInv
<1> QED BY <1>1, InvAlways, PTL

(* Every allocation lies inside a block.                                   *)
THEOREM AllocationsInBlock == Spec => []InBlock
<1>1. ASSUME AInv PROVE InBlock
  <2> SUFFICES ASSUME NEW k \in DOMAIN taken
               PROVE  taken[k].at + taken[k].size <= blocks[taken[k].block].capacity
    BY DEF InBlock
  <2>1. taken[k] \in Allocations /\ taken[k].block \in DOMAIN blocks
    BY <1>1, LenProperties, ElementOfSeq DEF AInv, ArenaTypeOK
  <2>2. blocks[taken[k].block] \in Blocks
    BY <1>1, <2>1, LenProperties, ElementOfSeq DEF AInv, ArenaTypeOK
  <2> QED BY <1>1, <2>1, <2>2 DEF AInv, Marked, Blocks, Allocations
<1>2. AInv /\ ArraysInv => InBlock
  BY <1>1
<1> QED BY <1>2, InvAlways, PTL

-----------------------------------------------------------------------------
(* Products, which the provers do not find by themselves.                  *)
LEMMA Multiples ==
  ASSUME NEW s \in Nat \ {0}, NEW k \in Nat, NEW n \in Nat
  PROVE  /\ k * s \in Nat
         /\ (k + 1) * s = k * s + s
         /\ k <= n => k * s <= n * s
         /\ k < n => k * s + s <= n * s
<1>1. k * s \in Nat /\ (k + 1) * s = k * s + s
  OBVIOUS
<1>2. ASSUME NEW a \in Nat, NEW b \in Nat, a <= b PROVE a * s <= b * s
  <2>1. b - a \in Nat /\ b * s = a * s + (b - a) * s
    BY <1>2
  <2>2. (b - a) * s \in Nat
    BY <2>1
  <2>3. QED
    BY <2>1, <2>2
<1>3. k < n => k * s + s <= n * s
  BY <1>1, <1>2
<1>4. QED
  BY <1>1, <1>2, <1>3

-----------------------------------------------------------------------------
(* Memory as a value.                                                      *)

(* The address of element k of a buffer.                                   *)
Place(data, s, k) == [block |-> data.block, at |-> data.at + (k - 1) * s]

(* v lies at p in memory m.                                                *)
HoldsIn(m, p, s, v) ==
  \A n \in 0..(s - 1) :
    /\ <<p.block, p.at + n>> \in DOMAIN m
    /\ m[<<p.block, p.at + n>>] = <<v, n>>

(* m and w agree on the bytes from p on.                                    *)
SameBytes(m, w, p, size) ==
  \A n \in 0..(size - 1) :
    <<p.block, p.at + n>> \in DOMAIN m =>
      /\ <<p.block, p.at + n>> \in DOMAIN w
      /\ w[<<p.block, p.at + n>>] = m[<<p.block, p.at + n>>]

Addresses == [block : Nat, at : Nat]

(* No byte from p on is one of those from q on.                            *)
ApartFrom(p, size, q, length) ==
  p.block # q.block \/ p.at + size <= q.at \/ q.at + length <= p.at

LEMMA HoldsSame ==
  ASSUME NEW m, NEW w, NEW p, NEW s, NEW v, SameBytes(m, w, p, s), HoldsIn(m, p, s, v)
  PROVE  HoldsIn(w, p, s, v)
BY DEF HoldsIn, SameBytes

LEMMA StoredHolds ==
  ASSUME NEW m, NEW p \in Addresses, NEW s \in Nat \ {0}, NEW v
  PROVE  HoldsIn(Stored(m, p, s, v), p, s, v)
<1> SUFFICES ASSUME NEW n \in 0..(s - 1)
             PROVE  /\ <<p.block, p.at + n>> \in DOMAIN Stored(m, p, s, v)
                    /\ Stored(m, p, s, v)[<<p.block, p.at + n>>] = <<v, n>>
  BY DEF HoldsIn
<1> DEFINE x == <<p.block, p.at + n>>
<1>1. x \in Bytes(p, s)
  BY DEF Bytes
<1>2. x[2] - p.at = n
  BY DEF Addresses
<1> HIDE DEF x
<1>3. x \in DOMAIN Stored(m, p, s, v) /\ Stored(m, p, s, v)[x] = <<v, n>>
  BY <1>1, <1>2 DEF Stored
<1>4. QED
  BY <1>3 DEF x

LEMMA StoredElsewhere ==
  ASSUME NEW m, NEW p \in Addresses, NEW s \in Nat \ {0}, NEW v,
         NEW q \in Addresses, NEW size \in Nat, ApartFrom(p, s, q, size)
  PROVE  SameBytes(m, Stored(m, p, s, v), q, size)
<1> SUFFICES ASSUME NEW n \in 0..(size - 1), <<q.block, q.at + n>> \in DOMAIN m
             PROVE  /\ <<q.block, q.at + n>> \in DOMAIN Stored(m, p, s, v)
                    /\ Stored(m, p, s, v)[<<q.block, q.at + n>>] = m[<<q.block, q.at + n>>]
  BY DEF SameBytes
<1> DEFINE x == <<q.block, q.at + n>>
<1>1. x \notin Bytes(p, s)
  BY DEF Addresses, ApartFrom, Bytes
<1>2. x \in DOMAIN m
  OBVIOUS
<1> HIDE DEF x
<1>3. x \in DOMAIN Stored(m, p, s, v) /\ Stored(m, p, s, v)[x] = m[x]
  BY <1>1, <1>2 DEF Stored
<1>4. QED
  BY <1>3 DEF x

LEMMA CopiedBytes ==
  ASSUME NEW m, NEW to \in Addresses, NEW from \in Addresses, NEW size \in Nat,
         NEW n \in 0..(size - 1), <<from.block, from.at + n>> \in DOMAIN m
  PROVE  /\ <<to.block, to.at + n>> \in DOMAIN Copied(m, to, from, size)
         /\ Copied(m, to, from, size)[<<to.block, to.at + n>>] = m[<<from.block, from.at + n>>]
<1> DEFINE x == <<to.block, to.at + n>>
           y == <<from.block, from.at + n>>
<1>1. x \in Bytes(to, size)
  BY DEF Bytes
<1>2. from.at + (x[2] - to.at) = from.at + n
  BY DEF Addresses
<1>3. <<from.block, from.at + (x[2] - to.at)>> = y /\ y \in DOMAIN m
  BY <1>2
<1> HIDE DEF x, y
<1>4. x \in DOMAIN Copied(m, to, from, size) /\ Copied(m, to, from, size)[x] = m[y]
  BY <1>1, <1>3 DEF Copied
<1>5. QED
  BY <1>4 DEF x, y

LEMMA CopiedElsewhere ==
  ASSUME NEW m, NEW to \in Addresses, NEW from \in Addresses, NEW size \in Nat,
         NEW q \in Addresses, NEW length \in Nat, ApartFrom(to, size, q, length)
  PROVE  SameBytes(m, Copied(m, to, from, size), q, length)
<1> SUFFICES ASSUME NEW n \in 0..(length - 1), <<q.block, q.at + n>> \in DOMAIN m
             PROVE  /\ <<q.block, q.at + n>> \in DOMAIN Copied(m, to, from, size)
                    /\ Copied(m, to, from, size)[<<q.block, q.at + n>>] = m[<<q.block, q.at + n>>]
  BY DEF SameBytes
<1> DEFINE x == <<q.block, q.at + n>>
<1>1. x \notin Bytes(to, size)
  BY DEF Addresses, ApartFrom, Bytes
<1>2. x \in DOMAIN m
  OBVIOUS
<1> HIDE DEF x
<1>3. x \in DOMAIN Copied(m, to, from, size) /\ Copied(m, to, from, size)[x] = m[x]
  BY <1>1, <1>2 DEF Copied
<1>4. QED
  BY <1>3 DEF x

-----------------------------------------------------------------------------
(* Lists in memory: len elements of s bytes from data on hold those of f.   *)
ListIn(m, data, len, s, f) ==
  /\ f \in Seq(Values) /\ Len(f) = len
  /\ \A k \in 1..len : HoldsIn(m, Place(data, s, k), s, f[k])

(* What is read back, as Contents does.                                    *)
ReadIn(m, data, len, s) ==
  [k \in 1..len |->
     LET v == m[<<Place(data, s, k).block, Place(data, s, k).at>>][1]
     IN  IF HoldsIn(m, Place(data, s, k), s, v) THEN v ELSE Garbage]

LEMMA PlaceAddress ==
  ASSUME NEW data \in Addresses, NEW s \in Nat \ {0}, NEW k \in Nat \ {0}
  PROVE  Place(data, s, k) \in Addresses /\ Place(data, s, k).block = data.block
         /\ Place(data, s, k).at = data.at + (k - 1) * s /\ (k - 1) * s \in Nat
<1>1. k - 1 \in Nat
  OBVIOUS
<1>2. (k - 1) * s \in Nat
  BY <1>1, Multiples
<1>3. QED
  BY <1>2 DEF Place, Addresses

(* What is stored is read back.                                            *)
LEMMA ReadBack ==
  ASSUME NEW m, NEW data \in Addresses, NEW len \in Nat, NEW s \in Nat \ {0}, NEW f,
         ListIn(m, data, len, s, f)
  PROVE  ReadIn(m, data, len, s) = f
<1>1. f = [k \in 1..len |-> f[k]]
  BY DEF ListIn
<1>2. ASSUME NEW k \in 1..len
      PROVE  m[<<Place(data, s, k).block, Place(data, s, k).at>>][1] = f[k]
  <2>1. Place(data, s, k) \in Addresses
    BY PlaceAddress
  <2>2. m[<<Place(data, s, k).block, Place(data, s, k).at + 0>>] = <<f[k], 0>>
    BY 0 \in 0..(s - 1) DEF ListIn, HoldsIn
  <2>3. Place(data, s, k).at + 0 = Place(data, s, k).at
    BY <2>1 DEF Addresses
  <2>4. QED
    BY <2>2, <2>3
<1>3. \A k \in 1..len : HoldsIn(m, Place(data, s, k), s, f[k])
  BY DEF ListIn
<1>4. ReadIn(m, data, len, s) = [k \in 1..len |-> f[k]]
  BY <1>2, <1>3 DEF ReadIn
<1>5. QED
  BY <1>1, <1>4

(* Two elements of a buffer share no byte.                                 *)
LEMMA ElementsApart ==
  ASSUME NEW data \in Addresses, NEW s \in Nat \ {0}, NEW k \in Nat \ {0}, NEW l \in Nat \ {0},
         k # l
  PROVE  ApartFrom(Place(data, s, k), s, Place(data, s, l), s)
<1>1. /\ k < l => (k - 1) * s + s <= (l - 1) * s
      /\ l < k => (l - 1) * s + s <= (k - 1) * s
  <2>1. k - 1 \in Nat /\ l - 1 \in Nat
    OBVIOUS
  <2>2. QED
    BY <2>1, Multiples
<1>2. /\ Place(data, s, k).at = data.at + (k - 1) * s /\ (k - 1) * s \in Nat
      /\ Place(data, s, l).at = data.at + (l - 1) * s /\ (l - 1) * s \in Nat
  BY PlaceAddress
<1>3. QED
  BY <1>1, <1>2 DEF ApartFrom, Addresses

(* A list is kept where its bytes are.                                     *)
LEMMA ListKept ==
  ASSUME NEW m, NEW w, NEW data \in Addresses, NEW len \in Nat, NEW s \in Nat \ {0}, NEW f,
         ListIn(m, data, len, s, f),
         \A k \in 1..len : SameBytes(m, w, Place(data, s, k), s)
  PROVE  ListIn(w, data, len, s, f)
BY HoldsSame DEF ListIn

(* Storing outside the elements in use keeps it.                            *)
LEMMA ListBeside ==
  ASSUME NEW m, NEW data \in Addresses, NEW len \in Nat, NEW s \in Nat \ {0}, NEW f,
         ListIn(m, data, len, s, f), NEW k \in Nat \ {0}, k > len, NEW v
  PROVE  ListIn(Stored(m, Place(data, s, k), s, v), data, len, s, f)
<1>1. ASSUME NEW l \in 1..len
      PROVE  SameBytes(m, Stored(m, Place(data, s, k), s, v), Place(data, s, l), s)
  <2>1. ApartFrom(Place(data, s, k), s, Place(data, s, l), s)
    BY ElementsApart
  <2>2. Place(data, s, k) \in Addresses /\ Place(data, s, l) \in Addresses
    BY PlaceAddress
  <2>3. QED
    BY <2>1, <2>2, StoredElsewhere
<1>2. QED
  BY <1>1, ListKept

LEMMA ListAppended ==
  ASSUME NEW m, NEW data \in Addresses, NEW len \in Nat, NEW s \in Nat \ {0}, NEW f,
         ListIn(m, data, len, s, f), NEW v \in Values
  PROVE  ListIn(Stored(m, Place(data, s, len + 1), s, v), data, len + 1, s, Append(f, v))
<1> DEFINE w == Stored(m, Place(data, s, len + 1), s, v)
<1>1. ListIn(w, data, len, s, f)
  BY ListBeside
<1>2. HoldsIn(w, Place(data, s, len + 1), s, v)
  BY PlaceAddress, StoredHolds
<1> HIDE DEF w
<1>3. /\ Append(f, v) \in Seq(Values) /\ Len(Append(f, v)) = len + 1
      /\ Append(f, v)[len + 1] = v /\ \A k \in 1..len : Append(f, v)[k] = f[k]
  BY DEF ListIn
<1> DEFINE g == Append(f, v)
<1>4. ASSUME NEW k \in 1..(len + 1) PROVE HoldsIn(w, Place(data, s, k), s, g[k])
  <2>1. g[len + 1] = v /\ \A l \in 1..len : g[l] = f[l]
    BY <1>3
  <2> HIDE DEF g
  <2>2. CASE k = len + 1
    BY <1>2, <2>1, <2>2
  <2>3. CASE k \in 1..len
    BY <1>1, <2>1, <2>3 DEF ListIn
  <2>4. QED
    BY <2>2, <2>3
<1>5. ListIn(w, data, len + 1, s, g)
  <2>1. g \in Seq(Values) /\ Len(g) = len + 1
    BY <1>3
  <2> HIDE DEF g
  <2>2. QED
    BY <1>4, <2>1 DEF ListIn
<1>6. QED
  BY <1>5 DEF w

LEMMA ListRewritten ==
  ASSUME NEW m, NEW data \in Addresses, NEW len \in Nat, NEW s \in Nat \ {0}, NEW f,
         ListIn(m, data, len, s, f), NEW k \in 1..len, NEW v \in Values
  PROVE  ListIn(Stored(m, Place(data, s, k), s, v), data, len, s, [f EXCEPT ![k] = v])
<1> DEFINE w == Stored(m, Place(data, s, k), s, v)
           g == [f EXCEPT ![k] = v]
<1>1. HoldsIn(w, Place(data, s, k), s, v)
  BY PlaceAddress, StoredHolds
<1>2. ASSUME NEW l \in 1..len, l # k PROVE HoldsIn(w, Place(data, s, l), s, f[l])
  <2>1. ApartFrom(Place(data, s, k), s, Place(data, s, l), s)
    BY <1>2, ElementsApart
  <2>2. Place(data, s, k) \in Addresses /\ Place(data, s, l) \in Addresses
    BY PlaceAddress
  <2>3. SameBytes(m, w, Place(data, s, l), s)
    BY <2>1, <2>2, StoredElsewhere
  <2>4. QED
    BY <1>2, <2>3, HoldsSame DEF ListIn
<1>3. /\ g \in Seq(Values) /\ Len(g) = len /\ g[k] = v
      /\ \A l \in 1..len : l # k => g[l] = f[l]
  BY DEF ListIn
<1> HIDE DEF w, g
<1>4. ASSUME NEW l \in 1..len PROVE HoldsIn(w, Place(data, s, l), s, g[l])
  BY <1>1, <1>2, <1>3
<1>5. ListIn(w, data, len, s, g)
  BY <1>3, <1>4 DEF ListIn
<1>6. QED
  BY <1>5 DEF w, g

LEMMA ListPopped ==
  ASSUME NEW m, NEW data \in Addresses, NEW len \in Nat \ {0}, NEW s \in Nat \ {0}, NEW f,
         ListIn(m, data, len, s, f)
  PROVE  ListIn(m, data, len - 1, s, SubSeq(f, 1, len - 1))
<1>1. /\ SubSeq(f, 1, len - 1) \in Seq(Values) /\ Len(SubSeq(f, 1, len - 1)) = len - 1
      /\ \A k \in 1..(len - 1) : SubSeq(f, 1, len - 1)[k] = f[k]
  BY DEF ListIn
<1>2. QED
  BY <1>1 DEF ListIn

(* A copy of the bytes of a list is the same list.                          *)
LEMMA ListMoved ==
  ASSUME NEW m, NEW to \in Addresses, NEW from \in Addresses, NEW len \in Nat,
         NEW s \in Nat \ {0}, NEW f, ListIn(m, from, len, s, f),
         NEW size \in Nat, len * s <= size
  PROVE  ListIn(Copied(m, to, from, size), to, len, s, f)
<1> DEFINE w == Copied(m, to, from, size)
<1>1. ASSUME NEW k \in 1..len PROVE HoldsIn(w, Place(to, s, k), s, f[k])
  <2> SUFFICES ASSUME NEW n \in 0..(s - 1)
               PROVE  /\ <<Place(to, s, k).block, Place(to, s, k).at + n>> \in DOMAIN w
                      /\ w[<<Place(to, s, k).block, Place(to, s, k).at + n>>] = <<f[k], n>>
    BY DEF HoldsIn
  <2> DEFINE o == (k - 1) * s + n
  <2>1. (k - 1) * s \in Nat /\ (k - 1) * s + s <= len * s /\ len * s \in Nat
    <3>1. k - 1 \in Nat /\ k - 1 < len
      OBVIOUS
    <3>2. QED
      BY <3>1, Multiples
  <2>2. o \in 0..(size - 1)
    BY <2>1
  <2>3. /\ Place(to, s, k).block = to.block /\ Place(to, s, k).at + n = to.at + o
        /\ Place(from, s, k).block = from.block /\ Place(from, s, k).at + n = from.at + o
    BY <2>1 DEF Place, Addresses
  <2> HIDE DEF o
  <2>4. <<from.block, from.at + o>> \in DOMAIN m /\ m[<<from.block, from.at + o>>] = <<f[k], n>>
    <3>1. HoldsIn(m, Place(from, s, k), s, f[k])
      BY DEF ListIn
    <3>2. QED
      BY <2>3, <3>1 DEF HoldsIn
  <2>5. <<to.block, to.at + o>> \in DOMAIN w /\ w[<<to.block, to.at + o>>] = <<f[k], n>>
    BY <2>2, <2>4, CopiedBytes, SMTT(20)
  <2>6. QED
    BY <2>3, <2>5
<1> HIDE DEF w
<1>2. ListIn(w, to, len, s, f)
  BY <1>1 DEF ListIn
<1>3. QED
  BY <1>2 DEF w

-----------------------------------------------------------------------------
(* The invariant.  Each allocation was made for one array; an array lies in  *)
(* one made for it, and so does, now or once, what a kept address names.    *)
Base(t) == [block |-> t.block, at |-> t.at]

IsBuffer(k, a) ==
  /\ Base(taken[k]) = arrays[a].data
  /\ taken[k].size = ElemSize[a] * arrays[a].capacity

KeptIn(h, t, n) ==
  /\ [block |-> h.block, at |-> h.at] = Place(Base(t), ElemSize[h.name], n)
  /\ n * ElemSize[h.name] <= t.size

Owned(owner) ==
  /\ owner \in [DOMAIN taken -> Names]
  /\ \A a \in Names : arrays[a].capacity > 0 =>
       \E k \in DOMAIN taken : owner[k] = a /\ IsBuffer(k, a)
  /\ \A h \in held : h.name \in Names /\
       \E k \in DOMAIN taken, n \in Nat \ {0} : owner[k] = h.name /\ KeptIn(h, taken[k], n)

Arrays == [data : Addresses, len : Nat, capacity : Nat]

RInv ==
  /\ AInv
  /\ arrays \in [Names -> Arrays] /\ \A a \in Names : arrays[a].len <= arrays[a].capacity
  /\ \A a \in Names : \E f : ListIn(mem, arrays[a].data, arrays[a].len, ElemSize[a], f)
  /\ \E owner : Owned(owner)

-----------------------------------------------------------------------------
(* An array reads back the list in its memory, before a step and after.     *)
LEMMA ContentsRead ==
  ASSUME arrays \in [Names -> Arrays], NEW a \in Names, NEW f,
         ListIn(mem, arrays[a].data, arrays[a].len, ElemSize[a], f)
  PROVE  Contents(a) = f
<1>1. Contents(a) = ReadIn(mem, arrays[a].data, arrays[a].len, ElemSize[a])
  BY DEF Contents, ReadIn, Element, Place, Holds, HoldsIn
<1>2. arrays[a].data \in Addresses /\ arrays[a].len \in Nat /\ ElemSize[a] \in Nat \ {0}
  BY ArraysAssumption DEF Arrays
<1>3. QED
  BY <1>1, <1>2, ReadBack

LEMMA ContentsReadNext ==
  ASSUME arrays' \in [Names -> Arrays], NEW a \in Names, NEW f,
         ListIn(mem', arrays'[a].data, arrays'[a].len, ElemSize[a], f)
  PROVE  Contents(a)' = f
<1>1. Contents(a)' = ReadIn(mem', arrays'[a].data, arrays'[a].len, ElemSize[a])
  BY DEF Contents, ReadIn, Element, Place, Holds, HoldsIn
<1>2. arrays'[a].data \in Addresses /\ arrays'[a].len \in Nat /\ ElemSize[a] \in Nat \ {0}
  BY ArraysAssumption DEF Arrays
<1>3. QED
  BY <1>1, <1>2, ReadBack

LEMMA ContentsIn ==
  ASSUME RInv, NEW a \in Names
  PROVE  /\ ListIn(mem, arrays[a].data, arrays[a].len, ElemSize[a], Contents(a))
         /\ Contents(a) \in Seq(Values) /\ Len(Contents(a)) = arrays[a].len
<1>1. PICK f : ListIn(mem, arrays[a].data, arrays[a].len, ElemSize[a], f)
  BY DEF RInv
<1>2. Contents(a) = f
  BY <1>1, ContentsRead DEF RInv
<1>3. QED
  BY <1>1, <1>2 DEF ListIn

LEMMA ArrayShape ==
  ASSUME RInv, NEW a \in Names
  PROVE  /\ arrays[a].data \in Addresses /\ arrays[a].len \in Nat /\ arrays[a].capacity \in Nat
         /\ arrays[a].len <= arrays[a].capacity /\ ElemSize[a] \in Nat \ {0}
BY ArraysAssumption DEF RInv, Arrays

LEMMA TakenShape ==
  ASSUME RInv, NEW k \in DOMAIN taken
  PROVE  /\ taken[k] \in Allocations /\ Base(taken[k]) \in Addresses
         /\ taken[k].size \in Nat \ {0} /\ taken[k].block \in Nat /\ taken[k].at \in Nat
<1>1. taken \in Seq(Allocations)
  BY DEF RInv, AInv, ArenaTypeOK
<1>2. taken[k] \in Allocations
  BY <1>1
<1>3. QED
  BY <1>2 DEF Allocations, Base, Addresses

-----------------------------------------------------------------------------
(* Writing inside one allocation.                                          *)

(* w is mem but for bytes of t.                                            *)
WrittenIn(t, w) ==
  \A q \in Addresses : \A length \in Nat :
    ApartFrom(Base(t), t.size, q, length) => SameBytes(mem, w, q, length)

LEMMA StoredInside ==
  ASSUME NEW t \in Allocations, NEW s \in Nat \ {0}, NEW n \in Nat \ {0}, n * s <= t.size, NEW v
  PROVE  WrittenIn(t, Stored(mem, Place(Base(t), s, n), s, v))
<1> SUFFICES ASSUME NEW q \in Addresses, NEW length \in Nat, ApartFrom(Base(t), t.size, q, length)
             PROVE  SameBytes(mem, Stored(mem, Place(Base(t), s, n), s, v), q, length)
  BY DEF WrittenIn
<1>1. Base(t) \in Addresses /\ t.size \in Nat /\ Base(t).block = t.block /\ Base(t).at = t.at
  BY DEF Base, Addresses, Allocations
<1>2. /\ Place(Base(t), s, n) \in Addresses /\ Place(Base(t), s, n).block = Base(t).block
      /\ Place(Base(t), s, n).at = Base(t).at + (n - 1) * s /\ (n - 1) * s \in Nat
  BY <1>1, PlaceAddress
<1>3. (n - 1) * s + s <= t.size
  <2>1. n - 1 \in Nat /\ n - 1 < n /\ n * s \in Nat
    BY Multiples
  <2>2. (n - 1) * s + s <= n * s
    BY <2>1, Multiples
  <2>3. QED
    BY <1>1, <1>2, <2>1, <2>2
<1>4. ApartFrom(Place(Base(t), s, n), s, q, length)
  BY <1>1, <1>2, <1>3 DEF ApartFrom, Addresses
<1>5. QED
  BY <1>2, <1>4, StoredElsewhere

(* It leaves the lists alone that lie elsewhere.                            *)
LEMMA OthersKept ==
  ASSUME RInv, NEW b \in Names, NEW t \in Allocations, NEW w, WrittenIn(t, w),
         NEW owner, Owned(owner),
         \A k \in DOMAIN taken : owner[k] = b /\ IsBuffer(k, b) => Apart(t, taken[k])
  PROVE  ListIn(w, arrays[b].data, arrays[b].len, ElemSize[b], Contents(b))
<1> DEFINE data == arrays[b].data
           len == arrays[b].len
           s == ElemSize[b]
<1>1. data \in Addresses /\ len \in Nat /\ s \in Nat \ {0} /\ len <= arrays[b].capacity
      /\ arrays[b].capacity \in Nat
  BY ArrayShape
<1>2. ListIn(mem, data, len, s, Contents(b))
  BY ContentsIn
<1> HIDE DEF data, len, s
<1>3. ASSUME NEW l \in 1..len PROVE SameBytes(mem, w, Place(data, s, l), s)
  <2>1. PICK k \in DOMAIN taken : owner[k] = b /\ IsBuffer(k, b)
    BY <1>1 DEF Owned
  <2>2. Apart(t, taken[k]) /\ Base(taken[k]) = data /\ taken[k].size = s * arrays[b].capacity
    BY <2>1 DEF IsBuffer, data, s
  <2>3. taken[k].block = data.block /\ taken[k].at = data.at /\ taken[k].size \in Nat
    BY <2>2, TakenShape DEF Base
  <2>4. /\ Place(data, s, l) \in Addresses /\ Place(data, s, l).block = data.block
        /\ Place(data, s, l).at = data.at + (l - 1) * s /\ (l - 1) * s \in Nat
    BY <1>1, PlaceAddress
  <2>5. (l - 1) * s + s <= taken[k].size
    <3>1. l - 1 \in Nat /\ l - 1 < arrays[b].capacity
      BY <1>1
    <3>2. (l - 1) * s + s <= arrays[b].capacity * s
      BY <1>1, <3>1, Multiples
    <3>3. arrays[b].capacity * s = s * arrays[b].capacity
      BY <1>1
    <3>4. QED
      BY <2>2, <3>2, <3>3
  <2>6. ApartFrom(Base(t), t.size, Place(data, s, l), s)
    BY <1>1, <2>2, <2>3, <2>4, <2>5 DEF Apart, ApartFrom, Base, Addresses, Allocations
  <2>7. QED
    BY <1>1, <2>4, <2>6 DEF WrittenIn
<1>4. ListIn(w, data, len, s, Contents(b))
  BY <1>1, <1>2, <1>3, ListKept
<1>5. QED
  BY <1>4 DEF data, len, s

-----------------------------------------------------------------------------
(* A step of the arrays is a step of the lists.                            *)
Abstract == [a \in Names |-> Contents(a)]

Simulated == RInv' /\ (L!Next \/ UNCHANGED Abstract)

LEMMA OneChanged ==
  ASSUME NEW a \in Names, \A b \in Names \ {a} : Contents(b)' = Contents(b),
         \/ L!Extended(Contents(a), Contents(a)')
         \/ L!Popped(Contents(a), Contents(a)')
         \/ L!Stored(Contents(a), Contents(a)')
  PROVE  L!Next
<1> DEFINE before == [b \in Names |-> Contents(b)]
           after == [b \in Names |-> Contents(b)']
<1>1. before[a] = Contents(a) /\ after[a] = Contents(a)'
  OBVIOUS
<1>2. \A b \in Names \ {a} : after[b] = before[b]
  OBVIOUS
<1>3. \/ L!Extended(before[a], after[a])
      \/ L!Popped(before[a], after[a])
      \/ L!Stored(before[a], after[a])
  BY <1>1
<1>4. QED
  BY <1>2, <1>3 DEF L!Next

LEMMA NoneChanged ==
  ASSUME \A b \in Names : Contents(b)' = Contents(b)
  PROVE  UNCHANGED Abstract
BY DEF Abstract

(* Buffers and kept addresses where nothing was allocated.                 *)
LEMMA OwnedStill ==
  ASSUME NEW owner, Owned(owner), UNCHANGED <<taken, held>>,
         \A a \in Names : /\ arrays'[a].data = arrays[a].data
                          /\ arrays'[a].capacity = arrays[a].capacity
  PROVE  Owned(owner)'
BY DEF Owned, IsBuffer, KeptIn

LEMMA AppendedInPlace ==
  ASSUME RInv, AInv', NEW a \in Names, NEW v \in Values, ~Full(arrays[a]),
         arrays' = [arrays EXCEPT ![a].len = @ + 1],
         mem' = Stored(mem, Element(a, arrays[a].len + 1), ElemSize[a], v),
         UNCHANGED <<avars, held>>
  PROVE  Simulated
<1> DEFINE data == arrays[a].data
           len == arrays[a].len
           s == ElemSize[a]
<1>1. /\ data \in Addresses /\ len \in Nat /\ s \in Nat \ {0}
      /\ arrays[a].capacity \in Nat /\ len + 1 <= arrays[a].capacity
  BY ArrayShape DEF Full
<1>2. /\ arrays' \in [Names -> Arrays]
      /\ arrays'[a].data = data /\ arrays'[a].len = len + 1
      /\ \A b \in Names : /\ arrays'[b].data = arrays[b].data
                          /\ arrays'[b].capacity = arrays[b].capacity
      /\ \A b \in Names \ {a} : arrays'[b] = arrays[b]
  BY DEF RInv, Arrays
<1>3. mem' = Stored(mem, Place(data, s, len + 1), s, v)
  BY <1>1 DEF Element, Place
<1> HIDE DEF data, len, s
<1>4. PICK owner : Owned(owner)
  BY DEF RInv
<1>5. Owned(owner)'
  BY <1>2, <1>4, OwnedStill DEF avars
<1>6. PICK k \in DOMAIN taken : owner[k] = a /\ IsBuffer(k, a)
  BY <1>1, <1>4 DEF Owned
<1>7. WrittenIn(taken[k], mem')
  <2>1. taken[k] \in Allocations /\ Base(taken[k]) = data
        /\ taken[k].size = s * arrays[a].capacity
    BY <1>6, TakenShape DEF IsBuffer, data, s
  <2>2. (len + 1) * s <= taken[k].size
    <3>1. len + 1 \in Nat /\ (len + 1) * s <= arrays[a].capacity * s
      BY <1>1, Multiples
    <3>2. QED
      BY <1>1, <2>1, <3>1
  <2>3. WrittenIn(taken[k], Stored(mem, Place(Base(taken[k]), s, len + 1), s, v))
    <3>1. len + 1 \in Nat \ {0}
      BY <1>1
    <3>2. QED
      BY <1>1, <2>1, <2>2, <3>1, StoredInside
  <2>4. QED
    BY <1>3, <2>1, <2>3
<1>8. ASSUME NEW b \in Names \ {a}
      PROVE  ListIn(mem', arrays'[b].data, arrays'[b].len, ElemSize[b], Contents(b))
  <2>1. \A l \in DOMAIN taken : owner[l] = b /\ IsBuffer(l, b) => Apart(taken[k], taken[l])
    BY <1>6 DEF RInv, AInv, Disjoint
  <2>2. taken[k] \in Allocations
    BY TakenShape
  <2>3. ListIn(mem', arrays[b].data, arrays[b].len, ElemSize[b], Contents(b))
    BY <1>4, <1>7, <2>1, <2>2, OthersKept
  <2>4. QED
    BY <1>2, <2>3
<1>9. ListIn(mem', arrays'[a].data, arrays'[a].len, ElemSize[a], Append(Contents(a), v))
  <2>1. ListIn(mem, data, len, s, Contents(a))
    BY ContentsIn DEF data, len, s
  <2>2. ListIn(mem', data, len + 1, s, Append(Contents(a), v))
    BY <1>1, <1>3, <2>1, ListAppended
  <2>3. QED
    BY <1>2, <2>2 DEF s
<1>10. Contents(a)' = Append(Contents(a), v)
  BY <1>2, <1>9, ContentsReadNext
<1>11. \A b \in Names \ {a} : Contents(b)' = Contents(b)
  BY <1>2, <1>8, ContentsReadNext
<1>12. L!Next
  <2>1. L!Extended(Contents(a), Contents(a)')
    BY <1>10 DEF L!Extended
  <2>2. QED
    BY <1>11, <2>1, OneChanged
<1>13. RInv'
  <2>1. \A b \in Names : arrays'[b].len <= arrays'[b].capacity
    BY <1>1, <1>2 DEF RInv
  <2>2. \A b \in Names : \E f : ListIn(mem', arrays'[b].data, arrays'[b].len, ElemSize[b], f)
    BY <1>8, <1>9
  <2>3. QED
    BY <1>2, <1>5, <2>1, <2>2 DEF RInv
<1>14. QED
  BY <1>12, <1>13 DEF Simulated

LEMMA PoppedStep ==
  ASSUME RInv, AInv', NEW a \in Names, da_pop(a)
  PROVE  Simulated
<1> DEFINE data == arrays[a].data
           len == arrays[a].len
           s == ElemSize[a]
           f == SubSeq(Contents(a), 1, len - 1)
<1>1. /\ data \in Addresses /\ len \in Nat \ {0} /\ s \in Nat \ {0}
      /\ arrays[a].capacity \in Nat /\ len <= arrays[a].capacity
  BY ArrayShape DEF da_pop
<1>2. /\ arrays' \in [Names -> Arrays]
      /\ arrays'[a].data = data /\ arrays'[a].len = len - 1
      /\ \A b \in Names : /\ arrays'[b].data = arrays[b].data
                          /\ arrays'[b].capacity = arrays[b].capacity
      /\ \A b \in Names \ {a} : arrays'[b] = arrays[b]
  BY DEF RInv, Arrays, da_pop
<1>3. mem' = mem /\ UNCHANGED <<taken, held>>
  BY DEF da_pop, avars
<1>4. ListIn(mem', arrays'[a].data, arrays'[a].len, ElemSize[a], f)
  <2>1. ListIn(mem, data, len, s, Contents(a))
    BY ContentsIn
  <2> HIDE DEF data, len, s
  <2>2. ListIn(mem, data, len - 1, s, SubSeq(Contents(a), 1, len - 1))
    BY <1>1, <2>1, ListPopped
  <2>3. QED
    BY <1>2, <1>3, <2>2 DEF s
<1>5. Contents(a)' = f
  BY <1>2, <1>4, ContentsReadNext
<1>6. ASSUME NEW b \in Names \ {a}
      PROVE  /\ ListIn(mem', arrays'[b].data, arrays'[b].len, ElemSize[b], Contents(b))
             /\ Contents(b)' = Contents(b)
  <2>1. ListIn(mem', arrays'[b].data, arrays'[b].len, ElemSize[b], Contents(b))
    BY <1>2, <1>3, ContentsIn
  <2>2. QED
    BY <1>2, <2>1, ContentsReadNext
<1>7. L!Next
  <2>1. Contents(a) \in Seq(Values) /\ Len(Contents(a)) = len
    BY ContentsIn
  <2>2. Contents(a) # <<>>
    BY <1>1, <2>1
  <2>3. L!Popped(Contents(a), Contents(a)')
    BY <1>5, <2>1, <2>2 DEF L!Popped
  <2>4. QED
    BY <1>6, <2>3, OneChanged
<1>8. RInv'
  <2>1. \E owner : Owned(owner)'
    BY <1>2, <1>3, OwnedStill DEF RInv
  <2>2. \A b \in Names : arrays'[b].len <= arrays'[b].capacity
    BY <1>1, <1>2 DEF RInv
  <2>3. \A b \in Names : \E g : ListIn(mem', arrays'[b].data, arrays'[b].len, ElemSize[b], g)
    BY <1>4, <1>6
  <2>4. QED
    BY <1>2, <2>1, <2>2, <2>3 DEF RInv
<1>9. QED
  BY <1>7, <1>8 DEF Simulated

(* The address of an element in use lies in the array's buffer.             *)
LEMMA LastStep ==
  ASSUME RInv, AInv', NEW a \in Names, da_last(a)
  PROVE  Simulated
<1> DEFINE data == arrays[a].data
           len == arrays[a].len
           s == ElemSize[a]
           p == Element(a, len)
           h == [name |-> a, block |-> p.block, at |-> p.at]
<1>1. /\ data \in Addresses /\ len \in Nat \ {0} /\ s \in Nat \ {0}
      /\ arrays[a].capacity \in Nat /\ len <= arrays[a].capacity
  BY ArrayShape DEF da_last
<1>2. held' = held \cup {h} /\ UNCHANGED <<taken, mem, arrays>>
  BY DEF da_last, avars
<1>3. PICK owner : Owned(owner)
  BY DEF RInv
<1>4. PICK k \in DOMAIN taken : owner[k] = a /\ IsBuffer(k, a)
  BY <1>1, <1>3 DEF Owned
<1>5. h.name = a /\ KeptIn(h, taken[k], len)
  <2>1. /\ [block |-> h.block, at |-> h.at] = Place(data, s, len)
        /\ h.name = a
    BY DEF Element, Place
  <2>2. len * s <= taken[k].size
    <3> HIDE DEF len, s
    <3>1. len * s <= arrays[a].capacity * s
      BY <1>1, Multiples
    <3>2. taken[k].size = s * arrays[a].capacity
      BY <1>4 DEF IsBuffer, s
    <3>3. QED
      BY <1>1, <3>1, <3>2
  <2>3. QED
    BY <1>4, <2>1, <2>2 DEF KeptIn, IsBuffer
<1> HIDE DEF h, len, data, s, p
<1>6. Owned(owner)'
  <2>1. \A g \in held' : g.name \in Names /\
           \E l \in DOMAIN taken, n \in Nat \ {0} : owner[l] = g.name /\ KeptIn(g, taken[l], n)
    BY <1>1, <1>2, <1>3, <1>4, <1>5 DEF Owned
  <2>2. QED
    BY <1>2, <1>3, <2>1 DEF Owned, IsBuffer, KeptIn
<1>7. RInv'
  BY <1>2, <1>6 DEF RInv
<1>8. \A b \in Names : Contents(b)' = Contents(b)
  BY <1>2 DEF Contents, Element, Holds
<1>9. QED
  BY <1>7, <1>8, NoneChanged DEF Simulated

(* A store through a kept address changes the element it names, if the array *)
(* is still there, and nothing else.                                       *)
LEMMA StoreStep ==
  ASSUME RInv, AInv', NEW h \in held, NEW v \in Values, StoreHeld(h, v)
  PROVE  Simulated
<1> DEFINE a == h.name
           data == arrays[a].data
           len == arrays[a].len
           s == ElemSize[a]
<1>1. UNCHANGED <<taken, arrays, held>>
  BY DEF StoreHeld, avars
<1>2. PICK owner : Owned(owner)
  BY DEF RInv
<1>3. a \in Names
  BY <1>2 DEF Owned
<1>4. PICK k \in DOMAIN taken, n \in Nat \ {0} : owner[k] = a /\ KeptIn(h, taken[k], n)
  BY <1>2 DEF Owned
<1>5. /\ data \in Addresses /\ len \in Nat /\ s \in Nat \ {0}
  BY <1>3, ArrayShape
<1>6. mem' = Stored(mem, Place(Base(taken[k]), s, n), s, v)
  BY <1>4 DEF StoreHeld, KeptIn
<1>7. taken[k] \in Allocations
  BY TakenShape
<1>8. WrittenIn(taken[k], mem')
  <2>1. n * s <= taken[k].size
    BY <1>4 DEF KeptIn
  <2> HIDE DEF s
  <2>2. QED
    BY <1>5, <1>6, <1>7, <2>1, StoredInside
<1>9. ASSUME NEW b \in Names, b # a \/ ~IsBuffer(k, a)
      PROVE  ListIn(mem', arrays'[b].data, arrays'[b].len, ElemSize[b], Contents(b))
  <2>1. \A l \in DOMAIN taken : owner[l] = b /\ IsBuffer(l, b) => Apart(taken[k], taken[l])
    BY <1>4, <1>9 DEF RInv, AInv, Disjoint
  <2>2. ListIn(mem', arrays[b].data, arrays[b].len, ElemSize[b], Contents(b))
    BY <1>2, <1>7, <1>8, <2>1, OthersKept
  <2>3. QED
    BY <1>1, <2>2
<1>10. Owned(owner)'
  BY <1>1, <1>2, OwnedStill
<1>11. arrays' \in [Names -> Arrays] /\ \A b \in Names : arrays'[b].len <= arrays'[b].capacity
  BY <1>1 DEF RInv
<1>12. \A b \in Names : b # a \/ ~IsBuffer(k, a) => Contents(b)' = Contents(b)
  BY <1>9, <1>11, ContentsReadNext
<1>13. ASSUME NEW g, ListIn(mem', arrays'[a].data, arrays'[a].len, ElemSize[a], g)
       PROVE  RInv' /\ Contents(a)' = g
  <2>1. Contents(a)' = g
    BY <1>3, <1>11, <1>13, ContentsReadNext
  <2>2. \A b \in Names : \E f : ListIn(mem', arrays'[b].data, arrays'[b].len, ElemSize[b], f)
    BY <1>9, <1>13
  <2>3. QED
    BY <1>10, <1>11, <2>1, <2>2 DEF RInv
<1>14. CASE ~IsBuffer(k, a)
  <2>1. RInv'
    BY <1>3, <1>9, <1>13, <1>14
  <2>2. \A b \in Names : Contents(b)' = Contents(b)
    BY <1>12, <1>14
  <2>3. QED
    BY <2>1, <2>2, NoneChanged DEF Simulated
<1>15. CASE IsBuffer(k, a)
  <2>1. ListIn(mem, data, len, s, Contents(a))
    BY <1>3, ContentsIn
  <2>2. mem' = Stored(mem, Place(data, s, n), s, v)
    BY <1>6, <1>15 DEF IsBuffer
  <2>3. \A b \in Names \ {a} : Contents(b)' = Contents(b)
    BY <1>12
  <2>4. CASE n > len
    <3>1. ListIn(mem', data, len, s, Contents(a))
      <4> HIDE DEF data, len, s, a
      <4>1. QED
        BY <1>5, <2>1, <2>2, <2>4, ListBeside
    <3>2. RInv' /\ Contents(a)' = Contents(a)
      BY <1>1, <1>13, <3>1
    <3>3. QED
      BY <2>3, <3>2, NoneChanged DEF Simulated
  <2>5. CASE n \in 1..len
    <3> DEFINE g == [Contents(a) EXCEPT ![n] = v]
    <3>1. ListIn(mem', data, len, s, g)
      <4> HIDE DEF data, len, s, a
      <4>1. QED
        BY <1>5, <2>1, <2>2, <2>5, ListRewritten
    <3>2. RInv' /\ Contents(a)' = g
      BY <1>1, <1>13, <3>1
    <3>3. Contents(a) \in Seq(Values) /\ Len(Contents(a)) = len /\ n \in DOMAIN Contents(a)
      BY <1>3, <1>5, <2>5, ContentsIn
    <3>4. g[n] = v
      BY <3>3
    <3>5. L!Stored(Contents(a), Contents(a)')
      BY <3>2, <3>3, <3>4 DEF L!Stored
    <3>6. QED
      BY <1>3, <2>3, <3>2, <3>5, OneChanged DEF Simulated
  <2>6. QED
    BY <1>5, <2>4, <2>5
<1>16. QED
  BY <1>14, <1>15

(* The new allocation: none of the old ones, and none of their bytes.      *)
LEMMA NewlyTaken ==
  ASSUME RInv, AInv', NEW size \in Nat \ {0}, arena_alloc(size)
  PROVE  \E t \in Allocations :
           /\ Base(t) = Pointer(size) /\ t.size = size
           /\ DOMAIN taken' = DOMAIN taken \cup {Len(taken) + 1}
           /\ Len(taken) + 1 \notin DOMAIN taken
           /\ \A k \in DOMAIN taken : taken'[k] = taken[k] /\ Apart(t, taken[k])
           /\ taken'[Len(taken) + 1] = t
<1> DEFINE t == [block |-> Pointer(size).block, at |-> Pointer(size).at, size |-> size]
<1>1. taken' = Append(taken, t)
  BY DEF arena_alloc
<1>2. Base(t) = Pointer(size) /\ t.size = size
  BY DEF Base, Pointer
<1> HIDE DEF t
<1>3. taken \in Seq(Allocations) /\ taken' \in Seq(Allocations)
  BY DEF RInv, AInv, ArenaTypeOK
<1>4. /\ DOMAIN taken' = DOMAIN taken \cup {Len(taken) + 1}
      /\ Len(taken) + 1 \notin DOMAIN taken
      /\ \A k \in DOMAIN taken : taken'[k] = taken[k]
      /\ taken'[Len(taken) + 1] = t
  <2>1. Len(taken) \in Nat /\ DOMAIN taken = 1..Len(taken) /\ Len(taken') = Len(taken) + 1
    BY <1>1, <1>3
  <2>2. QED
    BY <1>1, <1>3, <2>1
<1>5. t \in Allocations
  BY <1>3, <1>4
<1>6. \A k \in DOMAIN taken : Apart(t, taken[k])
  BY <1>4 DEF AInv, Disjoint
<1>7. QED
  BY <1>2, <1>4, <1>5, <1>6

LEMMA AppendedMoved ==
  ASSUME RInv, AInv', NEW a \in Names, NEW v \in Values, Full(arrays[a]),
         NEW capacity, capacity = Doubled(arrays[a].capacity),
         NEW data, data = Pointer(ElemSize[a] * capacity),
         arena_alloc(ElemSize[a] * capacity),
         arrays' = [arrays EXCEPT ![a] =
                      [data |-> data, len |-> arrays[a].len + 1, capacity |-> capacity]],
         mem' = Stored(Moved(a, data), [data EXCEPT !.at = @ + arrays[a].len * ElemSize[a]],
                       ElemSize[a], v),
         UNCHANGED held
  PROVE  Simulated
<1> DEFINE from == arrays[a].data
           len == arrays[a].len
           s == ElemSize[a]
           old == s * arrays[a].capacity
           moved == Copied(mem, data, from, old)
<1>1. /\ from \in Addresses /\ len \in Nat /\ s \in Nat \ {0}
      /\ arrays[a].capacity \in Nat /\ len = arrays[a].capacity
  BY ArrayShape DEF Full
<1>2. capacity \in Nat \ {0} /\ len + 1 <= capacity /\ arrays[a].capacity <= capacity
  BY <1>1 DEF Doubled
<1>3. /\ s * capacity \in Nat \ {0} /\ capacity * s = s * capacity
      /\ old \in Nat /\ len * s = old /\ old <= s * capacity
      /\ (len + 1) * s <= s * capacity
  <2> HIDE DEF s, len
  <2>1. /\ arrays[a].capacity * s <= capacity * s /\ arrays[a].capacity * s \in Nat
        /\ (len + 1) * s <= capacity * s
    <3>1. len + 1 \in Nat /\ capacity \in Nat
      BY <1>1, <1>2
    <3>2. QED
      BY <1>1, <1>2, <3>1, Multiples
  <2>2. s * capacity \in Nat \ {0} /\ capacity * s = s * capacity
    BY <1>1, <1>2
  <2>3. arrays[a].capacity * s = s * arrays[a].capacity
    BY <1>1
  <2>4. QED
    BY <1>1, <2>1, <2>2, <2>3
<1>4. PICK t \in Allocations :
        /\ Base(t) = data /\ t.size = s * capacity
        /\ DOMAIN taken' = DOMAIN taken \cup {Len(taken) + 1}
        /\ Len(taken) + 1 \notin DOMAIN taken
        /\ \A k \in DOMAIN taken : taken'[k] = taken[k] /\ Apart(t, taken[k])
        /\ taken'[Len(taken) + 1] = t
  BY <1>3, NewlyTaken
<1>5. data \in Addresses /\ data = [block |-> t.block, at |-> t.at]
  BY <1>4 DEF Base, Addresses, Allocations
<1>6. mem' = Stored(moved, Place(data, s, len + 1), s, v)
  <2>1. [data EXCEPT !.at = @ + len * s] = Place(data, s, len + 1)
    <3>1. (len + 1) - 1 = len
      BY <1>1
    <3>2. QED
      BY <1>5, <3>1 DEF Place
  <2>2. QED
    BY <2>1 DEF Moved
<1>7. /\ arrays' \in [Names -> Arrays]
      /\ arrays'[a].data = data /\ arrays'[a].len = len + 1 /\ arrays'[a].capacity = capacity
      /\ \A b \in Names \ {a} : arrays'[b] = arrays[b]
  BY <1>1, <1>2, <1>5 DEF RInv, Arrays
<1>8. PICK owner : Owned(owner)
  BY DEF RInv
<1>9. WrittenIn(t, mem')
  <2> SUFFICES ASSUME NEW q \in Addresses, NEW length \in Nat,
                      ApartFrom(data, s * capacity, q, length)
               PROVE  SameBytes(mem, mem', q, length)
    BY <1>4 DEF WrittenIn
  <2> HIDE DEF s, len, old, from
  <2>1. ApartFrom(data, old, q, length)
    BY <1>3, <1>5 DEF ApartFrom, Addresses, Allocations
  <2>2. SameBytes(mem, moved, q, length)
    BY <1>1, <1>3, <1>5, <2>1, CopiedElsewhere
  <2>3. /\ Place(data, s, len + 1) \in Addresses
        /\ ApartFrom(Place(data, s, len + 1), s, q, length)
    <3>1. len + 1 \in Nat \ {0} /\ (len + 1) - 1 = len
      BY <1>1
    <3>2. /\ Place(data, s, len + 1) \in Addresses /\ len * s \in Nat
          /\ Place(data, s, len + 1).block = data.block
          /\ Place(data, s, len + 1).at = data.at + len * s
      BY <1>1, <1>5, <3>1, PlaceAddress
    <3>3. (len + 1) * s = len * s + s
      BY <1>1, Multiples
    <3>4. QED
      BY <1>1, <1>3, <1>5, <3>2, <3>3 DEF ApartFrom, Addresses
  <2>4. SameBytes(moved, mem', q, length)
    <3> HIDE DEF moved
    <3>1. QED
      BY <1>1, <1>6, <2>3, StoredElsewhere
  <2>5. QED
    BY <2>2, <2>4 DEF SameBytes
<1>10. ASSUME NEW b \in Names \ {a}
       PROVE  ListIn(mem', arrays'[b].data, arrays'[b].len, ElemSize[b], Contents(b))
  <2>1. ListIn(mem', arrays[b].data, arrays[b].len, ElemSize[b], Contents(b))
    BY <1>4, <1>8, <1>9, OthersKept
  <2>2. QED
    BY <1>7, <2>1
<1>11. ListIn(mem', arrays'[a].data, arrays'[a].len, ElemSize[a], Append(Contents(a), v))
  <2>1. ListIn(mem, from, len, s, Contents(a))
    BY ContentsIn
  <2> HIDE DEF s, len, old, from
  <2>2. ListIn(moved, data, len, s, Contents(a))
    BY <1>1, <1>3, <1>5, <2>1, ListMoved
  <2>3. ListIn(mem', data, len + 1, s, Append(Contents(a), v))
    <3> HIDE DEF moved
    <3>1. QED
      BY <1>1, <1>5, <1>6, <2>2, ListAppended
  <2>4. QED
    BY <1>7, <2>3 DEF s
<1>12. Contents(a)' = Append(Contents(a), v)
  BY <1>7, <1>11, ContentsReadNext
<1>13. \A b \in Names \ {a} : Contents(b)' = Contents(b)
  BY <1>7, <1>10, ContentsReadNext
<1>14. L!Next
  <2>1. L!Extended(Contents(a), Contents(a)')
    BY <1>12 DEF L!Extended
  <2>2. QED
    BY <1>13, <2>1, OneChanged
<1>15. \E o : Owned(o)'
  <2> DEFINE new == Len(taken) + 1
             grown == [k \in DOMAIN taken' |-> IF k = new THEN a ELSE owner[k]]
  <2>1. /\ grown \in [DOMAIN taken' -> Names] /\ grown[new] = a
        /\ \A k \in DOMAIN taken : grown[k] = owner[k] /\ taken'[k] = taken[k]
                                   /\ k \in DOMAIN taken'
    BY <1>4, <1>8 DEF Owned
  <2>2. new \in DOMAIN taken' /\ taken'[new] = t
    BY <1>4
  <2> HIDE DEF grown, new
  <2>3. ASSUME NEW b \in Names, arrays'[b].capacity > 0
        PROVE  \E k \in DOMAIN taken' : grown[k] = b /\ IsBuffer(k, b)'
    <3>1. CASE b = a
      BY <1>4, <1>7, <2>1, <2>2, <3>1 DEF IsBuffer
    <3>2. CASE b # a
      <4>1. PICK k \in DOMAIN taken : owner[k] = b /\ IsBuffer(k, b)
        BY <1>7, <1>8, <2>3, <3>2 DEF Owned
      <4>2. QED
        BY <1>7, <2>1, <3>2, <4>1 DEF IsBuffer
    <3>3. QED
      BY <3>1, <3>2
  <2>4. ASSUME NEW h \in held'
        PROVE  /\ h.name \in Names
               /\ \E k \in DOMAIN taken', n \in Nat \ {0} :
                    grown[k] = h.name /\ KeptIn(h, taken'[k], n)
    <3>1. /\ h.name \in Names
          /\ \E k \in DOMAIN taken, n \in Nat \ {0} : owner[k] = h.name /\ KeptIn(h, taken[k], n)
      BY <1>8 DEF Owned
    <3>2. QED
      BY <2>1, <3>1
  <2>5. QED
    BY <2>1, <2>3, <2>4 DEF Owned
<1>16. RInv'
  <2>1. \A b \in Names : arrays'[b].len <= arrays'[b].capacity
    BY <1>2, <1>7 DEF RInv
  <2>2. \A b \in Names : \E f : ListIn(mem', arrays'[b].data, arrays'[b].len, ElemSize[b], f)
    BY <1>10, <1>11
  <2>3. QED
    BY <1>7, <1>15, <2>1, <2>2 DEF RInv
<1>17. QED
  BY <1>14, <1>16 DEF Simulated

LEMMA AppendStep ==
  ASSUME RInv, AInv', NEW a \in Names, NEW v \in Appended(arrays[a].len), da_append(a, v)
  PROVE  Simulated
<1>1. v \in Values
  <2>1. arrays[a].len < MaxLen[a] /\ MaxLen[a] \in Nat /\ arrays[a].len \in Nat
    BY ArraysAssumption, ArrayShape DEF da_append
  <2>2. arrays[a].len \in 0..(MaxLen[a] - 1)
    BY <2>1
  <2>3. QED
    BY <2>2, ArraysAssumption
<1>2. CASE Full(arrays[a])
  BY <1>1, <1>2, AppendedMoved DEF da_append
<1>3. CASE ~Full(arrays[a])
  BY <1>1, <1>3, AppendedInPlace DEF da_append
<1>4. QED
  BY <1>2, <1>3

LEMMA RInvInit == ASSUME Init PROVE RInv /\ L!Init
<1>1. /\ taken = <<>> /\ held = {} /\ AInv
      /\ arrays = [a \in Names |-> [data |-> NULL, len |-> 0, capacity |-> 0]]
  BY AInvInit DEF Init, ArenaInit
<1>2. /\ arrays \in [Names -> Arrays]
      /\ \A a \in Names : arrays[a].len = 0 /\ arrays[a].capacity = 0
  BY <1>1 DEF Arrays, Addresses, NULL
<1>3. ASSUME NEW a \in Names
      PROVE  ListIn(mem, arrays[a].data, arrays[a].len, ElemSize[a], <<>>)
  <2>1. <<>> \in Seq(Values) /\ Len(<<>>) = 0 /\ 1..0 = {}
    OBVIOUS
  <2>2. QED
    BY <1>2, <2>1 DEF ListIn
<1>4. \E owner : Owned(owner)
  <2> DEFINE owner == [k \in DOMAIN taken |-> CHOOSE a \in Names : TRUE]
  <2>1. DOMAIN taken = {}
    BY <1>1
  <2>2. owner \in [DOMAIN taken -> Names]
    BY <2>1
  <2> HIDE DEF owner
  <2>3. Owned(owner)
    BY <1>1, <1>2, <2>2 DEF Owned
  <2>4. QED
    BY <2>3
<1>5. RInv
  BY <1>1, <1>2, <1>3, <1>4 DEF RInv
<1>6. \A a \in Names : Contents(a) = <<>>
  BY <1>2, <1>3, ContentsRead
<1>7. L!Init
  BY <1>6 DEF L!Init
<1>8. QED
  BY <1>5, <1>7

LEMMA StepSimulated ==
  ASSUME RInv, [Next]_dvars
  PROVE  Simulated
<1>1. AInv'
  <2>1. ArraysInv
    BY DEF RInv, Arrays, ArraysInv
  <2>2. QED
    BY <2>1, NextKeeps DEF RInv
<1>2. CASE \E a \in Names : \E v \in Appended(arrays[a].len) : da_append(a, v)
  BY <1>1, <1>2, AppendStep
<1>3. CASE \E a \in Names : da_pop(a)
  BY <1>1, <1>3, PoppedStep
<1>4. CASE \E a \in Names : da_last(a)
  BY <1>1, <1>4, LastStep
<1>5. CASE \E h \in held, v \in Rewritten : StoreHeld(h, v)
  BY <1>1, <1>5, StoreStep, ArraysAssumption
<1>6. CASE UNCHANGED dvars
  <2>1. UNCHANGED <<taken, mem, arrays, held>>
    BY <1>6 DEF dvars, avars
  <2>2. \A a \in Names : Contents(a)' = Contents(a)
    BY <2>1 DEF Contents, Element, Holds
  <2>3. RInv'
    BY <1>1, <2>1 DEF RInv, Owned, IsBuffer
  <2>4. QED
    BY <2>2, <2>3, NoneChanged DEF Simulated
<1>7. QED
  BY <1>2, <1>3, <1>4, <1>5, <1>6 DEF Next

(* The arrays of src/src/da.h are lists, each of its own: whatever is          *)
(* appended, popped or stored through the address of an element kept since    *)
(* before the array moved, the arrays that share the arena read back as the   *)
(* lists that Lists.tla promises.                                          *)
THEOREM ListsImplemented == Spec => ImplementsLists
<1>1. Init => RInv /\ L!Init
  BY RInvInit
<1>2. RInv /\ [Next]_dvars => RInv' /\ [L!Next]_Abstract
  BY StepSimulated DEF Simulated
<1>3. QED
  BY <1>1, <1>2, PTL DEF Spec, ImplementsLists, L!Spec, Abstract
=============================================================================
