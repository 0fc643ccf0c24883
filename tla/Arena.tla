------------------------------- MODULE Arena -------------------------------
(***************************************************************************)
(* The bump allocator of src/src/arena.h: a chain of blocks, of which only  *)
(* the last gives memory out.  Addresses are pairs of block and offset.     *)
(***************************************************************************)
EXTENDS Integers, Sequences

CONSTANT Block      \* bytes in a block, unless one allocation needs more

ASSUME BlockAssumption == Block \in Nat \ {0}

VARIABLES
  blocks,       \* [allocated, capacity]; capacity 0: data is still NULL
  taken         \* all that arena_alloc() has returned, in order: [block, at, size]

avars == <<blocks, taken>>

ArenaInit == blocks = <<[allocated |-> 0, capacity |-> 0]>> /\ taken = <<>>

(* Mutant: it forgets what was allocated before.                           *)
OpenedAnew(b, size) ==
  [allocated |-> 0, capacity |-> IF Block > size THEN Block ELSE size * 2]

(* Mutant: blocks all have one size.                                       *)
OpenedAlike(b, size) ==
  IF b.capacity # 0 THEN b ELSE [allocated |-> 0, capacity |-> Block]

(* A block that has memory, taking it from calloc() on first use.          *)
Opened(b, size) ==
  IF b.capacity # 0 THEN b
  ELSE [allocated |-> 0, capacity |-> IF Block > size THEN Block ELSE size * 2]

Padding(b, size) == (size - (b.allocated % size)) % size

(* Mutant: the padding is not used up.                                     *)
TopUnpadded(b, size) == b.allocated + size

(* The end of the next allocation.                                         *)
Top(b, size) == b.allocated + size + Padding(b, size)

Last == Len(blocks)

(* The address arena_alloc() answers: in the last block, or, when it is too *)
(* full, in a new one, which starts empty.                                 *)
Pointer(size) ==
  LET b == Opened(blocks[Last], size)
  IN  IF Top(b, size) <= b.capacity
      THEN [block |-> Last, at |-> Top(b, size) - size]
      ELSE [block |-> Last + 1, at |-> 0]

arena_alloc(size) ==
  LET b == Opened(blocks[Last], size)
      new == Opened([allocated |-> 0, capacity |-> 0], size)
      p == Pointer(size)
  IN  /\ blocks' = IF Top(b, size) <= b.capacity
                   THEN [blocks EXCEPT ![Last] = [b EXCEPT !.allocated = Top(b, size)]]
                   ELSE Append([blocks EXCEPT ![Last] = [b EXCEPT !.allocated = b.capacity]],
                               [new EXCEPT !.allocated = size])
      /\ taken' = Append(taken, [block |-> p.block, at |-> p.at, size |-> size])

-----------------------------------------------------------------------------
Blocks == [allocated : Nat, capacity : Nat]
Allocations == [block : Nat, at : Nat, size : Nat \ {0}]

ArenaTypeOK ==
  /\ blocks \in Seq(Blocks) /\ Len(blocks) > 0
  /\ taken \in Seq(Allocations)
  /\ \A k \in DOMAIN taken : taken[k].block \in DOMAIN blocks

(* An allocation lies inside its block.  Whether its user stays inside the   *)
(* allocation is another matter (constant_propagation does not: Indexable).  *)
InBlock ==
  \A k \in DOMAIN taken : taken[k].at + taken[k].size <= blocks[taken[k].block].capacity

(* Two allocations share no byte: none is given out twice.                 *)
Apart(t, u) == t.block # u.block \/ t.at + t.size <= u.at \/ u.at + u.size <= t.at
Disjoint == \A k, l \in DOMAIN taken : k = l \/ Apart(taken[k], taken[l])

(* Every allocation starts at a multiple of its size, hence of whatever      *)
(* alignment divides it.                                                   *)
Aligned == \A k \in DOMAIN taken : taken[k].at % taken[k].size = 0
=============================================================================
