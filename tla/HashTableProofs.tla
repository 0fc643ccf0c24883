-------------------------- MODULE HashTableProofs --------------------------
(***************************************************************************)
(* The hash table keeps its promise for every set of keys, every hash and   *)
(* every number of buckets: it implements a map.                           *)
(***************************************************************************)
EXTENDS HashTable, WellFoundedInduction, TLAPS

(* The search from the front has a first match.                            *)
LEMMA Least ==
  ASSUME NEW S \in SUBSET Nat, S # {}
  PROVE  \E i \in S : \A j \in S : i <= j
<1> DEFINE R == OpToRel(<, Nat)
<1>1. IsWellFoundedOn(R, Nat)
  BY NatLessThanWellFounded
<1>2. \E i \in S : \A j \in S : ~(<<j, i>> \in R)
  <2> HIDE DEF R
  <2> QED BY <1>1, WFMin
<1>3. \A i, j \in Nat : i < j => <<i, j>> \in R
  BY DEF OpToRel
<1>4. PICK i \in S : \A j \in S : ~(<<j, i>> \in R)
  BY <1>2, Zenon
<1>5. \A j \in S : ~(j < i)
  BY <1>3, <1>4, Zenon
<1>6. \A j \in S : i <= j
  BY <1>5
<1> QED BY <1>6, Zenon

-----------------------------------------------------------------------------
Tables == [Indices -> Seq(Slots)]

(* OneSlotPerKey of a table that is there.                                 *)
OneSlot(T) ==
  \A h, g \in Indices : \A i \in DOMAIN T[h], j \in DOMAIN T[g] :
    T[h][i].key \in Keys =>
      /\ h = Index(T[h][i].key)
      /\ T[g][j].key = T[h][i].key => g = h /\ j = i

TInv == TypeOK /\ OneSlot(Ready)

LEMMA IndexIn == ASSUME NEW k \in AllKeys PROVE Index(k) \in Indices
<1>1. Hash[k] \in Nat /\ Length \in Nat \ {0}
  BY TableAssumption DEF AllKeys
<1> QED BY <1>1 DEF Index, Indices

(* A table is never taken for NULL.                                        *)
LEMMA NotNull == ASSUME NEW T \in Tables PROVE T # NULL
<1>1. 0 \in Indices
  BY TableAssumption DEF Indices
<1>2. 0 \in DOMAIN T
  BY <1>1 DEF Tables
<1>3. 0 \notin DOMAIN NULL
  BY DEF NULL
<1> QED BY <1>2, <1>3

LEMMA ReadyType == ASSUME TypeOK PROVE Ready \in Tables
  BY DEF TypeOK, Ready, Tables

LEMMA BucketType ==
  ASSUME TypeOK, NEW k \in AllKeys
  PROVE  Bucket(k) \in Seq(Slots) /\ Matches(k) \subseteq Nat
<1>1. Bucket(k) \in Seq(Slots)
  BY ReadyType, IndexIn DEF Bucket, Tables
<1>2. DOMAIN Bucket(k) \subseteq Nat
  BY <1>1
<1> QED BY <1>1, <1>2 DEF Matches

(* The search for a present key stops at a slot that holds it.              *)
LEMMA PlaceMatches ==
  ASSUME TypeOK, NEW k \in AllKeys, Present(k)
  PROVE  /\ Place(k) \in DOMAIN Bucket(k)
         /\ Bucket(k)[Place(k)].key = k
<1>1. \E i \in Matches(k) : \A j \in Matches(k) : i <= j
  BY BucketType, Least DEF Present
<1>2. Place(k) \in Matches(k)
  BY <1>1 DEF Place
<1> QED BY <1>2 DEF Matches

(* The initial states.                                                     *)
LEMMA TInvInit == ASSUME Init PROVE TInv
<1>1. TypeOK
  BY DEF Init, TypeOK
<1>2. Ready = [h \in Indices |-> <<>>]
  BY DEF Init, Ready
<1>3. OneSlot(Ready)
  BY <1>2 DEF OneSlot
<1> QED BY <1>1, <1>3 DEF TInv

-----------------------------------------------------------------------------
(* How a changed table is read: Ready' is the new table.                    *)
LEMMA ReadyNext == ASSUME table' \in Tables PROVE Ready' = table'
<1>1. table' # NULL
  BY NotNull
<1> QED BY <1>1 DEF Ready, NULL

(* Two tables in which the same slots hold the names that are looked up.     *)
LEMMA OneSlotKept ==
  ASSUME NEW T \in Tables, OneSlot(T), NEW U \in Tables,
         \A h \in Indices : /\ DOMAIN U[h] = DOMAIN T[h]
                            /\ \A i \in DOMAIN T[h] : U[h][i].key \in {T[h][i].key, Empty}
  PROVE  OneSlot(U)
<1> SUFFICES ASSUME NEW h \in Indices, NEW g \in Indices,
                    NEW i \in DOMAIN U[h], NEW j \in DOMAIN U[g],
                    U[h][i].key \in Keys
             PROVE  /\ h = Index(U[h][i].key)
                    /\ U[g][j].key = U[h][i].key => g = h /\ j = i
  BY DEF OneSlot
<1>1. i \in DOMAIN T[h] /\ j \in DOMAIN T[g]
  OBVIOUS
<1>2. U[h][i].key = T[h][i].key
  BY <1>1, TableAssumption
<1>3. U[g][j].key = U[h][i].key => U[g][j].key = T[g][j].key
  BY <1>1, TableAssumption
<1> QED BY <1>1, <1>2, <1>3 DEF OneSlot

(* One slot of a bucket changed.                                           *)
LEMMA SlotChanged ==
  ASSUME NEW b \in Seq(Slots), NEW p \in DOMAIN b, NEW s \in Slots
  PROVE  /\ [b EXCEPT ![p] = s] \in Seq(Slots)
         /\ DOMAIN [b EXCEPT ![p] = s] = DOMAIN b
         /\ [b EXCEPT ![p] = s][p] = s
         /\ \A i \in DOMAIN b : i # p => [b EXCEPT ![p] = s][i] = b[i]
  OBVIOUS

(* A put that finds its key.                                               *)
LEMMA PutPresent ==
  ASSUME TInv, NEW k \in AllKeys, NEW v \in Values, Present(k),
         table' = [Ready EXCEPT ![Index(k)][Place(k)].value = v], UNCHANGED answer
  PROVE  TInv' /\ Ready' = table'
<1> DEFINE x == Index(k)   p == Place(k)   T == Ready
           bucket == [T[x] EXCEPT ![p].value = v]
<1>1. T \in Tables /\ x \in Indices /\ p \in DOMAIN T[x] /\ T[x] \in Seq(Slots)
  BY ReadyType, IndexIn, PlaceMatches, BucketType DEF TInv, Bucket
<1>2. /\ bucket \in Seq(Slots) /\ DOMAIN bucket = DOMAIN T[x]
      /\ \A i \in DOMAIN T[x] : bucket[i].key = T[x][i].key
  <2> DEFINE s == [T[x][p] EXCEPT !.value = v]
  <2>1. T[x][p] \in Slots
    BY <1>1
  <2>2. s \in Slots /\ s.key = T[x][p].key
    BY <2>1 DEF Slots
  <2>3. bucket = [T[x] EXCEPT ![p] = s]
    OBVIOUS
  <2> HIDE DEF s, T, bucket
  <2> QED BY <1>1, <2>2, <2>3, SlotChanged
<1>3. table' = [T EXCEPT ![x] = bucket]
  BY <1>1 DEF Tables
<1>4. table' \in Tables
  BY <1>1, <1>2, <1>3 DEF Tables
<1>5. \A h \in Indices : /\ DOMAIN table'[h] = DOMAIN T[h]
                         /\ \A i \in DOMAIN T[h] : table'[h][i].key \in {T[h][i].key, Empty}
  <2> TAKE h \in Indices
  <2>1. CASE h # x
    BY <1>1, <1>3, <2>1 DEF Tables
  <2>2. CASE h = x
    <3>1. table'[h] = bucket
      BY <1>1, <1>3, <2>2 DEF Tables
    <3> HIDE DEF bucket, T
    <3> QED BY <1>2, <2>2, <3>1
  <2> QED BY <2>1, <2>2
<1>6. Ready' = table'
  BY <1>4, ReadyNext
<1>7. OneSlot(table')
  <2> HIDE DEF T
  <2>1. OneSlot(T)
    BY DEF TInv, T
  <2> QED BY <1>1, <1>4, <1>5, <2>1, OneSlotKept
<1> QED BY <1>4, <1>6, <1>7 DEF TInv, TypeOK, Tables

(* A put that does not.                                                    *)
LEMMA PutAbsent ==
  ASSUME TInv, NEW k \in AllKeys, NEW v \in Values, ~Present(k),
         table' = [Ready EXCEPT ![Index(k)] = Append(@, [key |-> k, value |-> v])],
         UNCHANGED answer
  PROVE  TInv' /\ Ready' = table'
<1> DEFINE x == Index(k)   T == Ready   new == [key |-> k, value |-> v]
           bucket == Append(T[x], new)
<1>1. T \in Tables /\ x \in Indices /\ T[x] \in Seq(Slots) /\ new \in Slots
  BY ReadyType, IndexIn, BucketType DEF TInv, Bucket, Slots
<1>2. bucket \in Seq(Slots)
  BY <1>1
<1>3. table' \in Tables
  BY <1>1, <1>2 DEF Tables
<1>4. Ready' = table'
  BY <1>3, ReadyNext
<1>5. \A h \in Indices \ {x} : table'[h] = T[h]
  BY <1>1 DEF Tables
<1>6. /\ table'[x] = bucket
      /\ DOMAIN bucket = DOMAIN T[x] \cup {Len(T[x]) + 1}
      /\ \A i \in DOMAIN T[x] : bucket[i] = T[x][i]
      /\ bucket[Len(T[x]) + 1] = new
  BY <1>1 DEF Tables
<1>7. \A i \in DOMAIN T[x] : T[x][i].key # k
  BY DEF Present, Matches, Bucket
<1>8. \A h \in Indices : \A i \in DOMAIN T[h] : T[h][i].key # k \/ k \notin Keys
  BY <1>1, <1>7 DEF TInv, OneSlot
<1>9. OneSlot(table')
  <2> SUFFICES ASSUME NEW h \in Indices, NEW g \in Indices,
                      NEW i \in DOMAIN table'[h], NEW j \in DOMAIN table'[g],
                      table'[h][i].key \in Keys
               PROVE  /\ h = Index(table'[h][i].key)
                      /\ table'[g][j].key = table'[h][i].key => g = h /\ j = i
    BY DEF OneSlot
  <2> DEFINE Fresh(f, n) == f = x /\ n = Len(T[x]) + 1
  <2>1. ~Fresh(h, i) => i \in DOMAIN T[h] /\ table'[h][i] = T[h][i]
    BY <1>5, <1>6
  <2>2. ~Fresh(g, j) => j \in DOMAIN T[g] /\ table'[g][j] = T[g][j]
    BY <1>5, <1>6
  <2>3. Fresh(h, i) => table'[h][i].key = k
    BY <1>6
  <2>4. Fresh(g, j) => table'[g][j].key = k
    BY <1>6
  <2>5. OneSlot(T)
    BY DEF TInv
  <2>6. CASE ~Fresh(h, i) /\ ~Fresh(g, j)
    <3> HIDE DEF Fresh, T
    <3> QED BY <2>1, <2>2, <2>5, <2>6 DEF OneSlot
  <2>7. CASE Fresh(h, i) /\ ~Fresh(g, j)
    BY <1>8, <2>2, <2>3, <2>7
  <2>8. CASE ~Fresh(h, i) /\ Fresh(g, j)
    <3>1. h = Index(table'[h][i].key)
      BY <2>1, <2>5, <2>8 DEF OneSlot
    <3>2. table'[g][j].key # table'[h][i].key
      BY <1>8, <2>1, <2>4, <2>8
    <3> QED BY <3>1, <3>2
  <2>9. CASE Fresh(h, i) /\ Fresh(g, j)
    BY <2>3, <2>9
  <2> QED BY <2>6, <2>7, <2>8, <2>9
<1> QED BY <1>3, <1>4, <1>9 DEF TInv, TypeOK, Tables

(* A remove.                                                               *)
LEMMA RemoveKeeps ==
  ASSUME TInv, NEW k \in AllKeys, Remove(k)
  PROVE  TInv' /\ Ready' = table'
<1> DEFINE x == Index(k)   p == Place(k)   T == Ready
<1>1. T \in Tables /\ x \in Indices /\ T[x] \in Seq(Slots) /\ OneSlot(T)
  BY ReadyType, IndexIn, BucketType DEF TInv, Bucket
<1>2. /\ table' \in Tables
      /\ \A h \in Indices : /\ DOMAIN table'[h] = DOMAIN T[h]
                            /\ \A i \in DOMAIN T[h] : table'[h][i].key \in {T[h][i].key, Empty}
  <2>1. CASE ~Present(k)
    BY <1>1, <2>1 DEF Remove
  <2>2. CASE Present(k)
    <3>1. p \in DOMAIN T[x] /\ table' = [T EXCEPT ![x] = Cleared(k)]
      BY <2>2, PlaceMatches DEF TInv, Bucket, Remove
    <3>2. Cleared(k) = [T[x] EXCEPT ![p].key = Empty]
      BY DEF Cleared, Bucket
    <3>3. /\ Cleared(k) \in Seq(Slots) /\ DOMAIN Cleared(k) = DOMAIN T[x]
          /\ \A i \in DOMAIN T[x] : Cleared(k)[i].key \in {T[x][i].key, Empty}
      <4> DEFINE s == [T[x][p] EXCEPT !.key = Empty]
      <4>1. T[x][p] \in Slots
        BY <1>1, <3>1
      <4>2. s \in Slots /\ s.key = Empty
        BY <4>1 DEF Slots, AllKeys
      <4>3. Cleared(k) = [T[x] EXCEPT ![p] = s]
        BY <3>2
      <4> HIDE DEF s, T
      <4> QED BY <1>1, <3>1, <4>2, <4>3, SlotChanged
    <3>4. table' \in Tables
      BY <1>1, <3>1, <3>3 DEF Tables
    <3>5. table'[x] = Cleared(k) /\ \A h \in Indices \ {x} : table'[h] = T[h]
      BY <1>1, <3>1 DEF Tables
    <3> QED BY <3>3, <3>4, <3>5
  <2> QED BY <2>1, <2>2
<1>3. Ready' = table'
  BY <1>2, ReadyNext
<1>4. OneSlot(table')
  <2> HIDE DEF T
  <2> QED BY <1>1, <1>2, OneSlotKept
<1>5. UNCHANGED answer
  BY DEF Remove
<1> QED BY <1>2, <1>3, <1>4, <1>5 DEF TInv, TypeOK, Tables

-----------------------------------------------------------------------------
(* What a look-up of k finds in a table.                                   *)
Here(T, k) == {i \in DOMAIN T[Index(k)] : T[Index(k)][i].key = k}
ValueIn(T, k) ==
  IF Here(T, k) # {}
  THEN T[Index(k)][CHOOSE i \in Here(T, k) : \A j \in Here(T, k) : i <= j].value
  ELSE None

LEMMA MapRead == Map = [k \in Keys |-> ValueIn(Ready, k)]
  BY DEF Map, Present, Matches, Bucket, Place, Here, ValueIn

LEMMA MapReadNext == Map' = [k \in Keys |-> ValueIn(Ready', k)]
  BY DEF Map, Present, Matches, Bucket, Place, Here, ValueIn

(* There is only one slot to find.                                         *)
LEMMA ValueFound ==
  ASSUME NEW T \in Tables, OneSlot(T), NEW k \in Keys, NEW i \in Here(T, k)
  PROVE  ValueIn(T, k) = T[Index(k)][i].value
<1>1. Index(k) \in Indices
  BY IndexIn DEF AllKeys
<1>2. \A j \in Here(T, k) : j = i
  BY <1>1 DEF Here, OneSlot
<1>3. i \in Nat
  BY <1>1 DEF Here, Tables
<1>4. Here(T, k) = {i}
  BY <1>2
<1>5. (CHOOSE n \in Here(T, k) : \A j \in Here(T, k) : n <= j) = i
  BY <1>3, <1>4
<1> QED BY <1>4, <1>5 DEF ValueIn

(* Two tables with the same slot for a key, or none, give it one value.      *)
LEMMA ValueKept ==
  ASSUME NEW T \in Tables, OneSlot(T), NEW U \in Tables, OneSlot(U), NEW k \in Keys,
         Here(U, k) = Here(T, k),
         \A i \in Here(T, k) : U[Index(k)][i].value = T[Index(k)][i].value
  PROVE  ValueIn(U, k) = ValueIn(T, k)
<1>1. CASE Here(T, k) = {}
  BY <1>1 DEF ValueIn
<1>2. CASE Here(T, k) # {}
  <2>1. PICK i \in Here(T, k) : TRUE
    BY <1>2
  <2> QED BY <2>1, ValueFound
<1> QED BY <1>1, <1>2

-----------------------------------------------------------------------------
(* What each operation does to the map.                                    *)
LEMMA PutEffect ==
  ASSUME TInv, NEW k \in AllKeys, NEW v \in Values, Put(k, v)
  PROVE  /\ TInv'
         /\ \A n \in Keys : ValueIn(Ready', n) = IF n = k THEN v ELSE ValueIn(Ready, n)
<1> DEFINE x == Index(k)   T == Ready   U == Ready'
<1>1. T \in Tables /\ OneSlot(T) /\ x \in Indices /\ T[x] \in Seq(Slots)
  BY ReadyType, IndexIn, BucketType DEF TInv, Bucket
<1>2. CASE Present(k)
  <2> DEFINE p == Place(k)
  <2>1. table' = [T EXCEPT ![x][p].value = v] /\ UNCHANGED answer
    BY <1>2 DEF Put
  <2>2. TInv' /\ U = table'
    BY <1>2, <2>1, PutPresent
  <2>3. p \in DOMAIN T[x] /\ T[x][p].key = k
    BY <1>2, PlaceMatches DEF TInv, Bucket
  <2>4. U \in Tables /\ OneSlot(U)
    BY <2>2 DEF TInv, TypeOK, Ready, Tables
  <2>5. \A h \in Indices \ {x} : U[h] = T[h]
    BY <1>1, <2>1, <2>2 DEF Tables
  <2>6. /\ U[x] = [T[x] EXCEPT ![p].value = v]
        /\ DOMAIN U[x] = DOMAIN T[x]
    BY <1>1, <2>1, <2>2 DEF Tables
  <2>7. U[x][p] = [T[x][p] EXCEPT !.value = v] /\ T[x][p] \in Slots
    BY <1>1, <2>3, <2>6
  <2>8. U[x][p].key = k /\ U[x][p].value = v
    BY <2>3, <2>7 DEF Slots
  <2>9. \A i \in DOMAIN T[x] : i # p => U[x][i] = T[x][i]
    BY <2>6
  <2>10. ASSUME NEW n \in Keys
         PROVE  ValueIn(U, n) = IF n = k THEN v ELSE ValueIn(T, n)
    <3> HIDE DEF T, U, x, p
    <3>1. CASE n = k
      <4>1. p \in Here(U, n)
        BY <2>3, <2>6, <2>8, <3>1 DEF Here, x
      <4>2. ValueIn(U, n) = U[Index(n)][p].value
        BY <2>4, <4>1, ValueFound
      <4> QED BY <2>8, <3>1, <4>2 DEF x
    <3>2. CASE n # k
      <4>1. Index(n) \in Indices
        BY IndexIn DEF AllKeys
      <4>2. Here(U, n) = Here(T, n)
        BY <2>3, <2>5, <2>6, <2>8, <2>9, <3>2, <4>1, ZenonT(60) DEF Here
      <4>3. \A i \in Here(T, n) : U[Index(n)][i].value = T[Index(n)][i].value
        BY <2>3, <2>5, <2>9, <3>2, <4>1 DEF Here
      <4> QED BY <1>1, <2>4, <3>2, <4>2, <4>3, ValueKept
    <3> QED BY <3>1, <3>2
  <2> QED BY <2>2, <2>10
<1>3. CASE ~Present(k)
  <2> DEFINE new == [key |-> k, value |-> v]   p == Len(T[x]) + 1
  <2>1. table' = [T EXCEPT ![x] = Append(@, new)] /\ UNCHANGED answer
    BY <1>3 DEF Put
  <2>2. TInv' /\ U = table'
    BY <1>3, <2>1, PutAbsent
  <2>3. U \in Tables /\ OneSlot(U)
    BY <2>2 DEF TInv, TypeOK, Ready, Tables
  <2>4. \A h \in Indices \ {x} : U[h] = T[h]
    BY <1>1, <2>1, <2>2 DEF Tables
  <2>5. U[x] = Append(T[x], new)
    BY <1>1, <2>1, <2>2 DEF Tables
  <2>6. /\ DOMAIN U[x] = DOMAIN T[x] \cup {p} /\ p \notin DOMAIN T[x]
        /\ U[x][p] = new
        /\ \A i \in DOMAIN T[x] : U[x][i] = T[x][i]
    BY <1>1, <2>5
  <2>7. ASSUME NEW n \in Keys
        PROVE  ValueIn(U, n) = IF n = k THEN v ELSE ValueIn(T, n)
    <3> HIDE DEF T, U, x, p
    <3>1. CASE n = k
      <4>1. p \in Here(U, n)
        BY <2>6, <3>1 DEF Here, x
      <4>2. ValueIn(U, n) = U[Index(n)][p].value
        BY <2>3, <4>1, ValueFound
      <4> QED BY <2>6, <3>1, <4>2 DEF x
    <3>2. CASE n # k
      <4>1. Index(n) \in Indices
        BY IndexIn DEF AllKeys
      <4>2. Here(U, n) = Here(T, n)
        BY <2>4, <2>6, <3>2, <4>1 DEF Here
      <4>3. \A i \in Here(T, n) : U[Index(n)][i].value = T[Index(n)][i].value
        BY <2>4, <2>6, <4>1 DEF Here
      <4> QED BY <1>1, <2>3, <3>2, <4>2, <4>3, ValueKept
    <3> QED BY <3>1, <3>2
  <2> QED BY <2>2, <2>7
<1> QED BY <1>2, <1>3

LEMMA RemoveEffect ==
  ASSUME TInv, NEW k \in AllKeys, Remove(k)
  PROVE  /\ TInv'
         /\ \A n \in Keys : ValueIn(Ready', n) = IF n = k THEN None ELSE ValueIn(Ready, n)
<1> DEFINE x == Index(k)   p == Place(k)   T == Ready   U == Ready'
<1>1. T \in Tables /\ OneSlot(T) /\ x \in Indices /\ T[x] \in Seq(Slots)
  BY ReadyType, IndexIn, BucketType DEF TInv, Bucket
<1>2. TInv' /\ U = table'
  BY RemoveKeeps
<1>3. U \in Tables /\ OneSlot(U)
  BY <1>2 DEF TInv, TypeOK, Ready, Tables
<1>4. CASE ~Present(k)
  <2>1. U = T
    BY <1>2, <1>4 DEF Remove
  <2>2. Here(T, k) = {}
    BY <1>4 DEF Present, Matches, Bucket, Here
  <2> QED BY <1>2, <2>1, <2>2 DEF ValueIn
<1>5. CASE Present(k)
  <2>1. p \in DOMAIN T[x] /\ T[x][p].key = k
    BY <1>5, PlaceMatches DEF TInv, Bucket
  <2>2. U = [T EXCEPT ![x] = [T[x] EXCEPT ![p].key = Empty]]
    BY <1>2, <1>5 DEF Remove, Cleared, Bucket
  <2>3. \A h \in Indices \ {x} : U[h] = T[h]
    BY <1>1, <2>2 DEF Tables
  <2>4. U[x] = [T[x] EXCEPT ![p].key = Empty] /\ DOMAIN U[x] = DOMAIN T[x]
    BY <1>1, <2>2 DEF Tables
  <2>5. U[x][p] = [T[x][p] EXCEPT !.key = Empty] /\ T[x][p] \in Slots
    BY <1>1, <2>1, <2>4
  <2>6. U[x][p].key = Empty
    BY <2>5 DEF Slots
  <2>7. \A i \in DOMAIN T[x] : i # p => U[x][i] = T[x][i]
    BY <2>4
  <2>8. ASSUME NEW n \in Keys
        PROVE  ValueIn(U, n) = IF n = k THEN None ELSE ValueIn(T, n)
    <3> HIDE DEF T, U, x, p
    <3>1. CASE n = k
      <4>1. \A i \in DOMAIN T[x] : T[x][i].key = n => i = p
        BY <1>1, <2>1, <3>1 DEF OneSlot
      <4>2. Here(U, n) = {}
        BY <2>4, <2>6, <2>7, <3>1, <4>1, TableAssumption DEF Here, x
      <4> QED BY <3>1, <4>2 DEF ValueIn
    <3>2. CASE n # k
      <4>1. Index(n) \in Indices
        BY IndexIn DEF AllKeys
      <4>2. Here(U, n) = Here(T, n)
        BY <2>1, <2>3, <2>4, <2>6, <2>7, <3>2, <4>1, TableAssumption, ZenonT(60) DEF Here
      <4>3. \A i \in Here(T, n) : U[Index(n)][i].value = T[Index(n)][i].value
        BY <2>1, <2>3, <2>7, <3>2, <4>1 DEF Here
      <4> QED BY <1>1, <1>3, <3>2, <4>2, <4>3, ValueKept
    <3> QED BY <3>1, <3>2
  <2> QED BY <1>2, <2>8
<1> QED BY <1>4, <1>5

(* A look-up answers with what the map holds.                              *)
LEMMA GetEffect ==
  ASSUME TInv, NEW k \in Keys, Get(k)
  PROVE  /\ UNCHANGED table
         /\ answer' = IF ValueIn(Ready, k) # None
                      THEN [found |-> TRUE, ret |-> ValueIn(Ready, k)]
                      ELSE [answer EXCEPT !.found = FALSE]
         /\ answer' \in [found : BOOLEAN, ret : Values]
<1>1. UNCHANGED table
  BY DEF Get
<1>2. answer \in [found : BOOLEAN, ret : Values] /\ k \in AllKeys
  BY DEF TInv, TypeOK, AllKeys
<1>3. CASE Present(k)
  <2>1. Place(k) \in DOMAIN Bucket(k) /\ Bucket(k) \in Seq(Slots)
    BY <1>2, <1>3, PlaceMatches, BucketType DEF TInv
  <2>2. ValueIn(Ready, k) = Bucket(k)[Place(k)].value
    BY <1>3 DEF ValueIn, Here, Present, Matches, Bucket, Place
  <2>3. Bucket(k)[Place(k)] \in Slots
    BY <2>1
  <2>4. ValueIn(Ready, k) \in Values
    BY <2>2, <2>3 DEF Slots
  <2>5. answer' = [found |-> TRUE, ret |-> ValueIn(Ready, k)]
    BY <1>3, <2>2 DEF Get
  <2> QED BY <1>1, <2>4, <2>5, TableAssumption
<1>4. CASE ~Present(k)
  <2>1. ValueIn(Ready, k) = None
    BY <1>4 DEF ValueIn, Here, Present, Matches, Bucket
  <2>2. answer' = [answer EXCEPT !.found = FALSE]
    BY <1>4 DEF Get
  <2> QED BY <1>1, <1>2, <2>1, <2>2
<1> QED BY <1>3, <1>4

LEMMA TInvStep == ASSUME TInv, [Next]_tvars PROVE TInv'
<1>1. ASSUME NEW k \in Keys, Get(k) PROVE TInv'
  BY <1>1, GetEffect DEF TInv, TypeOK, OneSlot, Ready
<1>2. ASSUME NEW k \in AllKeys, Remove(k) PROVE TInv'
  BY <1>2, RemoveEffect
<1>3. ASSUME NEW k \in AllKeys, NEW v \in Values, Put(k, v) PROVE TInv'
  BY <1>3, PutEffect
<1>4. CASE UNCHANGED tvars
  BY <1>4 DEF TInv, TypeOK, OneSlot, Ready, tvars
<1> QED BY <1>1, <1>2, <1>3, <1>4 DEF Next

(* Every reachable table is of its type, and holds each name that is looked *)
(* up in one slot at most, in the bucket of its hash.                       *)
THEOREM TableCorrect == Spec => [](TypeOK /\ OneSlotPerKey)
<1>1. Init => TInv
  BY TInvInit
<1>2. TInv /\ [Next]_tvars => TInv'
  BY TInvStep
<1>3. TInv => TypeOK /\ OneSlotPerKey
  <2>1. CASE table = NULL
    BY <2>1 DEF TInv, OneSlotPerKey, NULL
  <2>2. CASE table # NULL
    BY <2>2 DEF TInv, TypeOK, OneSlotPerKey, OneSlot, Ready
  <2> QED BY <2>1, <2>2 DEF TInv
<1> QED BY <1>1, <1>2, <1>3, PTL DEF Spec

(* hms_put, hms_get and hms_rem implement a map, whatever the keys, their   *)
(* hashes and the order of the calls.                                      *)
THEOREM TableImplementsMap == Spec => ImplementsMap
<1>1. Init => M!Init
  <2> SUFFICES ASSUME Init PROVE M!Init
    OBVIOUS
  <2>1. \A k \in Keys : ValueIn(Ready, k) = None
    BY IndexIn DEF Init, Ready, ValueIn, Here, AllKeys
  <2>2. Map = [k \in Keys |-> None]
    BY <2>1, MapRead
  <2> QED BY <2>2 DEF Init, M!Init
<1>2. TInv /\ [Next]_tvars => [M!Next]_<<Map, answer>>
  <2> SUFFICES ASSUME TInv, [Next]_tvars PROVE [M!Next]_<<Map, answer>>
    OBVIOUS
  <2>1. ASSUME NEW k \in Keys, Get(k) PROVE M!Get(k)
    <3>1. Ready' = Ready
      BY <2>1, GetEffect DEF Ready
    <3>2. Map' = Map /\ Map[k] = ValueIn(Ready, k)
      BY <3>1, MapRead, MapReadNext
    <3> QED BY <2>1, <3>2, GetEffect DEF M!Get
  <2>2. ASSUME NEW k \in AllKeys, NEW v \in Values, Put(k, v)
        PROVE  (k \in Keys /\ M!Put(k, v)) \/ UNCHANGED <<Map, answer>>
    <3>1. Map' = [n \in Keys |-> IF n = k THEN v ELSE Map[n]]
      BY <2>2, PutEffect, MapRead, MapReadNext
    <3>2. UNCHANGED answer
      BY <2>2 DEF Put
    <3>3. Map = [n \in Keys |-> Map[n]]
      BY DEF Map
    <3>4. CASE k \in Keys
      BY <3>1, <3>2, <3>3, <3>4 DEF M!Put
    <3>5. CASE k \notin Keys
      BY <3>1, <3>2, <3>3, <3>5
    <3> QED BY <3>4, <3>5
  <2>3. ASSUME NEW k \in AllKeys, Remove(k)
        PROVE  (k \in Keys /\ M!Remove(k)) \/ UNCHANGED <<Map, answer>>
    <3>1. Map' = [n \in Keys |-> IF n = k THEN None ELSE Map[n]]
      BY <2>3, RemoveEffect, MapRead, MapReadNext
    <3>2. UNCHANGED answer
      BY <2>3 DEF Remove
    <3>3. Map = [n \in Keys |-> Map[n]]
      BY DEF Map
    <3>4. CASE k \in Keys
      BY <3>1, <3>2, <3>3, <3>4 DEF M!Remove
    <3>5. CASE k \notin Keys
      BY <3>1, <3>2, <3>3, <3>5
    <3> QED BY <3>4, <3>5
  <2>4. CASE UNCHANGED tvars
    BY <2>4 DEF tvars, Map, Present, Matches, Bucket, Place, Ready
  <2> QED BY <2>1, <2>2, <2>3, <2>4 DEF Next, M!Next
<1>3. Init => TInv
  BY TInvInit
<1>4. TInv /\ [Next]_tvars => TInv'
  BY TInvStep
<1> QED BY <1>1, <1>2, <1>3, <1>4, PTL DEF Spec, M!Spec, ImplementsMap
=============================================================================
