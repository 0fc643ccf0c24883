---------------------------- MODULE MCHashTable ----------------------------
(***************************************************************************)
(* Two buckets for three names and the empty string: all but one collide.   *)
(***************************************************************************)
EXTENDS HashTable, TLC

CONSTANTS a, b, c

MCHash == [k \in AllKeys |-> IF k = c THEN 1 ELSE 2]
MCValues == {0, 1}
=============================================================================
