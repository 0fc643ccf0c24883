-------------------------- MODULE RegisterFolding --------------------------
(***************************************************************************)
(* fold_temporaries() of src/src/tac.c as one operator from code to code,    *)
(* and the usage ranges it goes by.  FoldTemporaries has it loop by loop.    *)
(***************************************************************************)
EXTENDS TAC, SequencesExt

(* find_first_last_usage: -1 for a temporary nobody mentions.              *)
MentionedAt(code, t) == {i \in DOMAIN code : t \in Mentions(code[i])}
FirstUse(code, t) == IF MentionedAt(code, t) = {} THEN -1 ELSE Min(MentionedAt(code, t))
LastUse(code, t) == IF MentionedAt(code, t) = {} THEN -1 ELSE Max(MentionedAt(code, t))

count_temps(code) == Max({0} \cup Results(code))

-----------------------------------------------------------------------------
(* Two temporaries interfere when the spans from first to last mention meet. *)
(* Mutant: only temporaries that die together interfere.                   *)
DieTogether(code, t, u) == t # u /\ LastUse(code, t) = LastUse(code, u)

Interfere(code, t, u) ==
  t # u /\ ~(LastUse(code, t) < FirstUse(code, u) \/ LastUse(code, u) < FirstUse(code, t))

(* Greedy colouring in the order of the numbers: the n-th temporary gets the *)
(* lowest number that none of the lower ones it interferes with has.        *)
Painted(code, n, colour) ==
  LET taken == {colour[u] : u \in {v \in 1..(n - 1) : Interfere(code, n, v)}}
  IN  Append(colour, Min((1..n) \ taken))

colours(code) ==
  LET coloured[n \in 0..count_temps(code)] ==
        IF n = 0 THEN <<>> ELSE Painted(code, n, coloured[n - 1])
  IN  coloured[count_temps(code)]

fold_temporaries(code) ==
  LET colour == colours(code)
      map == [t \in 0..count_temps(code) |-> IF t = 0 THEN 0 ELSE colour[t]]
  IN  [i \in DOMAIN code |-> MapTemps(map, code[i])]
=============================================================================
