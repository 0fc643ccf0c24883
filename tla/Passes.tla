------------------------------- MODULE Passes -------------------------------
(***************************************************************************)
(* The passes of src/src/tac.c, each an operator from code to code.  A pass  *)
(* of the optimisation loop of compile() returns [code, changed].           *)
(***************************************************************************)
EXTENDS RegisterFolding, TACSemantics

(* Mutant: a pass that did nothing says it did something.                  *)
UnchangedYetTrue(code) == [code |-> code, changed |-> TRUE]

Unchanged(code) == [code |-> code, changed |-> FALSE]

Temps(code) == 1..count_temps(code)

remove_nops(code) ==
  LET kept[i \in 0..Len(code)] ==
        IF i = 0 THEN <<>>
        ELSE IF code[i].function = "NOP" THEN kept[i - 1] ELSE Append(kept[i - 1], code[i])
  IN  kept[Len(code)]

-----------------------------------------------------------------------------
(* remove_unused: a temporary first mentioned where it is last mentioned is *)
(* only ever set; its setter loses the result, or goes if it is pure.       *)
remove_unused(code) ==
  LET unused == {t \in Temps(code) : FirstUse(code, t) = LastUse(code, t)}
      stripped == [i \in DOMAIN code |->
                     IF code[i].result \in unused
                     THEN LET inst == [code[i] EXCEPT !.result = 0]
                          IN  IF IsPure(inst) THEN NopOut(inst) ELSE inst
                     ELSE code[i]]
      changed == \E i \in DOMAIN code : code[i].result \in unused /\ IsPure(code[i])
  IN [code |-> IF changed THEN remove_nops(stripped) ELSE stripped, changed |-> changed]

-----------------------------------------------------------------------------
(* constant_propagation.  Its tables is_constant and constant_value, of 1 and *)
(* 8 bytes an entry, have count_temps entries, but temporaries count from 1: *)
(* the highest is entry count_temps, one behind the last.  The arena puts     *)
(* the first table at the start of a block and the second behind it at a     *)
(* multiple of its size, or at the start of a block of its own if that one is *)
(* full.  Behind a table there is memory that is zero and nobody else's, up to *)
(* the end of its block: that is the room for one entry more, if there is any. *)
ArenaBlock == 4096
BlockFor(size) == IF ArenaBlock > size THEN ArenaBlock ELSE 2 * size

RoomBehind(n) ==
  /\ n < BlockFor(n)
  /\ IF 16 * n <= BlockFor(n) THEN 16 * n + 8 <= BlockFor(n) ELSE 8 * n + 8 <= BlockFor(8 * n)

Entries(n) == 0..(IF RoomBehind(n) THEN n ELSE n - 1)
Table(code) == Entries(count_temps(code))

(* k is what the loop knows: [is_constant, v, kind] per temporary; v and kind *)
(* outlive is_constant.  Of entries that are not in memory of the pass the    *)
(* model says nothing: the program may do anything there.                  *)
Known(kind, v) == [is_constant |-> TRUE, kind |-> kind, v |-> v]
NothingKnown(code) == [t \in Table(code) |-> [is_constant |-> FALSE, kind |-> "INT", v |-> 0]]

(* The first switch: what the instruction says of its own result.          *)
Forgetting == {"LOAD_ARG", "MOV", "LT", "LTI", "ADD", "ADDI", "SUB", "SUBI",
               "CALL_REG", "CALL_PUSH", "CALL_PUSH_INT", "CALL_PUSH_SYM", "CALL_SYM"}
Learn(k, inst) ==
  CASE inst.function = "LOAD_SYM" -> [k EXCEPT ![inst.result] = Known("SYM", inst.x)]
    [] inst.function = "LOAD_INT" -> [k EXCEPT ![inst.result] = Known("INT", inst.x)]
    [] inst.function \in Forgetting -> [k EXCEPT ![inst.result].is_constant = FALSE]
    [] OTHER -> k

(* Mutant: a subtraction takes its constant from either side.              *)
FoldEitherSide(k, inst) ==
  IF inst.function = "SUB" /\ k[inst.x].is_constant
  THEN [inst EXCEPT !.function = "SUBI", !.x = inst.y, !.y = k[inst.x].v]
  ELSE inst

(* The second switch: the instruction itself, rewritten where an operand   *)
(* is a known constant.  Immediates are as wide as a register.             *)
Fold(k, inst) ==
  LET x == k[inst.x]
      y == k[inst.y]
      becomes(f, a, b) == [inst EXCEPT !.function = f, !.x = a, !.y = b]
  IN CASE inst.function = "ADD" /\ x.is_constant /\ ~y.is_constant /\ x.kind = "INT" ->
            becomes("ADDI", inst.y, x.v)
       [] inst.function = "ADD" /\ ~x.is_constant /\ y.is_constant /\ y.kind = "INT" ->
            becomes("ADDI", inst.x, y.v)
       [] inst.function = "ADD" /\ x.is_constant /\ y.is_constant
          /\ x.kind = "INT" /\ y.kind = "INT" ->
            becomes("LOAD_INT", (x.v + y.v) % Word, inst.y)
       [] inst.function = "ADDI" /\ x.is_constant ->
            becomes("LOAD_INT", (inst.y + x.v) % Word, inst.y)
       [] inst.function = "SUB" /\ x.kind # "SYM" /\ ~x.is_constant /\ y.is_constant ->
            becomes("SUBI", inst.x, y.v)
       [] inst.function = "LT" /\ ~x.is_constant /\ y.is_constant /\ y.kind = "INT" ->
            becomes("LTI", inst.x, y.v)
       [] inst.function = "CALL_PUSH" /\ x.is_constant ->
            becomes(IF x.kind = "INT" THEN "CALL_PUSH_INT" ELSE "CALL_PUSH_SYM", x.v, inst.y)
       [] inst.function = "MOV" /\ x.is_constant ->
            becomes(IF x.kind = "INT" THEN "LOAD_INT" ELSE "LOAD_SYM", x.v, inst.y)
       [] inst.function = "RETURN_VAL" /\ x.is_constant /\ x.kind = "INT" ->
            becomes("RETURN_INT", x.v, inst.y)
       [] OTHER -> inst

KnownAt(code, n) ==
  LET know[i \in 0..Len(code)] ==
        IF i = 0 THEN NothingKnown(code) ELSE Learn(know[i - 1], code[i])
  IN  know[n]

constant_propagation(code) ==
  IF count_temps(code) = 0 THEN Unchanged(code)
  ELSE LET rewritten == [i \in DOMAIN code |-> Fold(KnownAt(code, i), code[i])]
       IN  [code |-> rewritten, changed |-> rewritten # code]

(* Returning a symbol is the pass's TODO(): the compiler stops there.      *)
ReturnsSymbol(code) ==
  \E i \in DOMAIN code :
    /\ code[i].function = "RETURN_VAL"
    /\ LET x == KnownAt(code, i)[code[i].x] IN x.is_constant /\ x.kind = "SYM"

-----------------------------------------------------------------------------
(* Mutant: only the first operand is copied.                               *)
CopiesForFirst(phi, inst) ==
  IF inst.result = phi.x THEN <<inst, Inst(phi.result, "MOV", phi.x, 0)>> ELSE <<inst>>

(* PHI elimination.  Both passes below put a copy into the PHI's result     *)
(* behind every instruction that sets one of its operands.                  *)
CopiesFor(phi, inst) ==
  IF inst.result = phi.x THEN <<inst, Inst(phi.result, "MOV", phi.x, 0)>>
  ELSE IF inst.result = phi.y THEN <<inst, Inst(phi.result, "MOV", phi.y, 0)>>
  ELSE <<inst>>

WithCopies(phi, code) == FlattenSeq([i \in DOMAIN code |-> CopiesFor(phi, code[i])])

(* return_lifting: a function that ends in LABEL, PHI, return gets a return *)
(* of its own at the jump to that label and one at the label; the PHI stays *)
(* behind the second EXIT, for remove_phi to copy its other operand.        *)
(* A label is the target of one GOTO (SingleExitJump of MCFrontEnd).        *)
ReturnLiftable(code) ==
  /\ Len(code) >= 3
  /\ code[Len(code)].function \in SetRetOps
  /\ code[Len(code) - 1].function = "PHI"
  /\ code[Len(code) - 2].function = "LABEL"

(* Mutant: the return forgets to leave.                                    *)
ReturnAndStay(ret) == <<ret>>

ReturnNow(ret) == <<ret, Inst(0, "EXIT", 0, 0)>>

return_lifting(code) ==
  IF ~ReturnLiftable(code) THEN Unchanged(code)
  ELSE LET n == Len(code)
           ret == code[n]
           phi == code[n - 1]
           g == SelectInSeq(code, LAMBDA inst : inst.function = "GOTO"
                                                /\ inst.x = code[n - 2].x)
           lifted == IF g = 0 THEN SubSeq(code, 1, n - 3)
                     ELSE WithCopies(phi, SubSeq(code, 1, g - 1)) \o ReturnNow(ret)
                          \o SubSeq(code, g + 1, n - 3)
       IN  [code |-> lifted \o <<NopOut(code[n - 2])>> \o ReturnNow(ret) \o <<phi>>,
           changed |-> TRUE]

(* remove_phi: the last PHI first, until none is left.                     *)
remove_last_phi(code) ==
  LET p == SelectLastInSeq(code, LAMBDA inst : inst.function = "PHI")
  IN  IF p = 0 THEN code
      ELSE WithCopies(code[p], SubSeq(code, 1, p - 1)) \o <<NopOut(code[p])>>
           \o SubSeq(code, p + 1, Len(code))

(* Mutant: only one PHI goes.                                              *)
remove_one_phi(code) == remove_nops(remove_last_phi(code))

remove_phi(code) ==
  LET phis == Cardinality({i \in DOMAIN code : code[i].function = "PHI"})
      after[n \in 0..phis] == IF n = 0 THEN code ELSE remove_last_phi(after[n - 1])
  IN  remove_nops(after[phis])

-----------------------------------------------------------------------------
(* value_numbering: the first pair of pure instructions that compute the    *)
(* same thing, and from then on the earlier result in place of the later.   *)
(* An operand of a call, a branch or a return is left alone.                *)
replace_args(inst, from, to) ==
  [inst EXCEPT
     !.x = IF inst.function \in BinaryOps \cup UnaryOps /\ @ = from THEN to ELSE @,
     !.y = IF inst.function \in BinaryOps /\ @ = from THEN to ELSE @]

(* Mutant: the operand does not matter.                                    *)
SameOperation(a, b) == IsPure(a) /\ a.function = b.function /\ a.y = b.y

SameValue(a, b) == IsPure(a) /\ a.function = b.function /\ a.x = b.x /\ a.y = b.y

value_numbering(code) ==
  LET repeated == {i \in DOMAIN code : \E j \in (i + 1)..Len(code) : SameValue(code[i], code[j])}
  IN IF repeated = {} THEN Unchanged(code)
     ELSE LET i == Min(repeated)
              j == Min({k \in (i + 1)..Len(code) : SameValue(code[i], code[k])})
              from == code[j].result
              to == code[i].result
              rewritable == {k \in (j + 1)..Len(code) : IsPure(code[k])}
          IN [code |-> [k \in DOMAIN code |-> IF k \in rewritable
                                              THEN replace_args(code[k], from, to)
                                              ELSE code[k]],
              changed |-> \E k \in rewritable : from \in Reads(code[k])]

-----------------------------------------------------------------------------
(* What the passes count on without saying so, in the code itself and in    *)
(* what a run of it finds.  PassesProofs proves that on such code they keep  *)
(* what it means, and the runs of the compiler check that it gets such code *)
(* to them.                                                                *)
Instruction == [result : Nat, function : Ops, x : Nat, y : Nat]
Code == Seq(Instruction)

(* The code.  No instruction reads "no result".                            *)
ReadsResults(code) == \A i \in DOMAIN code : 0 \notin Reads(code[i])

(* Tables of an entry per result and one for 0, as remove_unused and         *)
(* fold_temporaries have them (count_temps + 1), hold every operand.         *)
Covered(code) == \A i \in DOMAIN code : Reads(code[i]) \subseteq 0..count_temps(code)

(* Every entry constant_propagation uses is in memory of its own.           *)
Indexable(code) ==
  \A i \in DOMAIN code : {code[i].result} \cup Reads(code[i]) \subseteq Table(code)

(* No temporary that is loaded a constant is set anywhere else.            *)
Loads == {"LOAD_INT", "LOAD_SYM"}
LoadsOnce(code) ==
  \A i, j \in DOMAIN code :
    /\ code[i].result = code[j].result /\ code[i].result # 0
    /\ code[i].function \in Loads
    => i = j

NoPhi(code) == \A i \in DOMAIN code : code[i].function # "PHI"

(* The run.  Numbers given to it are numbers,                              *)
Numeric(v) == IsInt(v) => v[2] \in Nat
Input(in) == in.seed \in Nat /\ \A k \in DOMAIN in.args : Numeric(in.args[k])

(* what is added, subtracted or compared is a number, arguments are there,  *)
(* and what is needed is set: of a PHI, the operand it selects.             *)
Arithmetic == {"ADD", "ADDI", "SUB", "SUBI", "LT", "LTI"}
Needed(m, c) == IF c.function = "PHI" THEN {IF m.jumped THEN c.x ELSE c.y} ELSE Reads(c)
WellRun(code, symbols, in) ==
  LET before(i) == States(code, symbols, in)[i - 1]
  IN  \A i \in DOMAIN code : before(i).mode = "run" =>
        /\ Needed(before(i), code[i]) \subseteq DOMAIN before(i).reg
        /\ code[i].function \in Arithmetic => \A t \in Reads(code[i]) : IsInt(Reg(before(i), t))
        /\ code[i].function = "LOAD_ARG" => code[i].x + 1 \in DOMAIN in.args

(* Past the PHIs, whatever is read is set.                                 *)
ReadsSet(code, symbols, in) ==
  \A i \in DOMAIN code : LET m == States(code, symbols, in)[i - 1]
                         IN  m.mode = "run" => Reads(code[i]) \subseteq DOMAIN m.reg

(* Two instructions value_numbering may merge in a run: the later is not a  *)
(* PHI, which selects by the way it was reached; it sets something only if  *)
(* the earlier does, and runs only if the earlier did.                     *)
MayMerge(code, symbols, in) ==
  \A i, j \in DOMAIN code : i < j /\ SameValue(code[i], code[j]) =>
    /\ code[j].function # "PHI"
    /\ code[i].result = 0 => code[j].result = 0
    /\ States(code, symbols, in)[j - 1].mode = "run" =>
         States(code, symbols, in)[i - 1].mode = "run"

(* Code without branches, as it is generated: what it computes it puts      *)
(* somewhere, each temporary is set once, and before it is read, and there   *)
(* are fewer than Narrow of them, so that there is room behind the tables.   *)
Narrow == 256
Branching == {"PHI", "BIZ", "GOTO", "LABEL"}
Calling == {"CALL_SYM", "CALL_REG"}
StraightLine(code) ==
  /\ IsSSA(code)
  /\ \A i \in DOMAIN code :
       /\ code[i].function \notin Branching \cup {"NOP"}
       /\ code[i].result < Narrow
       /\ IsPure(code[i]) => code[i].result # 0
       /\ code[i].result # 0 => IsPure(code[i]) \/ code[i].function \in Calling
       /\ \A t \in Reads(code[i]) : t # 0 /\ \E j \in 1..(i - 1) : code[j].result = t

Regular(code, symbols, inputs) ==
  /\ code \in Code /\ StraightLine(code)
  /\ \A in \in inputs : Input(in) /\ WellRun(code, symbols, in)
=============================================================================
