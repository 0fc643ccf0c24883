-------------------------------- MODULE Gal --------------------------------
(***************************************************************************)
(* The PDP-8 assembler src/2nd_party/gal.c.  The source is a sequence of    *)
(* statements, each what one call of assemble_once() takes.  A first pass   *)
(* assembles them in order; one whose value is not known is remembered with *)
(* its place and assembled again, at that place, when the source has ended. *)
(* An expression is a first term and a sequence of signed terms; -1 stands  *)
(* for an undefined value, in the C code as here.                           *)
(***************************************************************************)
EXTENDS Integers, SequencesExt, Bitwise

VARIABLES
  source,       \* the statements
  phase,        \* "reading", "patching", "done", "refused" or "overrun"
  reason,       \* why it was refused
  cursor,       \* the next statement
  base, addr,   \* how digits are read, and where the next word goes
  names,        \* the name table: [name, value]
  backpatch,    \* what has to be assembled again: [pos, base, addr]
  bp_count,     \* how many of them the first pass left
  entry,        \* the next of them
  ram,          \* the words written
  at            \* (history) where each statement of the source began

gvars == <<source, phase, reason, cursor, base, addr, names, backpatch, bp_count, entry, ram, at>>

RamSize == 4096
PageSize == 128
Undefined == -1

(* The mnemonics that programs here use, and those that take an operand.    *)
Mnemonics ==
  [HLT |-> \o7402, SNA |-> \o7450, SNL |-> \o7420, SZA |-> \o7440, CLA |-> \o7200, CLL |-> \o7100,
   CMA |-> \o7040, CIA |-> \o7041, RAL |-> \o7004, KCC |-> \o6032, TPC |-> \o6044,
   AND |-> 0, TAD |-> \o1000, ISZ |-> \o2000, DCA |-> \o3000, JMS |-> \o4000, JMP |-> \o5000]
MemRef == {"AND", "TAD", "ISZ", "DCA", "JMS", "JMP"}

(* int16_t                                                                 *)
Int16(n) == ((n + 32768) % 65536) - 32768

(* s_atoi: the base is 8 or 10, the digits are not checked against it.      *)
Number(digits, b) == FoldLeft(LAMBDA n, d : n * b + d, 0, digits)

(* find_name: the latest definition.                                       *)
Defined(n) == \E d \in DOMAIN names : names[d].name = n
Found(n) ==
  names[CHOOSE d \in DOMAIN names :
          names[d].name = n /\ \A later \in (d + 1)..Len(names) : names[later].name # n].value

(* parse_var_or_int                                                        *)
Term(t, b, a) ==
  CASE t.kind = "name" -> IF Defined(t.name) THEN Found(t.name) ELSE Undefined
    [] t.kind = "int" -> Int16(Number(t.digits, b))
    [] t.kind = "dot" -> a

(* parse_expr: an undefined first term makes the value undefined, a later   *)
(* one counts as -1.                                                       *)
Value(e, b, a) ==
  FoldLeft(LAMBDA v, t : IF v >= 0 THEN Int16(v + t.sign * Term(t, b, a)) ELSE v,
           Term(e.first, b, a), e.rest)

(* assemble_mnemonic: Undefined, or the word.  An operand on another page   *)
(* is an error, unless it is indirect.                                     *)
OtherPage(o, b, a) ==
  /\ o.mnem \in MemRef /\ ~o.ind
  /\ LET v == Value(o.e, b, a) IN v >= PageSize /\ v \div PageSize # a \div PageSize

Code(o, b, a) ==
  IF o.mnem \notin MemRef THEN Mnemonics[o.mnem]
  ELSE LET v == Value(o.e, b, a)
       IN  IF v < 0 THEN Undefined
           ELSE Mnemonics[o.mnem] + (IF o.ind THEN 256 ELSE 0)
                  + (IF v >= PageSize THEN 128 ELSE 0) + (v % PageSize)

-----------------------------------------------------------------------------
(* assemble_once works on the source, or on a statement to assemble again.  *)
Here == IF phase = "reading" THEN [pos |-> cursor, base |-> base, addr |-> addr]
        ELSE backpatch[entry]
Statement == source[Here.pos]

At(kinds) ==
  /\ \/ phase = "reading" /\ cursor <= Len(source)
     \/ phase = "patching" /\ entry <= bp_count
  /\ Statement.k \in kinds

(* The call is over: the statement's effect on base and address lasts in    *)
(* the first pass only.                                                    *)
Leave(b, a) ==
  /\ IF phase = "reading"
     THEN /\ cursor' = cursor + 1 /\ base' = b /\ addr' = a
          /\ at' = Append(at, addr)
          /\ UNCHANGED entry
     ELSE entry' = entry + 1 /\ UNCHANGED <<cursor, base, addr, at>>
  /\ UNCHANGED <<source, phase, reason, bp_count>>

Stop(why) ==
  /\ phase' = "refused" /\ reason' = why
  /\ UNCHANGED <<source, cursor, base, addr, names, backpatch, bp_count, entry, ram, at>>

(* Mutant: the base is not kept with what has to be assembled again.        *)
AgainInOctal(times) == backpatch' = backpatch \o [k \in 1..times |-> [Here EXCEPT !.base = 8]]

Again(times) == backpatch' = backpatch \o [k \in 1..times |-> Here]

(* ram[addr++] = w is not guarded: past the end the C code writes behind *)
(* its array, and nothing is said of what follows.                         *)
Store(w) == ram' = (Here.addr :> w) @@ ram
Writes == At({"inst", "word", "int", "minus", "char"})
Overrun ==
  /\ Writes /\ Here.addr >= RamSize
  /\ phase' = "overrun"
  /\ UNCHANGED <<source, reason, cursor, base, addr, names, backpatch, bp_count, entry, ram, at>>
Fits == Here.addr < RamSize
-----------------------------------------------------------------------------
(* The cases of assemble_once, by the statement.                           *)

(* A character the lexer does not know, or a token that begins no statement: *)
(* the assembler gives up before anything else.                            *)
Operands(s) ==
  CASE s.k = "inst" -> Range(s.ops)
    [] s.k \in {"assign", "word", "star", "mnem"} -> {s.value}
    [] OTHER -> {}
Unlexable ==
  /\ At({"stray", "inst", "assign", "word", "star", "mnem"})
  /\ \/ Statement.k = "stray"
     \/ \E o \in Operands(Statement) :
          /\ o.mnem \in MemRef \cup {""}
          /\ \E t \in {o.e.first} \cup Range(o.e.rest) : t.kind = "mark"
Strange == Unlexable /\ Stop("unexpected value")

(* A value: an expression, or an instruction in the place of one.           *)
OperandValue(o) ==
  IF o.mnem = "" THEN Value(o.e, Here.base, Here.addr) ELSE Code(o, Here.base, Here.addr)
Misplaced(o) == o.mnem # "" /\ OtherPage(o, Here.base, Here.addr)

(* *value                                                                  *)
Origin ==
  /\ At({"star"}) /\ ~Unlexable
  /\ LET v == OperandValue(Statement.value)
     IN  IF v \in 0..(RamSize - 1)
         THEN Leave(Here.base, v) /\ UNCHANGED <<names, backpatch, ram>>
         ELSE Stop("origin")

(* name,                                                                   *)
Label ==
  /\ At({"label"})
  /\ names' = Append(names, [name |-> Statement.name, value |-> Here.addr])
  /\ Leave(Here.base, Here.addr)
  /\ UNCHANGED <<backpatch, ram>>

(* name = value                                                            *)
Assign ==
  /\ At({"assign"}) /\ ~Unlexable
  /\ LET v == OperandValue(Statement.value)
     IN  CASE Misplaced(Statement.value) -> Stop("other page")
           [] v < 0 ->
                Again(1) /\ Leave(Here.base, Here.addr) /\ UNCHANGED <<names, ram>>
           [] OTHER ->
                /\ names' = Append(names, [name |-> Statement.name, value |-> v])
                /\ Leave(Here.base, Here.addr) /\ UNCHANGED <<backpatch, ram>>

(* mnemonic = value: it must be the value it has.                          *)
CheckMnemonic ==
  /\ At({"mnem"}) /\ ~Unlexable
  /\ LET v == OperandValue(Statement.value)
     IN  IF v >= 0 /\ v # Mnemonics[Statement.name]
         THEN Stop("mnemonic")
         ELSE /\ Again(IF v < 0 THEN 1 ELSE 0)
              /\ Leave(Here.base, Here.addr) /\ UNCHANGED <<names, ram>>

(* A line of instructions is one word; the line is remembered once for      *)
(* every operand that is not known.                                        *)
Codes == [o \in DOMAIN Statement.ops |-> Code(Statement.ops[o], Here.base, Here.addr)]
Unknown == {o \in DOMAIN Codes : Codes[o] < 0}
Known == SelectSeq(Codes, LAMBDA c : c >= 0)

Instruction ==
  /\ At({"inst"}) /\ ~Unlexable /\ Fits
  /\ IF \E o \in Range(Statement.ops) : OtherPage(o, Here.base, Here.addr)
     THEN Stop("other page")
     ELSE /\ Again(Cardinality(Unknown))
          /\ Store(FoldLeft(LAMBDA r, c : r | c, 0, Known))
          /\ Leave(Here.base, Here.addr + 1)
          /\ UNCHANGED names

(* A word that is an expression.                                           *)
Word ==
  /\ At({"word"}) /\ ~Unlexable /\ Fits
  /\ LET v == OperandValue(Statement.value)
     IN  IF v < 0 THEN Again(1) /\ UNCHANGED ram ELSE Store(v) /\ UNCHANGED backpatch
  /\ Leave(Here.base, Here.addr + 1)
  /\ UNCHANGED names

(* A word that is a number, a negative number, or a character; what follows *)
(* a negative number cannot be a sum.                                      *)
Integer ==
  /\ At({"int"}) /\ Fits
  /\ Store(Int16(Number(Statement.digits, Here.base)))
  /\ Leave(Here.base, Here.addr + 1)
  /\ UNCHANGED <<names, backpatch>>

Minus ==
  /\ At({"minus"}) /\ Fits
  /\ IF Statement.more THEN Stop("expected")
     ELSE /\ Store((RamSize - Number(Statement.digits, Here.base)) % RamSize)
          /\ Leave(Here.base, Here.addr + 1)
          /\ UNCHANGED <<names, backpatch>>

Character ==
  /\ At({"char"}) /\ Fits
  /\ Store(Statement.char)
  /\ Leave(Here.base, Here.addr + 1)
  /\ UNCHANGED <<names, backpatch>>

(* DECIMAL, OCTAL                                                          *)
Radix ==
  /\ At({"radix"})
  /\ Leave(Statement.base, Here.addr)
  /\ UNCHANGED <<names, backpatch, ram>>

(* PAGE, to the next page, or PAGE n                                       *)
Page ==
  /\ At({"page"})
  /\ LET n == IF Statement.digits = <<>> THEN Here.addr \div PageSize + 1
              ELSE Int16(Number(Statement.digits, Here.base))
     IN  Leave(Here.base, (PageSize * n) % (36 * PageSize))
  /\ UNCHANGED <<names, backpatch, ram>>

-----------------------------------------------------------------------------
(* assemble()                                                              *)
EndOfSource ==
  /\ phase = "reading" /\ cursor > Len(source)
  /\ phase' = "patching" /\ bp_count' = Len(backpatch)
  /\ UNCHANGED <<source, reason, cursor, base, addr, names, backpatch, entry, ram, at>>

(* What was remembered in the second pass is undefined.                    *)
EndOfPatching ==
  /\ phase = "patching" /\ entry > bp_count
  /\ IF Len(backpatch) > bp_count
     THEN phase' = "refused" /\ reason' = "undefined" /\ UNCHANGED backpatch
     ELSE phase' = "done" /\ backpatch' = <<>> /\ UNCHANGED reason
  /\ UNCHANGED <<source, cursor, base, addr, names, bp_count, entry, ram, at>>

GalInit(file) ==
  /\ source = file /\ reason = "" /\ cursor = 1
  /\ base = 8 /\ addr = \o200
  /\ names = <<>> /\ backpatch = <<>> /\ bp_count = 0 /\ entry = 1
  /\ ram = <<>> /\ at = <<>>

Assemble ==
  \/ Origin \/ Label \/ Assign \/ CheckMnemonic \/ Instruction \/ Word \/ Integer
  \/ Minus \/ Character \/ Radix \/ Page
  \/ Strange \/ Overrun \/ EndOfSource \/ EndOfPatching

=============================================================================
