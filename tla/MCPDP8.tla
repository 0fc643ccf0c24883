------------------------------- MODULE MCPDP8 -------------------------------
(***************************************************************************)
(* PDP-8 programs laid out so that every kind of reference meets the end of *)
(* a page, and hand-written sources for the assembler alone.  The words the *)
(* assembler leaves are read back and compared with what they stand for.    *)
(***************************************************************************)
EXTENDS PDP8

Def(name, temps, code) == [name |-> name, temps_count |-> temps, code |-> code]
symbols == <<"main", "puts", "g", "h", "", "stranger", "">>
Data == <<[name |-> 5, chars |-> <<104, 10>>], [name |-> 7, chars |-> <<>>]>>
Program(defs) == [functions |-> defs, symbols |-> symbols, data |-> Data]

(* A label and n jumps to it: n words.                                     *)
Pad(n) == <<Inst(0, "LABEL", 9, 0)>> \o [k \in 1..n |-> Inst(0, "GOTO", 9, 0)]

Constants ==
  <<Inst(1, "LOAD_INT", 7, 0), Inst(2, "LOAD_INT", -5, 0), Inst(3, "LOAD_INT", 0, 0),
    Inst(1, "ADDI", 1, 7), Inst(1, "SUBI", 2, 7), Inst(2, "LTI", 1, 7), Inst(0, "RETURN_INT", 4096, 0)>>
Branches ==
  <<Inst(3, "LT", 1, 2), Inst(0, "BIZ", 3, 1), Inst(1, "ADD", 2, 3), Inst(0, "GOTO", 2, 0),
    Inst(0, "LABEL", 1, 0), Inst(1, "SUB", 2, 3), Inst(0, "GOTO", 1, 0), Inst(0, "LABEL", 2, 0),
    Inst(1, "MOV", 2, 0), Inst(0, "GOTO", 2, 0)>>
CallsAll ==
  <<Inst(1, "LOAD_SYM", 5, 0), Inst(2, "LOAD_SYM", 3, 0),
    Inst(0, "CALL_PUSH_SYM", 5, 3), Inst(0, "CALL_PUSH", 1, 3), Inst(0, "CALL_PUSH_INT", 6, 3),
    Inst(3, "CALL_SYM", 2, 3), Inst(0, "CALL_PUSH_SYM", 3, 1), Inst(0, "CALL_REG", 1, 1),
    Inst(0, "CALL_SYM", 3, 0), Inst(0, "CALL_PUSH_SYM", 7, 1), Inst(2, "CALL_SYM", 3, 1)>>
Callee == Def(3, 1, <<Inst(1, "LOAD_ARG", 0, 0), Inst(0, "CALL_SYM", 3, 0), Inst(0, "RETURN_VAL", 1, 0)>>)

Offsets == 0..40         \* over the end of the first page
SecondPage == 140..165   \* and of the second
Families ==
  {Program(<<Def(1, 3, Pad(n) \o body)>>) : n \in Offsets, body \in {Constants, Branches}}
  \cup {Program(<<Callee, Def(1, 3, Pad(n) \o CallsAll)>>) : n \in Offsets}
  \cup {Program(<<Def(1, 0, Pad(n) \o <<Inst(0, "CALL_SYM", 3, 0)>>), Callee>>) : n \in Offsets}
  \cup {Program(<<Def(1, 0, Pad(n)), Callee>>) : n \in SecondPage}

Repeat(n, op(_)) == [k \in 1..n |-> op(k)]
Named(n) == Repeat(n, LAMBDA k : Def(k, 0, <<>>))
Lots(n, body) == [functions |-> <<Def(1, 1, body)>>, symbols |-> <<"main">> \o Repeat(n, LAMBDA k : ""),
                  data |-> Repeat(n, LAMBDA k : [name |-> k + 1, chars |-> <<>>])]
Extremes ==
  UNION {{[functions |-> Named(n), symbols |-> <<"main", "a", "b", "c", "d", "e", "i", "j", "k">>, data |-> <<>>],
          Lots(0, Repeat(n + 2, LAMBDA k : Inst(1, "LOAD_INT", k, 0))),
          Lots(0, Repeat(n + 2, LAMBDA k : Inst(0, "GOTO", k, 0)) \o Repeat(n + 2, LAMBDA k : Inst(0, "LABEL", k, 0))),
          Lots(n + 2, Repeat(n + 2, LAMBDA k : Inst(1, "LOAD_SYM", k + 1, 0)))} : n \in {8, 9}}
  \cup {Program(<<Def(1, 1, <<i>>)>>) :
          i \in {Inst(0, "EXIT", 0, 0), Inst(1, "LTI", 1, 0), Inst(0, "CALL_SYM", 6, 0), Inst(36, "MOV", 1, 0),
                 Inst(37, "MOV", 1, 0), Inst(38, "MOV", 1, 0), Inst(0, "NOP", 0, 0)}}
MCUnits == Families \cup Extremes

-----------------------------------------------------------------------------
(* Sources written by hand.                                                *)
Num(digits, sign) == [kind |-> "int", digits |-> digits, sign |-> sign]
Name(n, sign) == [kind |-> "name", name |-> n, sign |-> sign]
Dot == [kind |-> "dot"]
Is(n, first, rest) == [k |-> "assign", name |-> n, value |-> Plain(Expr(first, rest))]
IsCode(n, mnem, ind, first) == [k |-> "assign", name |-> n, value |-> Operand(mnem, ind, Expr(first, <<>>))]
W(first, rest) == WordOf(Expr(first, rest), Nothing)
L(n) == LabelOf(n, Nothing)
I(mnem, ind, first, rest) == Line(<<Operand(mnem, ind, Expr(first, rest))>>, Nothing)
Digits(ds) == [k |-> "int", digits |-> ds]
Paged(ds) == [k |-> "page", digits |-> ds]
Negative(ds, more) == [k |-> "minus", digits |-> ds, more |-> more]
Origin_(first, rest) == [k |-> "star", value |-> Plain(Expr(first, rest))]
Checked(n, first) == [k |-> "mnem", name |-> n, value |-> Plain(Expr(first, <<>>))]
Decimal == [k |-> "radix", base |-> 10]
OctalBase == [k |-> "radix", base |-> 8]
ten == <<1, 0>>

(* A body that uses a and b in every way, before or after they are defined. *)
Uses ==
  {<<W(Name("a", 1), <<Num(ten, 1)>>), Decimal, W(Name("b", 1), <<Num(ten, -1)>>), OctalBase>>,
   <<I("TAD", FALSE, Name("a", 1), <<>>), I("DCA", TRUE, Name("b", 1), <<>>)>>,
   <<Line(<<Operand("TAD", FALSE, Expr(Name("a", 1), <<>>)), Operand("CLA", FALSE, NoExpr),
            Operand("JMS", FALSE, Expr(Name("b", 1), <<>>))>>, Nothing)>>,
   <<W(Dot, <<Name("a", 1)>>), W(Name("a", 1), <<Name("b", -1)>>)>>,
   <<Decimal, Is("c", Name("a", 1), <<Num(ten, 1)>>), OctalBase, W(Name("c", 1), <<>>)>>,
   <<IsCode("c", "TAD", TRUE, Name("b", 1)), W(Name("c", 1), <<>>)>>,
   <<Decimal, Checked("TAD", Name("a", 1)), Digits(ten), Negative(ten, FALSE), OctalBase>>,
   <<Negative(ten, TRUE)>>, <<W(Dot, <<>>), [k |-> "stray"]>>,
   <<Origin_(Name("a", 1), <<Num(ten, 1)>>), W(Dot, <<Num(<<1>>, 1)>>)>>,
   <<Paged(<<>>), W(Dot, <<Name("b", 1)>>), Paged(<<1>>), [k |-> "char", char |-> 65]>>,
   <<Origin_(Num(<<7, 7, 7, 7>>, 1), <<>>), Digits(ten), W(Name("a", 1), <<>>)>>}
Definitions ==
  {<<L("a"), Digits(<<7>>), Is("b", Num(<<1, 0, 0>>, 1), <<>>)>>,
   <<Is("a", Name("b", 1), <<Num(<<1>>, 1)>>), L("b"), Digits(<<7>>)>>,
   <<Is("a", Num(<<5>>, 1), <<>>), Is("a", Num(<<6>>, 1), <<>>), Is("b", Num(<<1>>, 1), <<>>)>>,
   <<Is("a", Num(<<1, 0, 0, 0>>, 1), <<>>)>>}
MCSources == UNION {{u \o d, d \o u} : u \in Uses, d \in Definitions}

-----------------------------------------------------------------------------
Compiled == unit # NoUnit
Writing == {"inst", "word", "int", "minus", "char"}
WordsAt == {s \in DOMAIN at : source[s].k \in Writing}

(* The word an instruction at address a refers to on its page or page 0,    *)
(* and through it.                                                         *)
Contents(a) == IF a \in DOMAIN ram THEN ram[a] ELSE 0
Direct(a) == LET w == ram[a]
             IN  (IF (w \div 128) % 2 = 1 THEN (a \div PageSize) * PageSize ELSE 0) + (w % 128)
Effective(a) == IF (ram[a] \div 256) % 2 = 1 THEN Contents(Direct(a)) ELSE Direct(a)

(* Where the label before an entity ended up.                              *)
Where(is) == at[CHOOSE s \in DOMAIN at : source[s].k = "label" /\ source[s].is = is]

(* What is done with what an operand stands for.                           *)
Verb == [const |-> "TAD", data |-> "TAD", function |-> "TAD", label |-> "JMP", page |-> "JMP", call |-> "JMS"]

(* The address of a function is read to be pushed, but to be loaded into a  *)
(* register its link is called: JMS at pdp8.c:620 where line 582 has TAD.    *)
LoadsFunction(s) == source[s].for[1] = "function" /\ source[s + 1].for[1] = "register"
DoesRight(s) ==
  source[s].for[1] \in DOMAIN Verb =>
    source[s].ops[1].mnem = IF LoadsFunction(s) THEN "JMS" ELSE Verb[source[s].for[1]]

(* The instruction at statement s refers to what the back end meant.        *)
RefersRight(s) ==
  LET a == at[s]
      for == source[s].for
  IN  CASE for[1] = "library" -> Direct(a) = Where(for)
        [] for[1] = "register" -> Direct(a) = \o20 + 3 * (for[2] - 1) + for[3]
        [] for[1] = "page" -> Effective(a) = for[2] * PageSize
        [] for[1] = "const" -> for[3] < ConstSize(for[2]) => Contents(Effective(a)) = ConstWord(for[2], for[3])
        [] for[1] = "label" -> Effective(a) = Where(<<"label", for[2]>>)
        [] for[1] = "data" -> Contents(Effective(a)) = Where(<<"data", for[2]>>)
        [] for[1] = "call" -> Effective(a) = Where(<<"function", for[2]>>)
        [] for[1] = "function" -> Contents(Effective(a)) = Where(<<"function", for[2]>>)
        [] OTHER -> TRUE

(* Every operand of the text a back end wrote reaches what it stands for    *)
(* once it is assembled: through the links of its own page, to the constant, *)
(* label, function, string or register it is about, and does there what is   *)
(* done with such a thing.  (A comparison with an immediate reads three words *)
(* of a constant that may have fewer.)                                      *)
Reaches ==
  phase = "done" /\ Compiled =>
    \A s \in WordsAt : source[s].k = "inst" => RefersRight(s) /\ DoesRight(s)

(* No two words share a place: a page's code, its way to the next page, its  *)
(* constants and its links all fit it, and the strings and the start code    *)
(* are out of the way.                                                     *)
NoOverlay ==
  phase = "done" /\ Compiled => \A s, t \in WordsAt : at[s] = at[t] => s = t

-----------------------------------------------------------------------------
(* The names that are in the table when the first pass is past statement k. *)
Listed_[k \in Nat] ==
  IF k = 0 THEN {}
  ELSE LET s == source[k]
       IN  Listed_[k - 1] \cup
             IF \/ s.k = "label"
                \/ /\ s.k = "assign"
                   /\ s.value.e.first.kind = "name" => s.value.e.first.name \in Listed_[k - 1]
             THEN {s.name} ELSE {}

Expressions(k) == {o.e : o \in Operands(source[k])}
FirstUnlisted(e, k) == e.first.kind = "name" /\ e.first.name \notin Listed_[k - 1]
Deferred(k) == \E e \in Expressions(k) : FirstUnlisted(e, k)

(* A term after the first that is not known yet: it is taken for -1.        *)
TakenForMinusOne(k) ==
  /\ ~Deferred(k)
  /\ \E e \in Expressions(k) : \E t \in Range(e.rest) : t.kind = "name" /\ t.name \notin Listed_[k - 1]

(* A name is the last definition before its use, or, where the use had to    *)
(* wait, the last of all.                                                  *)
DefinitionsOf(n) == {d \in DOMAIN source : source[d].k \in {"label", "assign"} /\ source[d].name = n}
DefinitionAt(n, k) == Max({d \in DefinitionsOf(n) : Deferred(k) \/ d < k})
BaseAt(k) ==
  LET radices == {r \in 1..(k - 1) : source[r].k = "radix"}
  IN  IF radices = {} THEN 8 ELSE source[Max(radices)].base

RECURSIVE Meaning(_, _)
MeaningOfName(n, k) ==
  LET d == DefinitionAt(n, k)
      o == source[d].value
      v == Meaning(o.e, d)
  IN  IF source[d].k = "label" THEN at[d]
      ELSE IF o.mnem = "" THEN v
      ELSE Mnemonics[o.mnem] + (IF o.ind THEN 256 ELSE 0) + (IF v >= 128 THEN 128 ELSE 0) + (v % 128)
MeaningOfTerm(t, k) ==
  CASE t.kind = "name" -> MeaningOfName(t.name, k)
    [] t.kind = "int" -> Number(t.digits, BaseAt(k))
    [] OTHER -> at[k]
Meaning(e, k) ==
  FoldLeft(LAMBDA v, t : v + t.sign * MeaningOfTerm(t, k), MeaningOfTerm(e.first, k), e.rest)

(* Lines of more than one operand are or-ed and refer to nothing.  An        *)
(* indirect operand on another page is accepted and refers to this page.     *)
Elsewhere(v, a) == v >= PageSize /\ v \div PageSize # a \div PageSize
WordRight(k) ==
  LET s == source[k]
      w == ram[at[k]]
  IN  CASE s.k = "word" -> w = Meaning(s.value.e, k)
        [] s.k = "int" -> w = Number(s.digits, BaseAt(k))
        [] s.k = "minus" -> (w + Number(s.digits, BaseAt(k))) % RamSize = 0
        [] s.k = "char" -> w = s.char
        [] s.k = "inst" ->
             \/ Len(s.ops) > 1
             \/ LET o == s.ops[1]
                    v == Meaning(o.e, k)
                IN  /\ w \div 512 = Mnemonics[o.mnem] \div 512
                    /\ ((w \div 256) % 2 = 1) <=> o.ind
                    /\ (o.ind /\ Elsewhere(v, at[k])) \/ Direct(at[k]) = v

(* A source that is accepted is assembled as it reads, whether its names are *)
(* defined before or after they are used, under the base and at the address  *)
(* of the line: what is assembled again gets the word it would have got.     *)
Backpatched ==
  phase = "done" /\ ~Compiled =>
    \/ \E k \in DOMAIN source : TakenForMinusOne(k)
    \/ \A k \in WordsAt : WordRight(k) \/ \E l \in WordsAt : l # k /\ at[l] = at[k]

-----------------------------------------------------------------------------
(* What is refused, and why.                                               *)
Instructions == UNION {Range(unit.functions[q].code) : q \in DOMAIN unit.functions}
Uses_(op) == {i \in Instructions : i.function = op}
TooMany == 10     \* entries of a table: the next has another name where it is used

CompilerExcuse ==
  \/ reason = "exit" /\ Uses_("EXIT") # {}
  \/ reason = "unexpected value" /\ \E i \in Uses_("LTI") : i.y = 0
  \/ /\ reason = "undefined"
     /\ \/ Len(functions) > TooMany \/ Len(labels) > TooMany \/ Len(data) > TooMany
        \/ Cardinality({NeedOf(i) : i \in {n \in Instructions : NeedOf(n).kind = "const"}}) > TooMany
        \/ \E i \in Uses_("CALL_SYM") : unit.symbols[i.x] = "stranger"
  \/ /\ reason = "other page"
     /\ \/ \E i \in Instructions : i.result > 37 \/ i.x > 37
        \/ \E q \in DOMAIN unit.functions : \E i \in Range(unit.functions[q].code) :
             i.function = "CALL_SYM" /\ \E l \in q + 1..Len(unit.functions) : unit.functions[l].name = i.x

(* Nobody defines the name, or its definition waits for a later one; or the  *)
(* value is negative, which the assembler cannot tell from an undefined one. *)
NameOf(t) == IF t.kind = "name" THEN {t.name} ELSE {}
NamesIn(e) == UNION {NameOf(t) : t \in {e.first} \cup Range(e.rest)}
HandExcuse ==
  CASE reason = "undefined" ->
         \E k \in DOMAIN source : \E e \in Expressions(k) :
           \/ /\ FirstUnlisted(e, k)
              /\ \A d \in DefinitionsOf(e.first.name) : source[d].k = "assign" /\ d > k /\ Deferred(d)
           \/ /\ \A n \in NamesIn(e) : \E d \in DefinitionsOf(n) : Deferred(k) \/ d < k
              /\ Meaning(e, k) < 0
    [] reason = "other page" ->
         \E k \in DOMAIN source : source[k].k = "inst" /\
           \E o \in Range(source[k].ops) : ~o.ind /\ o.mnem \in MemRef
    [] reason = "mnemonic" -> \E k \in DOMAIN source : source[k].k = "mnem"
    [] reason = "origin" -> \E k \in DOMAIN source : source[k].k = "star" /\ Deferred(k)
    [] reason = "expected" -> \E k \in DOMAIN source : source[k].k = "minus" /\ source[k].more
    [] reason = "unexpected value" -> \E k \in DOMAIN source : source[k].k = "stray"
    [] OTHER -> FALSE

(* A program is refused only when it uses what the back end cannot do: exit  *)
(* in the middle, < with 0, more than ten entries of a table, a function     *)
(* nobody defines, one defined later on another page, registers beyond page *)
(* 0.  A source is refused only for an error of its own or for a definition *)
(* that waits for a later one.                                             *)
OnlyExcused == phase = "refused" => IF Compiled THEN CompilerExcuse ELSE HandExcuse
=============================================================================
