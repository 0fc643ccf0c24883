-------------------------------- MODULE PDP8 --------------------------------
(***************************************************************************)
(* codegen_pdp8() of src/src/targets/pdp8.c, with the assembler that reads  *)
(* what it writes.  An instruction of the PDP-8 reaches the words of its    *)
(* own page of 128 and of page 0, so the back end counts words, and ends a  *)
(* page with a jump to the next one and with what its instructions refer    *)
(* to: constants, and links to functions, labels and data.  The code of one *)
(* TAC instruction stays on one page.                                      *)
(*                                                                         *)
(* A statement of the text says in `for` what an operand is meant to be and *)
(* in `is` what a label stands before; the assembler does not look at them. *)
(***************************************************************************)
EXTENDS Gal, TAC

CONSTANTS
  Units,      \* the IRs: [functions, symbols, data]
  Sources     \* files written by hand, to be assembled

VARIABLES
  unit,
  f, j,             \* the function, and the instruction: 0 before the first
  functions,        \* [name, uses_cnt, current_page, link_on_page]
  labels, data,     \* likewise
  consts,           \* the constants of this page
  page_num, command_num,
  BP_stored         \* the frame of the call being prepared has been set up

pvars == <<unit, f, j, functions, labels, data, consts, page_num, command_num, BP_stored>>

func == unit.functions[f]
FunctionName == unit.symbols[func.name]
IsMain == FunctionName = "main"
IsData(symbol) == unit.symbols[symbol] = ""

-----------------------------------------------------------------------------
(* The text.  Numbers are printed in octal; a table index has two digits,   *)
(* hexadecimal where it is used (%.2zx) and decimal where the links are     *)
(* (%02zu).                                                                *)
OctalDigits[n \in Nat] == IF n < 8 THEN <<n>> ELSE Append(OctalDigits[n \div 8], n % 8)
DecimalDigits[n \in Nat] == IF n < 10 THEN <<n>> ELSE Append(DecimalDigits[n \div 10], n % 10)
Octal(n) == [k |-> "int", digits |-> OctalDigits[n]]
Hex(i) == <<(i % 256) \div 16, i % 16>>
Dec(i) == <<i \div 10, i % 10>>

IntTerm(n, sign) == [kind |-> "int", digits |-> OctalDigits[n], sign |-> sign]
NameTerm(name) == [kind |-> IF name = <<"#cnst#">> THEN "mark" ELSE "name", name |-> name]
Expr(first, rest) == [first |-> first, rest |-> rest]
NameExpr(name) == Expr(NameTerm(name), <<>>)
Indexed(name, n) == Expr(NameTerm(name), <<IntTerm(n, 1)>>)
FromHere(n) == Expr([kind |-> "dot"], <<IntTerm(n, 1)>>)      \* .+n

Operand(mnem, ind, e) == [mnem |-> mnem, ind |-> ind, e |-> e]
Plain(e) == Operand("", FALSE, e)
NoExpr == Expr([kind |-> "dot"], <<>>)
Line(ops, for) == [k |-> "inst", ops |-> ops, for |-> for]
LabelOf(name, is) == [k |-> "label", name |-> name, is |-> is]
WordOf(e, for) == [k |-> "word", value |-> Plain(e), for |-> for]

Nothing == <<"nothing">>
Lib(name) == <<"library", name>>
Micro(mnems) == <<Line([k \in DOMAIN mnems |-> Operand(mnems[k], FALSE, NoExpr)], Nothing)>>
Mem(mnem, name) == <<Line(<<Operand(mnem, FALSE, NameExpr(<<name>>))>>, Lib(name))>>
MemI(mnem, name) == <<Line(<<Operand(mnem, TRUE, NameExpr(<<name>>))>>, Lib(name))>>
(* Word k of temporary t.                                                  *)
Reg(mnem, t, k) ==
  <<Line(<<Operand(mnem, FALSE, Indexed(<<"REGS">>, (t - 1) * 3 + k))>>, <<"register", t, k>>)>>
RegI(mnem, t) ==
  <<Line(<<Operand(mnem, TRUE, Indexed(<<"REGS">>, (t - 1) * 3))>>, <<"register", t, 0>>)>>

(* What #cnst#, #functn#, #data# and #labell# stand for is put in when the  *)
(* page is known.  What is marked without a mnemonic becomes a label, and   *)
(* labels take no word: they are written without a newline.                *)
Marked(mnem, k) == <<[k |-> "marked", mnem |-> mnem, index |-> k]>>
IsLabel(s) == s.k = "label" \/ (s.k = "marked" /\ s.mnem = "")
Words(text) == Len(SelectSeq(text, LAMBDA s : ~IsLabel(s)))
Needs(kind, what, how) == [kind |-> kind, what |-> what, how |-> how]
NoNeed == Needs("nothing", 0, FALSE)

(* Thrice(P) = P(0), P(1), P(2), for the three words of a value.            *)
Thrice(P(_)) == P(0) \o P(1) \o P(2)
If(c, text) == IF c THEN text ELSE <<>>

-----------------------------------------------------------------------------
(* Constants: 36 bits, of which as many words are stored as are needed.     *)
ConstSize(n) == IF n = 0 THEN 0 ELSE IF n \in 1..4095 THEN 1 ELSE 3
ConstWord(n, k) == (n \div (4096 ^ k)) % 4096

(* The tables: the place of an entry, and whether there is one.             *)
Listed(table, name) == \E i \in DOMAIN table : table[i].name = name
Place(table, name) == CHOOSE i \in DOMAIN table : table[i].name = name
Entry(name, current, linked) ==
  [name |-> name, uses_cnt |-> 0, current_page |-> current, link_on_page |-> linked]
(* Mutant: links of a name on different pages share their name.            *)
LinkedAgain(e) == [e EXCEPT !.link_on_page = TRUE]

Linked(e) == [e EXCEPT !.uses_cnt = @ + 1, !.link_on_page = TRUE]

create_function(table, name, call) ==
  IF Listed(table, name)
  THEN [table EXCEPT ![Place(table, name)] =
          IF (~@.current_page \/ ~call) /\ ~@.link_on_page THEN Linked(@) ELSE @]
  ELSE Append(table, Entry(name, TRUE, ~call))

create_data(table, name) ==
  IF Listed(table, name)
  THEN [table EXCEPT ![Place(table, name)] = IF ~@.link_on_page THEN Linked(@) ELSE @]
  ELSE Append(table, Entry(name, FALSE, TRUE))

create_label(table, name, define) ==
  IF Listed(table, name)
  THEN [table EXCEPT ![Place(table, name)] =
          LET e == [@ EXCEPT !.current_page = define \/ @]
          IN  IF ~e.current_page /\ ~e.link_on_page THEN Linked(e) ELSE e]
  ELSE Append(table, Entry(name, define, ~define))

create_const(table, n) == IF n \in Range(table) THEN table ELSE Append(table, n)

LinkedOf(table) == {i \in DOMAIN table : table[i].link_on_page}

-----------------------------------------------------------------------------
(* add_page_end: the links and constants of page p.                        *)
LinkText(letter, table) ==
  FlattenSeq([i \in DOMAIN table |->
    IF table[i].link_on_page
    THEN <<LabelOf(<<letter, Dec(i - 1), "l", Hex(table[i].uses_cnt)>>, Nothing),
           WordOf(NameExpr(<<letter, Dec(i - 1)>>), Nothing)>>
    ELSE <<>>])

ConstText(p) ==
  FlattenSeq([i \in DOMAIN consts |->
    <<LabelOf(<<"i", Dec(i - 1), "p", Hex(p)>>, Nothing)>>
      \o [k \in 1..ConstSize(consts[i]) |-> Octal(ConstWord(consts[i], k - 1))]])

PageEnd(p, fns) ==
  LinkText("f", fns) \o LinkText("d", data) \o ConstText(p) \o LinkText("l", labels)

Jump(p) ==
  <<Line(<<Operand("JMP", TRUE, NameExpr(<<"pl", p>>))>>, <<"page", p>>),
    LabelOf(<<"pl", p>>, Nothing), Octal(p * \o200)>>
Star(n) == <<[k |-> "star", value |-> Plain(Expr(IntTerm(n, 1), <<>>))]>>

(* Mutant: what was on this page is taken to be on the next, too.           *)
ClearedLinks(table) == [i \in DOMAIN table |-> [table[i] EXCEPT !.link_on_page = FALSE]]

Cleared(table) ==
  [i \in DOMAIN table |-> [table[i] EXCEPT !.current_page = FALSE, !.link_on_page = FALSE]]

(* The words at the end of the page, were this need met on it.              *)
NewLink(table, name, must(_)) ==
  IF Listed(table, name) /\ ~must(table[Place(table, name)]) THEN 0 ELSE 1
DataSize(fns, need) ==
  Cardinality(LinkedOf(fns)) + Cardinality(LinkedOf(data)) + Cardinality(LinkedOf(labels))
  + FoldLeft(LAMBDA n, c : n + ConstSize(c), 0, consts)
  + CASE need.kind = "const" -> ConstSize(need.what)
      [] need.kind = "data" -> NewLink(data, need.what, LAMBDA e : ~e.link_on_page)
      [] need.kind = "function" ->
           NewLink(fns, need.what, LAMBDA e : ~e.link_on_page /\ ~(need.how /\ e.current_page))
      [] need.kind = "label" ->
           IF Listed(labels, need.what) \/ ~need.how
           THEN NewLink(labels, need.what, LAMBDA e : ~e.link_on_page /\ ~e.current_page) ELSE 0
      [] OTHER -> 0

(* Mutant: the page is filled to its last word.                            *)
PageOverfull(fns, text, need) == command_num + Words(text) + 2 + DataSize(fns, need) > PageSize

PageFull(fns, text, need) == command_num + Words(text) + 2 + DataSize(fns, need) >= PageSize

(* How the text refers to what it needs, once the tables list it.           *)
Reference(need, fns, dat, lab, con, p) ==
  CASE need.kind = "const" ->
         LET i == CHOOSE k \in DOMAIN con : con[k] = need.what
         IN  [name |-> <<"i", Hex(i - 1), "p", Hex(p)>>, ind |-> FALSE]
    [] need.kind = "data" ->
         LET i == Place(dat, need.what)
         IN  [name |-> <<"d", Hex(i - 1), "l", Hex(dat[i].uses_cnt)>>, ind |-> FALSE]
    [] need.kind = "function" ->
         LET i == Place(fns, need.what)
         IN  IF fns[i].current_page /\ need.how THEN [name |-> <<"f", Hex(i - 1)>>, ind |-> FALSE]
             ELSE [name |-> <<"f", Hex(i - 1), "l", Hex(fns[i].uses_cnt)>>, ind |-> need.how]
    [] need.kind = "label" ->
         LET i == Place(lab, need.what)
         IN  IF lab[i].current_page \/ need.how THEN [name |-> <<"l", Hex(i - 1)>>, ind |-> FALSE]
             ELSE [name |-> <<"l", Hex(i - 1), "l", Hex(lab[i].uses_cnt)>>, ind |-> TRUE]
    [] OTHER -> [name |-> <<"#cnst#">>, ind |-> FALSE]

(* What an operand is about; `call` is to the function, not to its address. *)
Meant(need, k) ==
  <<IF need.kind = "function" /\ need.how THEN "call" ELSE need.kind, need.what, k>>

Resolved(text, need, ref) ==
  [s \in DOMAIN text |->
    CASE text[s].k = "marked" /\ IsLabel(text[s]) -> LabelOf(ref.name, <<"label", need.what>>)
      [] text[s].k = "marked" /\ ~IsLabel(text[s]) ->
           Line(<<Operand(text[s].mnem, ref.ind, IF need.kind = "const" THEN Indexed(ref.name, text[s].index)
                                                 ELSE NameExpr(ref.name))>>,
                Meant(need, text[s].index))
      [] OTHER -> text[s]]

(* add_commands: a new page if the text and its needs do not fit this one.  *)
AddCommands(fns, text, need) ==
  LET full == PageFull(fns, text, need)
      p == IF full THEN page_num + 1 ELSE page_num
      F == IF full THEN Cleared(fns) ELSE fns
      D == IF full THEN Cleared(data) ELSE data
      L == IF full THEN Cleared(labels) ELSE labels
      C == IF full THEN <<>> ELSE consts
  IN  /\ functions' = IF need.kind = "function" THEN create_function(F, need.what, need.how) ELSE F
      /\ data' = IF need.kind = "data" THEN create_data(D, need.what) ELSE D
      /\ labels' = IF need.kind = "label" THEN create_label(L, need.what, need.how) ELSE L
      /\ consts' = IF need.kind = "const" THEN create_const(C, need.what) ELSE C
      /\ page_num' = p
      /\ command_num' = (IF full THEN 0 ELSE command_num) + Words(text)
      /\ source' = source
                   \o (IF full THEN Jump(p) \o PageEnd(page_num, fns) \o Star(p * PageSize) ELSE <<>>)
                   \o Resolved(text, need, Reference(need, functions', data', labels', consts', p))

-----------------------------------------------------------------------------
(* The text of an operation, and what it needs.                            *)
Const(n) == IF ConstSize(n) > 0 THEN Needs("const", n, FALSE) ELSE NoNeed
Function(symbol, call) == Needs("function", unit.symbols[symbol], call)
Symbol(symbol) == IF IsData(symbol) THEN Needs("data", symbol, FALSE) ELSE Function(symbol, FALSE)

(* Load word k of a constant, if it has one.                               *)
ConstIfAny(n, k) == If(k < ConstSize(n), Marked("TAD", k))

TakeAnswer(r) ==
  If(r # 0, Mem("TAD", "SP") \o Mem("TAD", "P3") \o Mem("DCA", "TMP2")
            \o Thrice(LAMBDA k : MemI("TAD", "TMP2") \o Reg("DCA", r, k)))
ToCaller == Mem("TAD", "BP") \o Mem("TAD", "P2") \o Mem("DCA", "TMP2")
SetLess(r) ==
  Mem("DCA", "TMP1") \o Thrice(LAMBDA k : Reg("DCA", r, k)) \o Mem("TAD", "TMP1")
  \o Micro(<<"SNL">>) \o Reg("ISZ", r, 0) \o Micro(<<"CLA", "CLL">>)
Carry(k) == If(k < 2, Micro(<<"RAL">>))

Store_BP ==
  Mem("TAD", "SP") \o Mem("TAD", "P2") \o Mem("DCA", "TMP1")
  \o Mem("TAD", "BP") \o MemI("DCA", "TMP1")
  \o Mem("TAD", "SP") \o Mem("DCA", "BP")
  \o Mem("TAD", "TMP1") \o Mem("TAD", "P4") \o Mem("DCA", "SP")

Sign(inst) == IF inst.function = "ADDI" THEN inst.y ELSE -inst.y

Text(inst) ==
  LET r == inst.result
      x == inst.x
      y == inst.y
      op == inst.function
  IN  CASE op = "CALL_REG" -> RegI("JMS", x) \o TakeAnswer(r)
        [] op = "CALL_SYM" -> Marked("JMS", 0) \o TakeAnswer(r)
        [] op = "CALL_PUSH" -> Thrice(LAMBDA k : Reg("TAD", x, k) \o MemI("DCA", "SP"))
        [] op = "CALL_PUSH_INT" -> Thrice(LAMBDA k : ConstIfAny(x, k) \o MemI("DCA", "SP"))
        [] op = "CALL_PUSH_SYM" -> Marked("TAD", 0) \o Thrice(LAMBDA k : MemI("DCA", "SP"))
        [] op = "LOAD_INT" -> Thrice(LAMBDA k : ConstIfAny(x, k) \o Reg("DCA", r, k))
        [] op = "LOAD_ARG" ->
             Mem("TAD", "BP") \o Marked("TAD", 0) \o Mem("DCA", "TMP2")
             \o Thrice(LAMBDA k : MemI("TAD", "TMP2") \o Reg("DCA", r, k))
        [] op = "LOAD_SYM" ->
             Marked(IF IsData(x) THEN "TAD" ELSE "JMS", 0) \o Thrice(LAMBDA k : Reg("DCA", r, k))
        [] op = "MOV" -> Thrice(LAMBDA k : Reg("TAD", x, k) \o Reg("DCA", r, k))
        [] op = "ADD" ->
             Micro(<<"CLA", "CLL">>)
             \o Thrice(LAMBDA k : Reg("TAD", x, k) \o Reg("TAD", y, k) \o Reg("DCA", r, k) \o Carry(k))
             \o Micro(<<"CLL">>)
        [] op = "SUB" ->
             Micro(<<"CLA", "CLL">>)
             \o Thrice(LAMBDA k : Reg("TAD", y, k) \o Micro(<<"CIA">>) \o Reg("TAD", x, k)
                                   \o Reg("DCA", r, k) \o Carry(k))
             \o Micro(<<"CLL">>)
        [] op \in {"ADDI", "SUBI"} ->
             Micro(<<"CLA", "CLL">>)
             \o Thrice(LAMBDA k : Reg("TAD", x, k) \o ConstIfAny(Sign(inst), k) \o Reg("DCA", r, k)
                                   \o Carry(k))
        [] op = "LT" ->
             Thrice(LAMBDA k :
               Reg("TAD", y, k)
               \o (IF k = 0 THEN Micro(<<"CIA">>) \o Micro(<<"CLL">>)
                             ELSE Micro(<<"CMA">>) \o Mem("TAD", "TMP1"))
               \o Reg("TAD", x, k)
               \o If(k < 2, Micro(<<"CLA", "RAL">>) \o Mem("DCA", "TMP1")))
             \o SetLess(r)
        [] op = "LTI" ->
             Micro(<<"CLA", "CLL">>)
             \o Thrice(LAMBDA k : Reg("TAD", x, k) \o Marked("TAD", k)
                                   \o If(k < 2, Micro(<<"CLA", "RAL">>)))
             \o SetLess(r)
        [] op = "GOTO" -> Marked("JMP", 0)
        [] op = "BIZ" ->
             Thrice(LAMBDA k : Reg("TAD", x, k) \o Micro(<<"SZA", "CLA">>)
                               \o <<Line(<<Operand("JMP", FALSE, FromHere(8 - k * 3))>>, Nothing)>>)
             \o Marked("JMP", 0)
        [] op = "LABEL" -> Marked("", 0)
        [] op = "RETURN_VAL" ->
             ToCaller \o Thrice(LAMBDA k : Reg("TAD", x, k) \o MemI("DCA", "TMP2"))
        [] op = "RETURN_INT" ->
             ToCaller \o Thrice(LAMBDA k : ConstIfAny(x, k) \o MemI("DCA", "TMP2"))
        [] op = "NOP" -> <<>>

NeedOf(inst) ==
  LET op == inst.function
  IN  CASE op = "CALL_SYM" -> Function(inst.x, TRUE)
        [] op \in {"CALL_PUSH_SYM", "LOAD_SYM"} -> Symbol(inst.x)
        [] op \in {"CALL_PUSH_INT", "LOAD_INT", "RETURN_INT"} -> Const(inst.x)
        [] op = "LOAD_ARG" -> Needs("const", (5 + inst.x * 3) % 4096, FALSE)
        [] op \in {"ADDI", "SUBI"} -> Const(Sign(inst))
        [] op = "LTI" -> Const(-inst.y)
        [] op = "GOTO" -> Needs("label", inst.x, FALSE)
        [] op = "BIZ" -> Needs("label", inst.y, FALSE)
        [] op = "LABEL" -> Needs("label", inst.x, TRUE)
        [] OTHER -> NoNeed

-----------------------------------------------------------------------------
(* stdlib/pdp8.pal: where the names it defines are, and where it ends.      *)
LibraryNames ==
  <<<<\o2, "TMP1">>, <<\o3, "PRLGP">>, <<\o4, "EPLGP">>, <<\o6, "P2">>, <<\o7, "P4">>,
    <<\o10, "SP">>, <<\o11, "BP">>, <<\o12, "TMP2">>, <<\o16, "P3">>, <<\o20, "REGS">>>>
Library ==
  FlattenSeq([k \in DOMAIN LibraryNames |->
    Star(LibraryNames[k][1]) \o <<LabelOf(<<LibraryNames[k][2]>>, Lib(LibraryNames[k][2]))>>])
  \o Star(\o400) \o <<LabelOf(<<"f", Hex(1)>>, <<"function", "printf">>)>>
  \o Star(\o600) \o <<LabelOf(<<"f", Hex(0)>>, <<"function", "puts">>)>>
  \o Star(\o730)

Generating == phase = "generating"
Unread == UNCHANGED <<cursor, base, addr, names, backpatch, bp_count, entry, ram, at>>

SavedWords == Octal((-func.temps_count * 3) % 4096)

(* A function's name, entry and prologue; the table gets a link to it.      *)
Header ==
  /\ Generating /\ f <= Len(unit.functions) /\ j = 0
  /\ LET fns == create_function(functions, FunctionName, FALSE)
         fn_idx == Place(fns, FunctionName)
     IN  AddCommands([fns EXCEPT ![fn_idx].current_page = TRUE],
           <<LabelOf(<<"f", Hex(fn_idx - 1)>>, <<"function", FunctionName>>), Octal(0),
             Line(<<Operand("TAD", FALSE, Expr([kind |-> "dot"], <<IntTerm(1, -1)>>))>>, Nothing)>>
           \o If(IsMain, Micro(<<"SNA">>) \o Mem("JMP", "MAINSP"))
           \o MemI("DCA", "BP") \o MemI("JMS", "PRLGP") \o <<SavedWords>>
           \o If(IsMain, <<LabelOf(<<"MAINSP">>, Lib("MAINSP"))>>),
           NoNeed)
  /\ j' = 1 /\ BP_stored' = FALSE
  /\ Unread /\ UNCHANGED <<unit, f, phase, reason>>

AtOperation == Generating /\ f <= Len(unit.functions) /\ j \in DOMAIN func.code
Operation == func.code[j]
Calls == {"CALL_REG", "CALL_SYM"}
Pushes == {"CALL_PUSH", "CALL_PUSH_INT", "CALL_PUSH_SYM"}

(* add_store_BP, before the first part of a call.                          *)
SetUpFrame ==
  /\ AtOperation /\ Operation.function \in Calls \cup Pushes /\ ~BP_stored
  /\ AddCommands(functions, Store_BP, NoNeed)
  /\ BP_stored' = TRUE
  /\ Unread /\ UNCHANGED <<unit, f, j, phase, reason>>

WriteOperation ==
  /\ AtOperation /\ Operation.function # "EXIT"
  /\ Operation.function \in Calls \cup Pushes => BP_stored
  /\ AddCommands(functions, Text(Operation), NeedOf(Operation))
  /\ BP_stored' = (BP_stored /\ Operation.function \notin Calls)
  /\ j' = j + 1
  /\ Unread /\ UNCHANGED <<unit, f, phase, reason>>

(* TAC_EXIT is a TODO.                                                     *)
GiveUpOnExit ==
  /\ AtOperation /\ Operation.function = "EXIT"
  /\ phase' = "refused" /\ reason' = "exit"
  /\ Unread /\ UNCHANGED <<pvars, source>>

Footer ==
  /\ Generating /\ f <= Len(unit.functions) /\ j = Len(func.code) + 1
  /\ AddCommands(functions,
                 IF IsMain THEN Micro(<<"HLT">>) ELSE MemI("JMS", "EPLGP") \o <<SavedWords>>, NoNeed)
  /\ f' = f + 1 /\ j' = 0
  /\ Unread /\ UNCHANGED <<unit, BP_stored, phase, reason>>

(* The links of the last page, the strings in decimal, and the start.       *)
Radices(b) == <<[k |-> "radix", base |-> b]>>
Strings ==
  FlattenSeq([d \in DOMAIN data |->
    FlattenSeq([v \in DOMAIN unit.data |->
      If(unit.data[v].name = data[d].name,
         <<LabelOf(<<"d", Hex(d - 1)>>, <<"data", data[d].name>>)>>
         \o [c \in DOMAIN unit.data[v].chars |->
              [k |-> "int", digits |-> DecimalDigits[unit.data[v].chars[c]]]]
         \o <<Octal(0)>>)])])
Start ==
  If(Listed(functions, "main"),
     Star(\o200) \o Micro(<<"KCC">>) \o Micro(<<"TPC">>) \o MemI("JMP", "MAINP")
     \o <<LabelOf(<<"MAINP">>, Lib("MAINP")),
          WordOf(Indexed(<<"f", Hex(Place(functions, "main") - 1)>>, 1), Nothing)>>)

EndOfProgram ==
  /\ Generating /\ f > Len(unit.functions)
  /\ source' = source \o PageEnd(page_num, functions) \o Radices(10) \o Strings \o Radices(8) \o Start
  /\ functions' = Cleared(functions) /\ labels' = Cleared(labels) /\ data' = Cleared(data)
  /\ consts' = <<>>
  /\ phase' = "reading"
  /\ Unread /\ UNCHANGED <<unit, f, j, page_num, command_num, BP_stored, reason>>

-----------------------------------------------------------------------------
NoUnit == [functions |-> <<>>, symbols |-> <<>>, data |-> <<>>]

Init ==
  /\ \/ unit \in Units /\ GalInit(Library) /\ phase = "generating"
     \/ unit = NoUnit /\ (\E file \in Sources : GalInit(file)) /\ phase = "reading"
  /\ f = 1 /\ j = 0
  /\ functions = <<Entry("puts", FALSE, FALSE), Entry("printf", FALSE, FALSE)>>
  /\ labels = <<>> /\ data = <<>> /\ consts = <<>>
  /\ page_num = 3 /\ command_num = \o131
  /\ BP_stored = FALSE

Generate ==
  \/ Header \/ SetUpFrame \/ WriteOperation \/ GiveUpOnExit \/ Footer \/ EndOfProgram

Next == Generate \/ (Assemble /\ UNCHANGED pvars)
vars == <<gvars, pvars>>
Spec == Init /\ [][Next]_vars /\ WF_vars(Next)
=============================================================================
