----------------------------- MODULE MCCompiler -----------------------------
(***************************************************************************)
(* The compiler on every program of a small grammar: one function f of two  *)
(* arguments whose body is one expression, with g an external function.     *)
(*                                                                         *)
(* blame records, while the passes run, which of them met code outside what *)
(* it handles.  The properties say that each pass keeps the meaning of the  *)
(* code it does handle, and that nothing else goes wrong on the way.        *)
(***************************************************************************)
EXTENDS Compiler, SourceLanguage

CONSTANT Shape      \* which set of bodies to compile

n == Name("n")
m == Name("m")
one == Number(1)
g(a) == Call("g", <<a>>)
Op(f, A, B) == {Call(f, <<a, b>>) : a \in A, b \in B}

Leaf == {n, m, one, g(n)}
Sum == Op("+", Leaf, Leaf) \cup Op("-", Leaf, Leaf)
Value == {n, m, one, Call("+", <<n, Number(2)>>), Call("-", <<m, n>>), g(m)}
Condition == {Call("<", <<n, one>>), Call(">", <<g(m), n>>)}
Choice(A, B) == {If(c, a, b) : c \in Condition, a \in A, b \in B}

Straight == Op("+", Sum, Leaf) \cup Op("-", Sum, {n, g(one)})
Final == Choice(Value, Value)
Inner == Op("+", Final, {n, g(one)}) \cup {Call("g", <<n, c>>) : c \in Final}
Nested == {If(Call("<", <<n, m>>), a, c) :
             a \in Value, c \in Choice({n, g(n)}, {m, one, g(n)})}
Strings == {Str("s")} \cup Choice({Str("s")}, {Str("s"), Str("t")})

(* g takes anything.                                                       *)
gg == Extern("g", FuncType(<<Name("...")>>, Name("i32")))
F(body) == Def("f", <<Func(<<"n", "m">>, body)>>)
S(body) == Def("f", <<[Func(<<"n", "m">>, body) EXCEPT !.ret = Name("cstr")]>>)
Pair(a, b) == <<gg, F(<<a>>), Def("h", <<Func(<<"n">>, <<b>>)>>)>>

MCPrograms ==
  CASE Shape = "all" ->
         {<<gg, F(<<b>>)>> : b \in Straight \cup Final \cup Inner \cup Nested
                                    \cup {Call("g", <<Str("s"), Name("g")>>)}}
         \cup {<<gg, S(<<b>>)>> : b \in Strings}
         \cup {<<gg, F(<<a, b>>)>> : a \in Value \ {n, m}, b \in Op("+", Leaf, {one})}
         \cup {Pair(a, Call("f", <<n, b>>)) : a \in Choice({one}, {g(n)}), b \in Leaf}
    [] Shape = "constant tail" -> {<<gg, F(<<If(Bool(FALSE), Number(1), Number(2))>>)>>}

MCOrders == {Preorder(p) : p \in MCPrograms}
MCNodes == Elements(MCOrders)

(* Arguments that make each condition come out both ways, and a negative.  *)
Inputs == {[args |-> <<IntVal(p[1]), IntVal(p[2])>>, seed |-> 0] :
             p \in {<<1, 2>>, <<2, 1>>, <<5, 0>>, <<0, 0>>}}

(* What a stretch of code would do if it were handed to the back end now.  *)
Does(c) == Meaning(c, SymbolNames(symbols, data), Inputs)
Behaviour(c) == Does(remove_phi(c))

FunctionNodes == SelectSeq(Preorder(ast), LAMBDA d : d.kind = "FUNC")
Intended(i) == SourceMeaning(FunctionNodes[i], Inputs)
NoBranches(i) == \A d \in ToSet(Preorder(FunctionNodes[i].body)) :
                   d.kind = "CALL" => d.callee # "if"

-----------------------------------------------------------------------------
(* The two parts of an if, as ranges of positions: BIZ to its label, and    *)
(* from there to the label the first part jumps to (or, once the return is  *)
(* lifted and that jump is an EXIT, to the end).                           *)
LabelAt(c, l) == SelectInSeq(c, LAMBDA i : i.function = "LABEL" /\ i.x = l)
Branches(c) == {b \in DOMAIN c : c[b].function = "BIZ"}
ThenPart(c, b) == b .. LabelAt(c, c[b].y)
ElsePart(c, b) ==
  LET f == LabelAt(c, c[b].y)
  IN  f .. IF c[f - 1].function = "GOTO" THEN LabelAt(c, c[f - 1].x) ELSE Len(c)
Joins(c, b, p) == c[p].function = "PHI" /\ Max(ElsePart(c, b)) \in {p - 1, p}

Parts(c) == UNION {{ThenPart(c, b), ElsePart(c, b)} : b \in Branches(c)}

(* Wherever execution reaches j, it has been at i.                         *)
Dominates(c, i, j) == \A part \in Parts(c) : i \in part => j \in part

(* value_numbering merges two positions only if the first dominates.       *)
Mergeable(c) ==
  \A i, j \in DOMAIN c : i < j /\ SameValue(c[i], c[j]) => Dominates(c, i, j)

(* remove_phi and return_lifting need one operand set in its own part: with *)
(* both set ahead of the branch the copies are all made ahead of it.       *)
SetBefore(c, t, b) == \E i \in 1..(b - 1) : c[i].result = t
Separable(c) ==
  \A b \in Branches(c), p \in DOMAIN c :
    Joins(c, b, p) => \/ c[p].x = c[p].y
                        \/ ~SetBefore(c, c[p].x, b)
                        \/ ~SetBefore(c, c[p].y, b)

(* constant_propagation knows one value per temporary: a copy of a constant *)
(* must not go to a temporary that is set elsewhere too.                   *)
ConstantsFixed(c) ==
  \A i, j \in DOMAIN c :
    /\ i # j /\ c[i].result = c[j].result /\ c[i].result # 0
    => /\ c[i].function \notin {"LOAD_INT", "LOAD_SYM"}
       /\ c[i].function = "MOV" => ~KnownAt(c, i)[c[i].x].is_constant

VARIABLES
  blame,      \* the passes that met code they do not handle
  rounds      \* of the optimisation loop, for the function being compiled

mcvars == <<cvars, blame, rounds>>

Handled ==
  CASE pass = "value_numbering" -> Mergeable(codes[fn]) /\ Separable(value_numbering(codes[fn]).code)
    [] pass = "constant_propagation" -> ConstantsFixed(codes[fn])
    [] pass \in {"return_lifting", "remove_phi"} -> Separable(codes[fn])
    [] OTHER -> TRUE

MCInit == CompilerInit /\ blame = {} /\ rounds = 0
MCNext ==
  /\ CompilerNext
  /\ blame' = IF Handled THEN blame ELSE blame \cup {pass}
  /\ rounds' = IF pass = "while" THEN rounds + 1 ELSE IF fn' # fn THEN 0 ELSE rounds
MCSpec == MCInit /\ [][MCNext]_mcvars

-----------------------------------------------------------------------------
(* Each pass keeps what the code does: the value returned, the calls made   *)
(* with their arguments and order, and that it gets to the end.             *)
Keeps(before, after) == Behaviour(after) = Behaviour(before)

(* Until a return is lifted, what the theorems of PassesProofs ask of the    *)
(* code of a pass and of its runs is there.                                *)
InEveryRun(Cond(_, _, _)) ==
  \A in \in Inputs : Input(in) /\ Cond(codes[fn], SymbolNames(symbols, data), in)
Runs == IsSSA(codes[fn]) /\ blame = {} => InEveryRun(WellRun)

(* remove_unused: dropping a setter nobody reads, on any code the earlier   *)
(* passes left, temporaries set twice by a lifted return included.  Without *)
(* an if, every round begins with code that OptimiserKeepsMeaning covers.   *)
UnusedKept == [][RemoveUnused =>
  /\ Keeps(codes[fn], codes'[fn])
  /\ codes[fn] \in Code /\ ReadsResults(codes[fn])
  /\ NoBranches(fn) => StraightLine(codes[fn]) /\ InEveryRun(WellRun)]_cvars

(* constant_propagation, as long as a temporary that is set twice does not  *)
(* hold a constant.  (The tail if of two constants breaks that: TailRight.) *)
ConstKept == [][ConstantPropagation /\ Handled =>
  /\ Keeps(codes[fn], codes'[fn])
  /\ Indexable(codes[fn]) /\ ReadsResults(codes[fn]) /\ LoadsOnce(codes[fn]) /\ Runs]_mcvars

(* return_lifting: two returns in place of one, on any code.                *)
LiftKept == [][ReturnLifting => Keeps(codes[fn], codes'[fn])]_cvars

(* value_numbering, as long as the earlier of two equal instructions is on  *)
(* every path to the later and the PHIs stay separable.                     *)
VNKept == [][ValueNumbering /\ Handled =>
  /\ Keeps(codes[fn], codes'[fn])
  /\ ReadsResults(codes[fn]) /\ Runs
  /\ IsSSA(codes[fn]) /\ blame = {} => InEveryRun(MayMerge)]_mcvars

(* remove_phi: the copies do what the PHI did, when only one operand is     *)
(* there before the branch.  Code with a lifted return is past that: its    *)
(* PHI stands behind the last EXIT.                                        *)
PhiKept == [][RemovePhi /\ Handled /\ IsSSA(codes[fn]) =>
               Does(codes'[fn]) = Does(codes[fn])]_cvars

(* fold_temporaries: sharing registers loses no value.                      *)
FoldKept == [][FoldTemporaries /\ blame = {} =>
  /\ Keeps(codes[fn], codes'[fn])
  /\ NoPhi(codes[fn]) /\ Covered(codes[fn]) /\ ReadsResults(codes[fn]) /\ InEveryRun(ReadsSet)]_mcvars

(* From end to end: unless some pass met code it does not handle, and       *)
(* always if the function has no branches, the back end gets code that does *)
(* what the source says.                                                   *)
CompiledRight ==
  pass = "finished" /\ status = "done" =>
    \A i \in DOMAIN codes : blame = {} \/ NoBranches(i) => Does(codes[i]) = Intended(i)

(* What the back ends of src/src/targets take for granted of any code, right *)
(* or wrong: no PHI (UNREACHABLE there), the pushes of a call right in      *)
(* front of it (the stack frame is tracked along the text, not along the    *)
(* jumps), nothing to read for the first instruction, every jump forward to *)
(* a label in this function, and no addition or subtraction into its own    *)
(* second operand (mov r, x; add r, y).                                    *)
Pushes == {"CALL_PUSH", "CALL_PUSH_INT", "CALL_PUSH_SYM"}
Calls == {"CALL_SYM", "CALL_REG"}
PushedFor(c, i) == {j \in 1..(i - 1) : \A k \in j..(i - 1) : c[k].function \in Pushes}
TargetOf(inst) == IF inst.function = "GOTO" THEN inst.x ELSE inst.y
Ready(c) ==
  /\ c # <<>> => Reads(c[1]) = {}
  /\ \A i \in DOMAIN c :
       /\ c[i].function \notin {"PHI", "NOP"}
       /\ c[i].function \in Calls => /\ Cardinality(PushedFor(c, i)) = c[i].y
                                       /\ \A k \in PushedFor(c, i) : c[k].y = c[i].y
       /\ c[i].function \in Pushes => i < Len(c) /\ c[i + 1].function \in Pushes \cup Calls
       /\ c[i].function \in {"GOTO", "BIZ"} => LabelAt(c, TargetOf(c[i])) > i
       /\ c[i].function \in {"ADD", "SUB"} => c[i].y # c[i].result
       /\ Reads(c[i]) \subseteq Temps(c)
BackEndReady == pass = "finished" /\ status = "done" => \A i \in DOMAIN codes : Ready(codes[i])

(* The loop settles: each round that reports a change has made one that     *)
(* takes it closer, so a function has at most as many rounds as it had      *)
(* instructions.                                                           *)
Settles == fn \in DOMAIN codes => rounds <= Len(functions[fn].code)

(* A test of the repository says of (if false 1 2) that "it should output   *)
(* 2" (src/examples/ifelse.fsh:21): compiled functions return that too.     *)
TailRight == pass = "finished" => \A i \in DOMAIN codes : Does(codes[i]) = Intended(i)
=============================================================================
