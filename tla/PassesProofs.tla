---------------------------- MODULE PassesProofs ----------------------------
(***************************************************************************)
(* Proofs that the passes of src/src/tac.c keep what a code means, for every *)
(* code, every table of symbols, every width of a machine word and every    *)
(* set of inputs, as long as the code is one the pass handles.              *)
(***************************************************************************)
EXTENDS Optimiser, WellFoundedInduction, FiniteSetTheorems, SequenceTheorems, TLAPS

(* A set of natural numbers has a smallest one.                             *)
LEMMA Smallest ==
  ASSUME NEW S, S \subseteq Nat, S # {}
  PROVE  \E x \in S : \A y \in S : x <= y
<1>1. IsWellFoundedOn(OpToRel(<, Nat), Nat)
  BY NatLessThanWellFounded
<1>2. PICK x \in S : \A y \in S : ~(<<y, x>> \in OpToRel(<, Nat))
  BY <1>1, WFMin
<1>3. ASSUME NEW y \in Nat, NEW z \in Nat, y < z PROVE <<y, z>> \in OpToRel(<, Nat)
  BY <1>3, Zenon DEF OpToRel
<1>4. \A y \in S : ~ (y < x)
  BY <1>2, <1>3, Zenon
<1>5. QED
  BY <1>4

(* What holds up to n, from 0 on and from each number below n to the next.  *)
LEMMA UpTo ==
  ASSUME NEW n \in Nat, NEW S, 0 \in S,
         \A i \in 1..n : i - 1 \in S => i \in S
  PROVE  0..n \subseteq S
<1> SUFFICES ASSUME ~(0..n \subseteq S) PROVE FALSE
  OBVIOUS
<1> DEFINE R == {i \in 0..n : i \notin S}
<1>1. PICK x \in R : \A y \in R : x <= y
  <2>1. R \subseteq Nat /\ R # {}
    OBVIOUS
  <2> HIDE DEF R
  <2>2. QED
    BY <2>1, Smallest
<1>2. x \in 1..n /\ x - 1 \in 0..n
  OBVIOUS
<1>3. x - 1 \notin R
  BY <1>1, <1>2
<1>4. QED
  BY <1>2, <1>3

(* The machines after the prefixes of a code, up to the n-th.               *)
States0(code, symbols, in, n, f) ==
  f = [i \in 0..n |-> IF i = 0 THEN Start(in) ELSE Step(f[i - 1], code[i], symbols)]

(* The recursive function of States exists.                                 *)
LEMMA StatesExist ==
  ASSUME NEW code, NEW symbols, NEW in, NEW n \in Nat
  PROVE  \E f : States0(code, symbols, in, n, f)
<1> DEFINE S == {i \in 0..n : \E f : States0(code, symbols, in, i, f)}
<1>1. 0 \in S
  <2>1. States0(code, symbols, in, 0, [i \in 0..0 |-> Start(in)])
    BY DEF States0
  <2>2. QED
    BY <2>1
<1>2. ASSUME NEW k \in 1..n, k - 1 \in S PROVE k \in S
  <2>1. PICK f : States0(code, symbols, in, k - 1, f)
    BY <1>2
  <2> DEFINE g == [i \in 0..k |-> IF i = k THEN Step(f[k - 1], code[k], symbols) ELSE f[i]]
  <2>2. \A i \in 0..(k - 1) : f[i] = IF i = 0 THEN Start(in) ELSE Step(f[i - 1], code[i], symbols)
    BY <2>1 DEF States0
  <2>3. \A i \in 0..k : g[i] = IF i = 0 THEN Start(in) ELSE Step(g[i - 1], code[i], symbols)
    BY <2>2
  <2>4. g = [i \in 0..k |-> g[i]]
    OBVIOUS
  <2> HIDE DEF g
  <2>5. States0(code, symbols, in, k, g)
    BY <2>3, <2>4 DEF States0
  <2>6. QED
    BY <2>5
<1>3. 0..n \subseteq S
  <2> HIDE DEF S
  <2>1. QED
    BY <1>1, <1>2, UpTo
<1>4. QED
  BY <1>3

(* The machine after a prefix of the code is one step past the one before.  *)
LEMMA StatesAre ==
  ASSUME NEW code, NEW symbols, NEW in, Len(code) \in Nat
  PROVE  LET s == States(code, symbols, in)
         IN  /\ s[0] = Start(in)
             /\ \A i \in 1..Len(code) : s[i] = Step(s[i - 1], code[i], symbols)
<1>1. PICK f : f = [i \in 0..Len(code) |->
                      IF i = 0 THEN Start(in) ELSE Step(f[i - 1], code[i], symbols)]
  <2>1. PICK f : States0(code, symbols, in, Len(code), f)
    BY StatesExist
  <2>2. QED
    BY <2>1, Zenon DEF States0
<1>2. States(code, symbols, in) = [i \in 0..Len(code) |->
         IF i = 0 THEN Start(in) ELSE Step(States(code, symbols, in)[i - 1], code[i], symbols)]
  BY <1>1, Zenon DEF States
<1>3. QED
  BY <1>2

(* A machine is a record of its fields; two are the same but for registers. *)
Shaped(m) ==
  /\ m = [reg |-> m.reg, pushed |-> m.pushed, trace |-> m.trace, ret |-> m.ret,
          mode |-> m.mode, target |-> m.target, jumped |-> m.jumped, in |-> m.in]
SameBut(a, b) ==
  /\ a.pushed = b.pushed /\ a.trace = b.trace /\ a.ret = b.ret /\ a.mode = b.mode
  /\ a.target = b.target /\ a.jumped = b.jumped /\ a.in = b.in
(* The registers once t holds v.                                            *)
Upd(reg, t, v) == [u \in DOMAIN reg \cup {t} |-> IF u = t THEN v ELSE reg[u]]

(* Setting a register changes no other field.                               *)
LEMMA SetRegIs == ASSUME NEW m, Shaped(m), NEW t, NEW v
  PROVE /\ Shaped(SetReg(m, t, v)) /\ SetReg(m, t, v).reg = Upd(m.reg, t, v) /\ SameBut(SetReg(m, t, v), m)
BY DEF Shaped, SetReg, SameBut, Upd

(* Nor does setting one field change another.                               *)
LEMMA PushedSet ==
  ASSUME NEW m, Shaped(m), NEW q
  PROVE  LET e == [m EXCEPT !.pushed = q]
         IN  /\ Shaped(e) /\ e.reg = m.reg /\ e.pushed = q /\ e.trace = m.trace
             /\ e.ret = m.ret /\ e.mode = m.mode /\ e.target = m.target
             /\ e.jumped = m.jumped /\ e.in = m.in
BY DEF Shaped
(* The same for the trace.                                                  *)
LEMMA TraceSet ==
  ASSUME NEW m, Shaped(m), NEW t
  PROVE  LET e == [m EXCEPT !.trace = t]
         IN  /\ Shaped(e) /\ e.reg = m.reg /\ e.trace = t /\ e.pushed = m.pushed
             /\ e.ret = m.ret /\ e.mode = m.mode /\ e.target = m.target
             /\ e.jumped = m.jumped /\ e.in = m.in
BY DEF Shaped
(* What a call does to a machine before its answer is stored.               *)
Called(m, t, s) == [m EXCEPT !.trace = t, !.pushed = s]

(* It leaves machines the same that were.                                   *)
LEMMA CalledAlike ==
  ASSUME NEW a, Shaped(a), NEW b, Shaped(b), SameBut(a, b), NEW t, NEW s
  PROVE  LET e == Called(a, t, s)
             f == Called(b, t, s)
         IN  Shaped(e) /\ Shaped(f) /\ SameBut(e, f) /\ e.reg = a.reg /\ f.reg = b.reg
<1> DEFINE c == [a EXCEPT !.trace = t]
           d == [b EXCEPT !.trace = t]
<1>1. Called(a, t, s) = [c EXCEPT !.pushed = s] /\ Called(b, t, s) = [d EXCEPT !.pushed = s]
  BY DEF Called
<1>2. Shaped(c) /\ Shaped(d) /\ SameBut(c, d) /\ c.reg = a.reg /\ d.reg = b.reg
  BY TraceSet DEF SameBut
<1> HIDE DEF c, d
<1>3. QED
  BY <1>1, <1>2, PushedSet DEF SameBut

(* Calls with the same arguments do the same and answer the same.           *)
LEMMA CallAlike ==
  ASSUME NEW a, Shaped(a), NEW b, Shaped(b), SameBut(a, b),
         NEW c, NEW d, c.y = d.y, NEW callee
  PROVE  LET p == CallTo(a, callee, c)
             q == CallTo(b, callee, d)
         IN  /\ Shaped(p) /\ Shaped(q) /\ SameBut(p, q)
             /\ \E v : p.reg = Upd(a.reg, c.result, v) /\ q.reg = Upd(b.reg, d.result, v)
<1> DEFINE t == Append(a.trace, <<callee, SubSeq(a.pushed, 1, c.y)>>)
           s == SubSeq(a.pushed, c.y + 1, Len(a.pushed))
           e == Called(a, t, s)
           f == Called(b, t, s)
           v == Answer(a.in.seed, Len(e.trace))
<1>1. Shaped(e) /\ Shaped(f) /\ SameBut(e, f) /\ e.reg = a.reg /\ f.reg = b.reg
  BY CalledAlike
<1>2. CallTo(a, callee, c) = SetReg(e, c.result, v)
  BY DEF CallTo, Called
<1>3. CallTo(b, callee, d) = SetReg(f, d.result, v)
  <2>1. a.in = b.in /\ a.trace = b.trace /\ a.pushed = b.pushed /\ e.trace = f.trace
    BY <1>1 DEF SameBut
  <2>2. f = [b EXCEPT !.trace = Append(@, <<callee, SubSeq(b.pushed, 1, d.y)>>),
                      !.pushed = SubSeq(@, d.y + 1, Len(@))]
    BY <2>1 DEF Called
  <2> HIDE DEF e, f
  <2>3. v = Answer(b.in.seed, Len(f.trace))
    BY <2>1
  <2> HIDE DEF v
  <2>4. QED
    BY <2>2, <2>3, Zenon DEF CallTo
<1> HIDE DEF e, f, v
<1>4. QED
  BY <1>1, <1>2, <1>3, SetRegIs DEF SameBut

(* So do pushes.                                                            *)
LEMMA PushAlike ==
  ASSUME NEW a, Shaped(a), NEW b, Shaped(b), SameBut(a, b), NEW v
  PROVE  LET p == Push(a, v)
             q == Push(b, v)
         IN Shaped(p) /\ Shaped(q) /\ SameBut(p, q) /\ p.reg = a.reg /\ q.reg = b.reg
<1>1. ASSUME NEW s
      PROVE  LET e == [a EXCEPT !.pushed = s]
                 f == [b EXCEPT !.pushed = s]
             IN  Shaped(e) /\ Shaped(f) /\ SameBut(e, f) /\ e.reg = a.reg /\ f.reg = b.reg
  BY DEF Shaped, SameBut
<1> DEFINE s == <<v>> \o a.pushed
<1>2. Push(a, v) = [a EXCEPT !.pushed = s] /\ Push(b, v) = [b EXCEPT !.pushed = s]
  BY DEF Push, SameBut
<1> HIDE DEF s
<1> QED
  BY <1>1, <1>2

(* Two steps that set the same register fields, or none.                   *)
Alike(a, p, t, b, q, u) ==
  /\ Shaped(p) /\ Shaped(q) /\ SameBut(p, q)
  /\ \/ p.reg = a.reg /\ q.reg = b.reg
     \/ \E v : p.reg = Upd(a.reg, t, v) /\ q.reg = Upd(b.reg, u, v)

(* Two instructions of one kind on operands of the same value do the same,  *)
(* but for where they put the result.                                       *)
LEMMA ExecuteAlike ==
  ASSUME NEW a, Shaped(a), NEW b, Shaped(b), SameBut(a, b), NEW symbols,
         NEW c, NEW d, c.function = d.function,
         IF c.function \in BinaryOps \cup UnaryOps THEN Reg(a, c.x) = Reg(b, d.x) ELSE c.x = d.x,
         IF c.function \in BinaryOps THEN Reg(a, c.y) = Reg(b, d.y) ELSE c.y = d.y
  PROVE  Alike(a, Execute(a, c, symbols), c.result, b, Execute(b, d, symbols), d.result)
<1> DEFINE p == Execute(a, c, symbols)
           q == Execute(b, d, symbols)
<1> SUFFICES Alike(a, p, c.result, b, q, d.result)
  OBVIOUS
<1> USE DEF Alike
<1>1. CASE c.function = "LOAD_ARG"
  <2>1. p = SetReg(a, c.result, a.in.args[c.x + 1])
    BY <1>1 DEF Execute
  <2>2. q = SetReg(b, d.result, b.in.args[d.x + 1])
    BY <1>1 DEF Execute
  <2> QED
    BY <1>1, <2>1, <2>2, SetRegIs DEF SameBut, BinaryOps, UnaryOps
<1>2. CASE c.function = "LOAD_INT"
  <2>1. p = SetReg(a, c.result, IntVal(c.x))
    BY <1>2 DEF Execute
  <2>2. q = SetReg(b, d.result, IntVal(d.x))
    BY <1>2 DEF Execute
  <2> QED
    BY <1>2, <2>1, <2>2, SetRegIs DEF SameBut, BinaryOps, UnaryOps
<1>3. CASE c.function = "LOAD_SYM"
  <2>1. p = SetReg(a, c.result, SymVal(symbols[c.x]))
    BY <1>3 DEF Execute
  <2>2. q = SetReg(b, d.result, SymVal(symbols[d.x]))
    BY <1>3 DEF Execute
  <2> QED
    BY <1>3, <2>1, <2>2, SetRegIs DEF SameBut, BinaryOps, UnaryOps
<1>4. CASE c.function = "MOV"
  <2>1. p = SetReg(a, c.result, Reg(a, c.x))
    BY <1>4 DEF Execute
  <2>2. q = SetReg(b, d.result, Reg(b, d.x))
    BY <1>4 DEF Execute
  <2> QED
    BY <1>4, <2>1, <2>2, SetRegIs DEF SameBut, BinaryOps, UnaryOps
<1>5. CASE c.function = "ADD"
  <2>1. p = SetReg(a, c.result, Plus(Reg(a, c.x), Reg(a, c.y)))
    BY <1>5 DEF Execute
  <2>2. q = SetReg(b, d.result, Plus(Reg(b, d.x), Reg(b, d.y)))
    BY <1>5 DEF Execute
  <2> QED
    BY <1>5, <2>1, <2>2, SetRegIs DEF SameBut, BinaryOps, UnaryOps
<1>6. CASE c.function = "ADDI"
  <2>1. p = SetReg(a, c.result, Plus(Reg(a, c.x), IntVal(c.y)))
    BY <1>6 DEF Execute
  <2>2. q = SetReg(b, d.result, Plus(Reg(b, d.x), IntVal(d.y)))
    BY <1>6 DEF Execute
  <2> QED
    BY <1>6, <2>1, <2>2, SetRegIs DEF SameBut, BinaryOps, UnaryOps
<1>7. CASE c.function = "SUB"
  <2>1. p = SetReg(a, c.result, Minus(Reg(a, c.x), Reg(a, c.y)))
    BY <1>7 DEF Execute
  <2>2. q = SetReg(b, d.result, Minus(Reg(b, d.x), Reg(b, d.y)))
    BY <1>7 DEF Execute
  <2> QED
    BY <1>7, <2>1, <2>2, SetRegIs DEF SameBut, BinaryOps, UnaryOps
<1>8. CASE c.function = "SUBI"
  <2>1. p = SetReg(a, c.result, Minus(Reg(a, c.x), IntVal(c.y)))
    BY <1>8 DEF Execute
  <2>2. q = SetReg(b, d.result, Minus(Reg(b, d.x), IntVal(d.y)))
    BY <1>8 DEF Execute
  <2> QED
    BY <1>8, <2>1, <2>2, SetRegIs DEF SameBut, BinaryOps, UnaryOps
<1>9. CASE c.function = "LT"
  <2>1. p = SetReg(a, c.result, Less(Reg(a, c.x), Reg(a, c.y)))
    BY <1>9 DEF Execute
  <2>2. q = SetReg(b, d.result, Less(Reg(b, d.x), Reg(b, d.y)))
    BY <1>9 DEF Execute
  <2> QED
    BY <1>9, <2>1, <2>2, SetRegIs DEF SameBut, BinaryOps, UnaryOps
<1>10. CASE c.function = "LTI"
  <2>1. p = SetReg(a, c.result, Less(Reg(a, c.x), IntVal(c.y)))
    BY <1>10 DEF Execute
  <2>2. q = SetReg(b, d.result, Less(Reg(b, d.x), IntVal(d.y)))
    BY <1>10 DEF Execute
  <2> QED
    BY <1>10, <2>1, <2>2, SetRegIs DEF SameBut, BinaryOps, UnaryOps
<1>11. CASE c.function = "PHI"
  <2>1. p = SetReg(a, c.result, (IF a.jumped THEN Reg(a, c.x) ELSE Reg(a, c.y)))
    BY <1>11 DEF Execute
  <2>2. q = SetReg(b, d.result, (IF b.jumped THEN Reg(b, d.x) ELSE Reg(b, d.y)))
    BY <1>11 DEF Execute
  <2> QED
    BY <1>11, <2>1, <2>2, SetRegIs DEF SameBut, BinaryOps, UnaryOps
<1>12. CASE c.function = "CALL_PUSH"
  <2>1. p = Push(a, Reg(a, c.x))
    BY <1>12 DEF Execute
  <2>2. q = Push(b, Reg(b, d.x))
    BY <1>12 DEF Execute
  <2> QED
    BY <1>12, <2>1, <2>2, PushAlike DEF BinaryOps, UnaryOps
<1>13. CASE c.function = "CALL_PUSH_INT"
  <2>1. p = Push(a, IntVal(c.x))
    BY <1>13 DEF Execute
  <2>2. q = Push(b, IntVal(d.x))
    BY <1>13 DEF Execute
  <2> QED
    BY <1>13, <2>1, <2>2, PushAlike DEF BinaryOps, UnaryOps
<1>14. CASE c.function = "CALL_PUSH_SYM"
  <2>1. p = Push(a, SymVal(symbols[c.x]))
    BY <1>14 DEF Execute
  <2>2. q = Push(b, SymVal(symbols[d.x]))
    BY <1>14 DEF Execute
  <2> QED
    BY <1>14, <2>1, <2>2, PushAlike DEF BinaryOps, UnaryOps
<1>15. CASE c.function = "RETURN_VAL"
  <2>1. p = [a EXCEPT !.ret = Reg(a, c.x)]
    BY <1>15 DEF Execute
  <2>2. q = [b EXCEPT !.ret = Reg(b, d.x)]
    BY <1>15 DEF Execute
  <2> QED
    BY <1>15, <2>1, <2>2 DEF BinaryOps, UnaryOps, Goto, SameBut, Shaped
<1>16. CASE c.function = "RETURN_INT"
  <2>1. p = [a EXCEPT !.ret = IntVal(c.x)]
    BY <1>16 DEF Execute
  <2>2. q = [b EXCEPT !.ret = IntVal(d.x)]
    BY <1>16 DEF Execute
  <2> QED
    BY <1>16, <2>1, <2>2 DEF BinaryOps, UnaryOps, Goto, SameBut, Shaped
<1>17. CASE c.function = "EXIT"
  <2>1. p = [a EXCEPT !.mode = "done"]
    BY <1>17 DEF Execute
  <2>2. q = [b EXCEPT !.mode = "done"]
    BY <1>17 DEF Execute
  <2> QED
    BY <1>17, <2>1, <2>2 DEF BinaryOps, UnaryOps, Goto, SameBut, Shaped
<1>18. CASE c.function = "GOTO"
  <2>1. p = Goto(a, c.x)
    BY <1>18 DEF Execute
  <2>2. q = Goto(b, d.x)
    BY <1>18 DEF Execute
  <2> QED
    BY <1>18, <2>1, <2>2 DEF BinaryOps, UnaryOps, Goto, SameBut, Shaped
<1>19. CASE c.function = "LABEL"
  <2>1. p = [a EXCEPT !.jumped = FALSE]
    BY <1>19 DEF Execute
  <2>2. q = [b EXCEPT !.jumped = FALSE]
    BY <1>19 DEF Execute
  <2> QED
    BY <1>19, <2>1, <2>2 DEF BinaryOps, UnaryOps, Goto, SameBut, Shaped
<1>20. CASE c.function = "BIZ"
  <2>1. p = IF Reg(a, c.x) = NoVal THEN [a EXCEPT !.mode = "bad"]
            ELSE IF Reg(a, c.x) = IntVal(0) THEN Goto(a, c.y) ELSE a
    BY <1>20 DEF Execute
  <2>2. q = IF Reg(b, d.x) = NoVal THEN [b EXCEPT !.mode = "bad"]
            ELSE IF Reg(b, d.x) = IntVal(0) THEN Goto(b, d.y) ELSE b
    BY <1>20 DEF Execute
  <2>3. PICK v, l : v = Reg(a, c.x) /\ v = Reg(b, d.x) /\ l = c.y /\ l = d.y
    BY <1>20 DEF BinaryOps, UnaryOps
  <2> HIDE DEF p, q
  <2>4. CASE v = NoVal
    <3>1. p = [a EXCEPT !.mode = "bad"] /\ q = [b EXCEPT !.mode = "bad"]
      BY <2>1, <2>2, <2>3, <2>4
    <3>2. QED
      BY <3>1 DEF SameBut, Shaped
  <2>5. CASE v # NoVal /\ v = IntVal(0)
    <3>1. p = Goto(a, l) /\ q = Goto(b, l)
      BY <2>1, <2>2, <2>3, <2>5
    <3>2. QED
      BY <3>1 DEF Goto, SameBut, Shaped
  <2>6. CASE v # NoVal /\ v # IntVal(0)
    <3>1. p = a /\ q = b
      BY <2>1, <2>2, <2>3, <2>6
    <3>2. QED
      BY <3>1
  <2>7. QED
    BY <2>4, <2>5, <2>6
<1>21. CASE c.function = "CALL_SYM"
  <2>1. p = CallTo(a, SymVal(symbols[c.x]), c)
    BY <1>21 DEF Execute
  <2>2. q = CallTo(b, SymVal(symbols[d.x]), d)
    BY <1>21 DEF Execute
  <2> QED
    BY <1>21, <2>1, <2>2, CallAlike DEF BinaryOps, UnaryOps
<1>22. CASE c.function = "CALL_REG"
  <2>1. p = CallTo(a, Reg(a, c.x), c)
    BY <1>22 DEF Execute
  <2>2. q = CallTo(b, Reg(b, d.x), d)
    BY <1>22 DEF Execute
  <2> QED
    BY <1>22, <2>1, <2>2, CallAlike DEF BinaryOps, UnaryOps
<1>23. CASE c.function \notin {"LOAD_ARG", "LOAD_INT", "LOAD_SYM", "MOV", "ADD", "ADDI", "SUB", "SUBI",
                                "LT", "LTI", "PHI", "CALL_PUSH", "CALL_PUSH_INT", "CALL_PUSH_SYM",
                                "RETURN_VAL", "RETURN_INT", "EXIT", "GOTO", "LABEL", "BIZ",
                                "CALL_SYM", "CALL_REG"}
  <2>1. p = a /\ q = b
    BY <1>23 DEF Execute
  <2> QED
    BY <2>1
<1> QED
  BY <1>1, <1>2, <1>3, <1>4, <1>5, <1>6, <1>7, <1>8, <1>9, <1>10, <1>11, <1>12,
     <1>13, <1>14, <1>15, <1>16, <1>17, <1>18, <1>19, <1>20, <1>21, <1>22, <1>23

(* The same for a step, which may be looking for a label.                   *)
LEMMA StepAlike ==
  ASSUME NEW a, Shaped(a), NEW b, Shaped(b), SameBut(a, b), NEW symbols,
         NEW c, NEW d, c.function = d.function,
         c.function \notin BinaryOps \cup UnaryOps => c.x = d.x,
         c.function \notin BinaryOps => c.y = d.y,
         a.mode = "run" /\ c.function \in BinaryOps \cup UnaryOps => Reg(a, c.x) = Reg(b, d.x),
         a.mode = "run" /\ c.function \in BinaryOps => Reg(a, c.y) = Reg(b, d.y)
  PROVE  Alike(a, Step(a, c, symbols), c.result, b, Step(b, d, symbols), d.result)
<1>1. a.mode = b.mode /\ a.target = b.target
  BY DEF SameBut
<1>2. CASE a.mode = "run"
  <2>1. Step(a, c, symbols) = Execute(a, c, symbols)
    BY <1>2 DEF Step
  <2>2. Step(b, d, symbols) = Execute(b, d, symbols)
    BY <1>1, <1>2 DEF Step
  <2>3. IF c.function \in BinaryOps \cup UnaryOps THEN Reg(a, c.x) = Reg(b, d.x) ELSE c.x = d.x
    BY <1>2
  <2>4. IF c.function \in BinaryOps THEN Reg(a, c.y) = Reg(b, d.y) ELSE c.y = d.y
    BY <1>2
  <2>5. QED
    BY <2>1, <2>2, <2>3, <2>4, ExecuteAlike
<1>3. CASE a.mode = "skip" /\ c.function = "LABEL" /\ c.x = a.target
  <2>1. c.x = d.x
    BY <1>3 DEF BinaryOps, UnaryOps
  <2>2. Step(a, c, symbols) = [[a EXCEPT !.mode = "run"] EXCEPT !.jumped = TRUE]
    BY <1>3 DEF Step
  <2>3. Step(b, d, symbols) = [[b EXCEPT !.mode = "run"] EXCEPT !.jumped = TRUE]
    BY <1>1, <1>3, <2>1 DEF Step
  <2>4. PICK e, f : e = [a EXCEPT !.mode = "run"] /\ f = [b EXCEPT !.mode = "run"]
    OBVIOUS
  <2>5. Shaped(e) /\ Shaped(f) /\ SameBut(e, f) /\ e.reg = a.reg /\ f.reg = b.reg
    BY <2>4 DEF Shaped, SameBut
  <2>6. Step(a, c, symbols) = [e EXCEPT !.jumped = TRUE] /\ Step(b, d, symbols) = [f EXCEPT !.jumped = TRUE]
    BY <2>2, <2>3, <2>4
  <2>7. QED
    BY <2>5, <2>6 DEF Alike, Shaped, SameBut
<1>4. CASE ~(a.mode = "run") /\ ~(a.mode = "skip" /\ c.function = "LABEL" /\ c.x = a.target)
  <2>1. ~(b.mode = "skip" /\ d.function = "LABEL" /\ d.x = b.target)
    BY <1>1, <1>4 DEF BinaryOps, UnaryOps
  <2>2. Step(a, c, symbols) = a /\ Step(b, d, symbols) = b
    BY <1>1, <1>4, <2>1 DEF Step
  <2>3. QED
    BY <2>2 DEF Alike
<1>5. QED
  BY <1>2, <1>3, <1>4

(* A pure instruction sets its result and does nothing else.                *)
LEMMA PureStep ==
  ASSUME NEW a, Shaped(a), NEW symbols, NEW c, IsPure(c)
  PROVE  LET p == Step(a, c, symbols)
         IN  /\ Shaped(p) /\ SameBut(p, a)
             /\ p.reg = a.reg \/ \E v : p.reg = Upd(a.reg, c.result, v)
<1>1. Step(a, c, symbols) = a \/ \E v : Step(a, c, symbols) = SetReg(a, c.result, v)
  <2>1. c.function # "LABEL" 
    BY DEF IsPure, PureOps
  <2>2. Execute(a, c, symbols) = a \/ \E v : Execute(a, c, symbols) = SetReg(a, c.result, v)
    BY DEF IsPure, PureOps, Execute
  <2>3. QED
    BY <2>1, <2>2 DEF Step
<1>2. QED
  BY <1>1, SetRegIs DEF SameBut

(* How a run begins.                                                        *)
LEMMA StartIs ==
  ASSUME NEW in
  PROVE  Shaped(Start(in)) /\ Start(in).reg = <<>> /\ Start(in).mode = "run" /\ Start(in).in = in
BY DEF Shaped, Start

(* Runs that end the same but for registers look the same to a caller.      *)
LEMMA SameOutcome ==
  ASSUME NEW c, NEW d, NEW symbols, NEW in,
         SameBut(Run(c, symbols, in), Run(d, symbols, in))
  PROVE  Outcome(c, symbols, in) = Outcome(d, symbols, in)
BY DEF Outcome, SameBut

(* What the registers hold once t holds v.                                  *)
LEMMA SetReg2 ==
  ASSUME NEW reg, NEW t, NEW v, NEW u
  PROVE  /\ DOMAIN Upd(reg, t, v) = DOMAIN reg \cup {t}
         /\ u \in DOMAIN reg \cup {t} => Upd(reg, t, v)[u] = IF u = t THEN v ELSE reg[u]
BY DEF Upd

(* Steps that are alike leave all other registers, and agree on the result. *)
LEMMA AlikeRegs ==
  ASSUME NEW a, NEW p, NEW t, NEW b, NEW q, NEW u, Alike(a, p, t, b, q, u)
  PROVE  /\ \A s : s # t => (s \in DOMAIN p.reg <=> s \in DOMAIN a.reg) /\ Reg(p, s) = Reg(a, s)
         /\ \A s : s # u => (s \in DOMAIN q.reg <=> s \in DOMAIN b.reg) /\ Reg(q, s) = Reg(b, s)
         /\ \/ p.reg = a.reg /\ q.reg = b.reg
            \/ t \in DOMAIN p.reg /\ u \in DOMAIN q.reg /\ Reg(p, t) = Reg(q, u)
<1>1. CASE p.reg = a.reg /\ q.reg = b.reg
  BY <1>1 DEF Reg
<1>2. CASE \E v : p.reg = Upd(a.reg, t, v) /\ q.reg = Upd(b.reg, u, v)
  <2>1. PICK v : p.reg = Upd(a.reg, t, v) /\ q.reg = Upd(b.reg, u, v)
    BY <1>2
  <2>2. /\ DOMAIN p.reg = DOMAIN a.reg \cup {t}
        /\ \A s \in DOMAIN p.reg : p.reg[s] = IF s = t THEN v ELSE a.reg[s]
    BY <2>1 DEF Upd
  <2>3. /\ DOMAIN q.reg = DOMAIN b.reg \cup {u}
        /\ \A s \in DOMAIN q.reg : q.reg[s] = IF s = u THEN v ELSE b.reg[s]
    BY <2>1 DEF Upd
  <2>4. QED
    BY <2>2, <2>3 DEF Reg
<1>3. QED
  BY <1>1, <1>2 DEF Alike

-----------------------------------------------------------------------------
(* Min and Max of what they are taken of here.                             *)
LEMMA MinIs ==
  ASSUME NEW S, S \subseteq Nat, S # {}
  PROVE  Min(S) \in S /\ \A y \in S : Min(S) <= y
<1>1. PICK x \in S : \A y \in S : x <= y
  BY Smallest
<1>2. QED
  BY <1>1 DEF Min

(* Max is the largest.                                                      *)
LEMMA MaxIs ==
  ASSUME NEW n \in Nat, NEW S, S \subseteq 0..n, S # {}
  PROVE  Max(S) \in S /\ \A y \in S : Max(S) >= y
<1> DEFINE B == {b \in Nat : \A y \in S : y <= b}
<1>1. PICK x \in B : \A y \in B : x <= y
  <2>1. n \in B
    OBVIOUS
  <2>2. B \subseteq Nat /\ B # {}
    BY <2>1
  <2> HIDE DEF B
  <2>3. QED
    BY <2>2, Smallest
<1>2. x \in S
  <2>1. SUFFICES ASSUME x \notin S PROVE FALSE
    OBVIOUS
  <2>2. x \in Nat /\ \A y \in S : y \in Nat /\ y <= x /\ y # x
    BY <2>1
  <2>3. PICK z : z \in S
    OBVIOUS
  <2>4. z \in Nat /\ z <= x /\ z # x
    BY <2>2, <2>3
  <2>5. x - 1 \in Nat
    BY <2>2, <2>4
  <2>6. ASSUME NEW y \in S PROVE y <= x - 1
    BY <2>2, <2>6
  <2>7. x - 1 \in B
    BY <2>5, <2>6
  <2>8. QED
    BY <1>1, <2>2, <2>7
<1>3. QED
  BY <1>1, <1>2 DEF Max

(* The results of a code have a highest.                                   *)
LEMMA CountIs ==
  ASSUME NEW code \in Code
  PROVE  /\ count_temps(code) \in Nat
         /\ \A i \in DOMAIN code : code[i].result <= count_temps(code)
         /\ count_temps(code) = 0 \/ \E i \in DOMAIN code : code[i].result = count_temps(code)
<1>1. Len(code) \in Nat /\ DOMAIN code = 1..Len(code) /\ \A i \in 1..Len(code) : code[i] \in Instruction
  BY DEF Code
<1> DEFINE Bound(i, n) == \A k \in 1..i : code[k].result <= n
           S == {i \in 0..Len(code) : \E n \in Nat : Bound(i, n)}
<1>2. 0 \in S
  <2>1. Bound(0, 0)
    OBVIOUS
  <2>2. QED
    BY <1>1, <2>1
<1>3. ASSUME NEW i \in 1..Len(code), i - 1 \in S PROVE i \in S
  <2>1. PICK n \in Nat : Bound(i - 1, n)
    BY <1>3
  <2>2. code[i].result \in Nat
    BY <1>1 DEF Instruction
  <2> DEFINE m == IF code[i].result <= n THEN n ELSE code[i].result
  <2>3. m \in Nat /\ Bound(i, m)
    <3>1. \A k \in 1..i : code[k].result \in Nat
      BY <1>1 DEF Instruction
    <3>2. \A k \in 1..i : k = i \/ k \in 1..(i - 1)
      OBVIOUS
    <3>3. QED
      BY <2>1, <2>2, <3>1, <3>2
  <2> HIDE DEF Bound, m
  <2>4. QED
    BY <2>3
<1>4. Len(code) \in S
  <2> HIDE DEF S
  <2>1. QED
    BY <1>1, <1>2, <1>3, UpTo
<1>5. PICK n \in Nat : \A k \in 1..Len(code) : code[k].result <= n
  BY <1>4
<1>6. {0} \cup Results(code) \subseteq 0..n /\ {0} \cup Results(code) # {}
  <2>1. \A k \in 1..Len(code) : code[k].result \in 0..n
    BY <1>1, <1>5 DEF Instruction
  <2>2. QED
    BY <1>1, <2>1 DEF Results
<1>7. Max({0} \cup Results(code)) \in {0} \cup Results(code)
      /\ \A y \in {0} \cup Results(code) : Max({0} \cup Results(code)) >= y
  BY <1>6, MaxIs
<1>8. \A k \in DOMAIN code : code[k].result \in {0} \cup Results(code)
  BY DEF Results
<1>9. Max({0} \cup Results(code)) = 0
      \/ \E i \in DOMAIN code : code[i].result = Max({0} \cup Results(code))
  BY <1>7 DEF Results
<1>10. count_temps(code) \in Nat /\ \A i \in DOMAIN code : code[i].result <= count_temps(code)
  BY <1>6, <1>7, <1>8 DEF count_temps
<1>11. QED
  BY <1>9, <1>10 DEF count_temps

-----------------------------------------------------------------------------
(* remove_nops                                                             *)
Kept0(code, n, f) ==
  f = [i \in 0..n |-> IF i = 0 THEN <<>>
                      ELSE IF code[i].function = "NOP" THEN f[i - 1]
                      ELSE Append(f[i - 1], code[i])]

(* The recursive function of remove_nops exists,                            *)
LEMMA KeptExist ==
  ASSUME NEW code, NEW n \in Nat
  PROVE  \E f : Kept0(code, n, f)
<1> DEFINE S == {i \in 0..n : \E f : Kept0(code, i, f)}
<1>1. 0 \in S
  <2>1. Kept0(code, 0, [i \in 0..0 |-> <<>>])
    BY DEF Kept0
  <2>2. QED
    BY <2>1
<1>2. ASSUME NEW k \in 1..n, k - 1 \in S PROVE k \in S
  <2>1. PICK f : Kept0(code, k - 1, f)
    BY <1>2
  <2> DEFINE K(g, i) == IF i = 0 THEN <<>>
                        ELSE IF code[i].function = "NOP" THEN g[i - 1]
                        ELSE Append(g[i - 1], code[i])
             g == [i \in 0..k |-> IF i = k THEN K(f, k) ELSE f[i]]
  <2>2. \A i \in 0..(k - 1) : f[i] = K(f, i)
    BY <2>1 DEF Kept0
  <2>3. \A i \in 0..k : g[i] = K(g, i)
    BY <2>2
  <2>4. g = [i \in 0..k |-> g[i]]
    OBVIOUS
  <2> HIDE DEF g
  <2>5. Kept0(code, k, g)
    BY <2>3, <2>4 DEF Kept0
  <2>6. QED
    BY <2>5
<1>3. 0..n \subseteq S
  <2> HIDE DEF S
  <2>1. QED
    BY <1>1, <1>2, UpTo
<1>4. QED
  BY <1>3

(* and goes by the instruction.                                             *)
LEMMA KeptAre ==
  ASSUME NEW code, Len(code) \in Nat
  PROVE  \E f : /\ remove_nops(code) = f[Len(code)]
                /\ f[0] = <<>>
                /\ \A i \in 1..Len(code) :
                     f[i] = IF code[i].function = "NOP" THEN f[i - 1]
                            ELSE Append(f[i - 1], code[i])
<1>1. PICK f : Kept0(code, Len(code), f)
  BY KeptExist
<1>2. PICK g : remove_nops(code) = g[Len(code)] /\ Kept0(code, Len(code), g)
  BY <1>1, Zenon DEF remove_nops, Kept0
<1> DEFINE K(i) == IF code[i].function = "NOP" THEN g[i - 1] ELSE Append(g[i - 1], code[i])
           L(i) == IF i = 0 THEN <<>> ELSE K(i)
<1>3. \A i \in 0..Len(code) : g[i] = L(i)
  <2>1. g = [i \in 0..Len(code) |-> L(i)]
    BY <1>2 DEF Kept0
  <2> HIDE DEF L
  <2>2. QED
    BY <2>1
<1>4. g[0] = <<>> /\ \A i \in 1..Len(code) : g[i] = K(i)
  <2> HIDE DEF K
  <2>1. QED
    BY <1>3
<1>5. QED
  BY <1>2, <1>4

(* Running one instruction more.                                           *)
LEMMA RunAppend ==
  ASSUME NEW code \in Code, NEW c \in Instruction, NEW symbols, NEW in
  PROVE  Run(Append(code, c), symbols, in) = Step(Run(code, symbols, in), c, symbols)
<1> DEFINE e == Append(code, c)
           n == Len(code)
           s == States(code, symbols, in)
           r == States(e, symbols, in)
<1>1. n \in Nat /\ e \in Code /\ Len(e) = n + 1 /\ e[n + 1] = c /\ \A i \in 1..n : e[i] = code[i]
  BY DEF Code
<1>2. s[0] = Start(in) /\ \A i \in 1..n : s[i] = Step(s[i - 1], code[i], symbols)
  BY <1>1, StatesAre
<1>3. r[0] = Start(in) /\ \A i \in 1..(n + 1) : r[i] = Step(r[i - 1], e[i], symbols)
  <2>1. Len(e) \in Nat
    BY <1>1
  <2> HIDE DEF e
  <2>2. r[0] = Start(in) /\ \A i \in 1..Len(e) : r[i] = Step(r[i - 1], e[i], symbols)
    BY <2>1, StatesAre
  <2>3. QED
    BY <1>1, <2>2
<1> HIDE DEF e, s, r
<1> DEFINE S == {i \in 0..n : r[i] = s[i]}
<1>4. 0 \in S
  BY <1>1, <1>2, <1>3
<1>5. ASSUME NEW i \in 1..n, i - 1 \in S PROVE i \in S
  BY <1>1, <1>2, <1>3, <1>5
<1>6. 0..n \subseteq S
  <2> HIDE DEF S
  <2>1. QED
    BY <1>1, <1>4, <1>5, UpTo
<1>7. r[n + 1] = Step(s[n], c, symbols)
  BY <1>1, <1>3, <1>6
<1>8. QED
  BY <1>1, <1>7 DEF Run, e, s, r

(* A NOP does nothing,                                                      *)
LEMMA NopSteps ==
  ASSUME NEW m, NEW c, c.function = "NOP", NEW symbols
  PROVE  Step(m, c, symbols) = m
BY DEF Step, Execute

(* so the run without the NOPs ends like the one with them.                 *)
LEMMA NopsGone ==
  ASSUME NEW code \in Code, NEW symbols, NEW in
  PROVE  /\ remove_nops(code) \in Code
         /\ Run(remove_nops(code), symbols, in) = Run(code, symbols, in)
<1> DEFINE n == Len(code)
           s == States(code, symbols, in)
<1>1. n \in Nat /\ DOMAIN code = 1..n /\ \A i \in 1..n : code[i] \in Instruction
  BY DEF Code
<1>2. s[0] = Start(in) /\ \A i \in 1..n : s[i] = Step(s[i - 1], code[i], symbols)
  BY <1>1, StatesAre
<1>3. PICK f : /\ remove_nops(code) = f[n] /\ f[0] = <<>>
               /\ \A i \in 1..n : f[i] = IF code[i].function = "NOP" THEN f[i - 1]
                                         ELSE Append(f[i - 1], code[i])
  BY <1>1, KeptAre
<1> HIDE DEF s
<1> DEFINE S == {i \in 0..n : f[i] \in Code /\ Run(f[i], symbols, in) = s[i]}
<1>4. 0 \in S
  <2>1. <<>> \in Code /\ Len(<<>>) = 0
    BY DEF Code
  <2>2. States(<<>>, symbols, in)[0] = Start(in)
    BY <2>1, StatesAre
  <2>3. QED
    BY <1>1, <1>2, <1>3, <2>1, <2>2 DEF Run
<1>5. ASSUME NEW i \in 1..n, i - 1 \in S PROVE i \in S
  <2>1. f[i - 1] \in Code /\ Run(f[i - 1], symbols, in) = s[i - 1] /\ code[i] \in Instruction
    BY <1>1, <1>5
  <2>2. s[i] = Step(s[i - 1], code[i], symbols)
    BY <1>2
  <2>3. CASE code[i].function = "NOP"
    BY <1>3, <2>1, <2>2, <2>3, NopSteps
  <2>4. CASE code[i].function # "NOP"
    <3>1. f[i] = Append(f[i - 1], code[i])
      BY <1>3, <2>4
    <3>2. f[i] \in Code
      BY <2>1, <3>1 DEF Code
    <3>3. Run(f[i], symbols, in) = s[i]
      BY <2>1, <2>2, <3>1, RunAppend
    <3>4. QED
      BY <3>2, <3>3
  <2>5. QED
    BY <2>3, <2>4
<1>6. 0..n \subseteq S
  <2> HIDE DEF S
  <2>1. QED
    BY <1>1, <1>4, <1>5, UpTo
<1>7. QED
  BY <1>1, <1>3, <1>6 DEF Run, s

(* Code is a sequence of instructions.                                      *)
CodeFacts(code) ==
  /\ Len(code) \in Nat /\ DOMAIN code = 1..Len(code)
  /\ \A i \in 1..Len(code) : code[i] \in Instruction

(* That is what code is.                                                    *)
LEMMA CodeIs == ASSUME NEW code \in Code PROVE CodeFacts(code)
BY DEF Code, CodeFacts

(* Operands that are temporaries are read.                                  *)
LEMMA ReadsAre ==
  ASSUME NEW c
  PROVE  /\ c.function \in BinaryOps \cup UnaryOps => c.x \in Reads(c)
         /\ c.function \in BinaryOps => c.y \in Reads(c)
BY DEF Reads, BinaryOps, UnaryOps

(* A temporary mentioned first where it is mentioned last is mentioned once. *)
LEMMA MentionedOnce ==
  ASSUME NEW code \in Code, NEW t, FirstUse(code, t) = LastUse(code, t),
         NEW i \in DOMAIN code, t \in Mentions(code[i]),
         NEW j \in DOMAIN code, t \in Mentions(code[j])
  PROVE  i = j
<1>1. Len(code) \in Nat /\ DOMAIN code = 1..Len(code)
  BY DEF Code
<1> DEFINE S == MentionedAt(code, t)
<1>2. S \subseteq 0..Len(code) /\ S \subseteq Nat /\ S # {} /\ i \in S /\ j \in S
  BY <1>1 DEF MentionedAt
<1>3. Min(S) = Max(S)
  BY <1>2 DEF FirstUse, LastUse
<1> HIDE DEF S
<1>4. Min(S) \in S /\ \A y \in S : Min(S) <= y
  BY <1>2, MinIs
<1>5. \A y \in S : Max(S) >= y
  BY <1>1, <1>2, MaxIs
<1>6. ASSUME NEW y \in S PROVE y = Min(S)
  <2>1. y \in Nat /\ Min(S) \in Nat /\ Min(S) <= y /\ Min(S) >= y
    BY <1>2, <1>3, <1>4, <1>5
  <2>2. QED
    BY <2>1
<1>7. QED
  BY <1>2, <1>6

(* remove_unused before the NOPs go: the results of unused are taken away.  *)
Stripped(code, unused) ==
  [i \in DOMAIN code |-> IF code[i].result \in unused
                         THEN LET inst == [code[i] EXCEPT !.result = 0]
                              IN  IF IsPure(inst) THEN NopOut(inst) ELSE inst
                         ELSE code[i]]

(* What that makes of an instruction.                                       *)
LEMMA StrippedIs ==
  ASSUME NEW code \in Code, NEW unused
  PROVE  /\ Stripped(code, unused) \in Code
         /\ Len(Stripped(code, unused)) = Len(code)
         /\ \A i \in 1..Len(code) :
              LET c == code[i]
                  d == Stripped(code, unused)[i]
              IN  /\ c.result \notin unused => d = c
                  /\ c.result \in unused /\ IsPure(c) => d.function = "NOP"
                  /\ c.result \in unused /\ ~IsPure(c) =>
                       /\ d.result = 0 /\ d.function = c.function /\ d.x = c.x /\ d.y = c.y
<1>1. CodeFacts(code)
  BY CodeIs
<1> DEFINE D(c) == IF c.result \in unused
                   THEN LET inst == [c EXCEPT !.result = 0]
                        IN  IF IsPure(inst) THEN NopOut(inst) ELSE inst
                   ELSE c
<1>2. ASSUME NEW c \in Instruction
      PROVE  /\ D(c) \in Instruction
             /\ c.result \notin unused => D(c) = c
             /\ c.result \in unused /\ IsPure(c) => D(c).function = "NOP"
             /\ c.result \in unused /\ ~IsPure(c) =>
                  /\ D(c).result = 0 /\ D(c).function = c.function
                  /\ D(c).x = c.x /\ D(c).y = c.y
  BY DEF Instruction, IsPure, NopOut, Ops, NullaryOps
<1> DEFINE s == [i \in 1..Len(code) |-> D(code[i])]
<1>3. s = Stripped(code, unused)
  BY <1>1 DEF Stripped, CodeFacts
<1> HIDE DEF D
<1>4. s \in Code /\ Len(s) = Len(code) /\ \A i \in 1..Len(code) : s[i] = D(code[i])
  BY <1>1, <1>2 DEF CodeFacts, Code
<1>5. QED
  BY <1>1, <1>2, <1>3, <1>4 DEF CodeFacts

(* b has run the stripped code where a has run the code: they differ in the *)
(* unused temporaries, which b never sets.                                 *)
SameUsed(code, unused, i, a, b) ==
  /\ Shaped(a) /\ Shaped(b) /\ SameBut(a, b)
  /\ \A t : t # 0 /\ t \notin unused => Reg(a, t) = Reg(b, t)
  /\ \A t \in unused : t \notin DOMAIN b.reg
  /\ \A t \in unused : t \in DOMAIN a.reg => \E j \in 1..i : code[j].result = t

(* Step by step the two runs differ in the unused temporaries only:         *)
LEMMA StripStep ==
  ASSUME NEW code \in Code, ReadsResults(code), NEW symbols, NEW unused, 0 \notin unused,
         \A t \in unused : FirstUse(code, t) = LastUse(code, t),
         NEW i \in 1..Len(code), NEW a, NEW b, SameUsed(code, unused, i - 1, a, b)
  PROVE  SameUsed(code, unused, i, Step(a, code[i], symbols),
                                   Step(b, Stripped(code, unused)[i], symbols))
<1> DEFINE c == code[i]
           d == Stripped(code, unused)[i]
           p == Step(a, c, symbols)
           q == Step(b, d, symbols)
<1> SUFFICES SameUsed(code, unused, i, p, q)
  OBVIOUS
<1>1. CodeFacts(code) /\ i \in DOMAIN code /\ c \in Instruction /\ i \in Nat
  BY CodeIs DEF CodeFacts
<1>2. \A t \in unused : t \in DOMAIN a.reg => \E j \in 1..i : code[j].result = t
  BY DEF SameUsed
<1>3. ASSUME NEW t \in Reads(c) PROVE Reg(a, t) = Reg(b, t)
  <2>1. t # 0
    BY <1>1, <1>3 DEF ReadsResults
  <2>2. CASE t \notin unused
    BY <2>1, <2>2 DEF SameUsed
  <2>3. CASE t \in unused
    <3>1. SUFFICES ASSUME t \in DOMAIN a.reg PROVE FALSE
      BY <2>3 DEF Reg, SameUsed
    <3>2. PICK j \in 1..(i - 1) : code[j].result = t
      BY <2>3, <3>1 DEF SameUsed
    <3>3. j \in DOMAIN code /\ t \in Mentions(code[j]) /\ t \in Mentions(code[i])
      BY <1>1, <1>3, <2>1, <3>2 DEF Mentions, CodeFacts
    <3>4. i = j
      BY <1>1, <2>3, <3>3, MentionedOnce
    <3>5. QED
      BY <1>1, <3>2, <3>4
  <2>4. QED
    BY <2>2, <2>3
<1>4. /\ c.function \in BinaryOps \cup UnaryOps => Reg(a, c.x) = Reg(b, c.x)
      /\ c.function \in BinaryOps => Reg(a, c.y) = Reg(b, c.y)
  <2>1. /\ c.function \in BinaryOps \cup UnaryOps => c.x \in Reads(c)
        /\ c.function \in BinaryOps => c.y \in Reads(c)
    BY ReadsAre
  <2>2. QED
    BY <1>3, <2>1
<1>5. Shaped(a) /\ Shaped(b) /\ SameBut(a, b)
  BY DEF SameUsed
<1>6. CASE c.result \notin unused
  <2>1. d = c
    BY <1>6, StrippedIs
  <2>2. Alike(a, p, c.result, b, q, c.result)
    BY <1>4, <1>5, <2>1, StepAlike
  <2> HIDE DEF p, q, c, d
  <2>3. /\ \A t : t # c.result => (t \in DOMAIN p.reg <=> t \in DOMAIN a.reg) /\ Reg(p, t) = Reg(a, t)
        /\ \A t : t # c.result => (t \in DOMAIN q.reg <=> t \in DOMAIN b.reg) /\ Reg(q, t) = Reg(b, t)
        /\ \/ p.reg = a.reg /\ q.reg = b.reg
           \/ Reg(p, c.result) = Reg(q, c.result)
    BY <2>2, AlikeRegs
  <2>4. \A t : t # 0 /\ t \notin unused => Reg(p, t) = Reg(q, t)
    BY <2>3 DEF SameUsed, Reg
  <2>5. QED
    BY <1>2, <1>6, <2>2, <2>3, <2>4 DEF Alike, SameUsed
<1>7. CASE c.result \in unused /\ ~IsPure(c)
  <2>1. d.result = 0 /\ d.function = c.function /\ d.x = c.x /\ d.y = c.y
    BY <1>7, StrippedIs
  <2>2. Alike(a, p, c.result, b, q, 0)
    BY <1>4, <1>5, <2>1, StepAlike
  <2>3. \E j \in 1..i : code[j].result = c.result
    BY <1>1
  <2> HIDE DEF p, q, c, d
  <2>4. /\ \A t : t # c.result => (t \in DOMAIN p.reg <=> t \in DOMAIN a.reg) /\ Reg(p, t) = Reg(a, t)
        /\ \A t : t # 0 => (t \in DOMAIN q.reg <=> t \in DOMAIN b.reg) /\ Reg(q, t) = Reg(b, t)
    BY <2>2, AlikeRegs
  <2>5. QED
    BY <1>2, <1>7, <2>2, <2>3, <2>4 DEF Alike, SameUsed
<1>8. CASE c.result \in unused /\ IsPure(c)
  <2>1. q = b
    BY <1>8, StrippedIs, NopSteps
  <2>2. Shaped(p) /\ SameBut(p, a) /\ (p.reg = a.reg \/ \E v : p.reg = Upd(a.reg, c.result, v))
    BY <1>5, <1>8, PureStep
  <2>3. \A t : t # c.result => Reg(p, t) = Reg(a, t) /\ (t \in DOMAIN p.reg <=> t \in DOMAIN a.reg)
    BY <2>2 DEF Upd, Reg
  <2>4. SameBut(p, b)
    BY <1>5, <2>2 DEF SameBut
  <2>5. \E j \in 1..i : code[j].result = c.result
    BY <1>1
  <2> HIDE DEF p, q, c, d
  <2>6. QED
    BY <1>2, <1>8, <2>1, <2>2, <2>3, <2>4, <2>5 DEF SameUsed
<1>9. QED
  BY <1>6, <1>7, <1>8

(* one that is mentioned once is set there or read there, and not both.     *)
LEMMA StripStates ==
  ASSUME NEW code \in Code, ReadsResults(code), NEW symbols, NEW in, NEW unused, 0 \notin unused,
         \A t \in unused : FirstUse(code, t) = LastUse(code, t)
  PROVE  \A i \in 0..Len(code) :
           SameUsed(code, unused, i, States(code, symbols, in)[i],
                                     States(Stripped(code, unused), symbols, in)[i])
<1> DEFINE n == Len(code)
           e == Stripped(code, unused)
           s == States(code, symbols, in)
           r == States(e, symbols, in)
<1>1. n \in Nat /\ Len(e) = n
  BY StrippedIs DEF Code
<1>2. s[0] = Start(in) /\ \A i \in 1..n : s[i] = Step(s[i - 1], code[i], symbols)
  BY <1>1, StatesAre
<1>3. r[0] = Start(in) /\ \A i \in 1..n : r[i] = Step(r[i - 1], e[i], symbols)
  <2>1. r[0] = Start(in) /\ \A i \in 1..Len(e) : r[i] = Step(r[i - 1], e[i], symbols)
    BY <1>1, StatesAre
  <2>2. QED
    BY <1>1, <2>1
<1> DEFINE S == {i \in 0..n : SameUsed(code, unused, i, s[i], r[i])}
<1> HIDE DEF s, r
<1>4. 0 \in S
  <2>1. SameUsed(code, unused, 0, Start(in), Start(in))
    BY StartIs DEF SameUsed, SameBut
  <2>2. QED
    BY <1>1, <1>2, <1>3, <2>1
<1>5. ASSUME NEW i \in 1..n, i - 1 \in S PROVE i \in S
  <2>1. SameUsed(code, unused, i - 1, s[i - 1], r[i - 1])
    BY <1>5
  <2>2. SameUsed(code, unused, i, s[i], r[i])
    BY <1>2, <1>3, <2>1, StripStep
  <2>3. QED
    BY <2>2
<1>6. 0..n \subseteq S
  <2> HIDE DEF S
  <2>1. QED
    BY <1>1, <1>4, <1>5, UpTo
<1>7. QED
  BY <1>6 DEF s, r

(* remove_unused (src/src/tac.c:230-258) keeps what any code means, branches *)
(* and temporaries that are set twice included: a result that nobody reads is *)
(* not missed, and whatever has an effect stays.                            *)
THEOREM UnusedKeepsMeaning ==
  ASSUME NEW code \in Code, ReadsResults(code), NEW symbols, NEW inputs
  PROVE  /\ remove_unused(code).code \in Code
         /\ Meaning(remove_unused(code).code, symbols, inputs) = Meaning(code, symbols, inputs)
<1> DEFINE unused == {t \in Temps(code) : FirstUse(code, t) = LastUse(code, t)}
           e == Stripped(code, unused)
<1>1. 0 \notin unused
  BY CountIs DEF Temps
<1>2. remove_unused(code).code \in {e, remove_nops(e)}
  BY DEF remove_unused, Stripped
<1>3. e \in Code
  BY StrippedIs
<1>4. remove_unused(code).code \in Code
  BY <1>2, <1>3, NopsGone
<1>5. ASSUME NEW in
      PROVE  Outcome(remove_unused(code).code, symbols, in) = Outcome(code, symbols, in)
  <2> HIDE DEF e
  <2>1. SameBut(Run(code, symbols, in), Run(e, symbols, in))
    <3> HIDE DEF unused
    <3>1. \A t \in unused : FirstUse(code, t) = LastUse(code, t)
      BY DEF unused
    <3>2. Len(e) = Len(code) /\ Len(code) \in 0..Len(code)
      BY StrippedIs, CodeIs DEF CodeFacts, e
    <3>3. SameUsed(code, unused, Len(code), States(code, symbols, in)[Len(code)],
                                            States(e, symbols, in)[Len(code)])
      BY <1>1, <3>1, <3>2, StripStates DEF e
    <3>4. QED
      BY <3>2, <3>3 DEF SameUsed, Run
  <2>2. Run(remove_nops(e), symbols, in) = Run(e, symbols, in)
    BY <1>3, NopsGone
  <2>3. QED
    BY <1>2, <2>1, <2>2 DEF Outcome, SameBut
<1>6. QED
  BY <1>4, <1>5 DEF Meaning

(* What constant_propagation knows after each prefix.                       *)
Know0(code, n, f) ==
  f = [i \in 0..n |-> IF i = 0 THEN NothingKnown(code) ELSE Learn(f[i - 1], code[i])]

(* The recursive function of KnownAt exists.                                *)
LEMMA KnowExist ==
  ASSUME NEW code, NEW n \in Nat
  PROVE  \E f : Know0(code, n, f)
<1> DEFINE S == {i \in 0..n : \E f : Know0(code, i, f)}
<1>1. 0 \in S
  <2>1. Know0(code, 0, [i \in 0..0 |-> NothingKnown(code)])
    BY DEF Know0
  <2>2. QED
    BY <2>1
<1>2. ASSUME NEW k \in 1..n, k - 1 \in S PROVE k \in S
  <2>1. PICK f : Know0(code, k - 1, f)
    BY <1>2
  <2> DEFINE g == [i \in 0..k |-> IF i = k THEN Learn(f[k - 1], code[k]) ELSE f[i]]
  <2>2. \A i \in 0..(k - 1) : f[i] = IF i = 0 THEN NothingKnown(code) ELSE Learn(f[i - 1], code[i])
    BY <2>1 DEF Know0
  <2>3. \A i \in 0..k : g[i] = IF i = 0 THEN NothingKnown(code) ELSE Learn(g[i - 1], code[i])
    BY <2>2
  <2>4. g = [i \in 0..k |-> g[i]]
    OBVIOUS
  <2> HIDE DEF g
  <2>5. Know0(code, k, g)
    BY <2>3, <2>4 DEF Know0
  <2>6. QED
    BY <2>5
<1>3. 0..n \subseteq S
  <2> HIDE DEF S
  <2>1. QED
    BY <1>1, <1>2, UpTo
<1>4. QED
  BY <1>3

(* It learns from one instruction at a time.                                *)
LEMMA KnowAre ==
  ASSUME NEW code, Len(code) \in Nat
  PROVE  /\ KnownAt(code, 0) = NothingKnown(code)
         /\ \A i \in 1..Len(code) : KnownAt(code, i) = Learn(KnownAt(code, i - 1), code[i])
<1>1. PICK f : Know0(code, Len(code), f)
  BY KnowExist
<1> DEFINE P(g) == g = [i \in 0..Len(code) |-> IF i = 0 THEN NothingKnown(code)
                                                ELSE Learn(g[i - 1], code[i])]
           h == CHOOSE g : P(g)
<1>2. P(h)
  <2>1. P(f)
    BY <1>1, Zenon DEF Know0
  <2> HIDE DEF P
  <2>2. QED
    BY <2>1
<1>3. \A n : KnownAt(code, n) = h[n]
  BY Zenon DEF KnownAt
<1> HIDE DEF h
<1>4. /\ h[0] = NothingKnown(code)
      /\ \A i \in 1..Len(code) : h[i] = Learn(h[i - 1], code[i])
  BY <1>2
<1>5. QED
  BY <1>3, <1>4

(* Tables of what is known, one entry per temporary.                        *)
Knowledge(code) == [Table(code) -> [is_constant : BOOLEAN, kind : {"INT", "SYM"}, v : Nat]]

(* The kind of constant a load gives.                                       *)
LoadKind(c) == IF c.function = "LOAD_INT" THEN "INT" ELSE "SYM"

(* Whatever is known comes from a load further up.                          *)
KnowSound(code, i, k) ==
  /\ k \in Knowledge(code)
  /\ \A t \in Table(code) : k[t].is_constant =>
       \E j \in 1..i : /\ code[j].result = t /\ code[j].function \in Loads
                       /\ k[t].kind = LoadKind(code[j]) /\ k[t].v = code[j].x

(* Learning from an instruction keeps that so,                              *)
LEMMA LearnIs ==
  ASSUME NEW code \in Code, Indexable(code), NEW i \in 1..Len(code),
         NEW k, KnowSound(code, i - 1, k)
  PROVE  KnowSound(code, i, Learn(k, code[i]))
<1> DEFINE c == code[i]
           T == Table(code)
           l == Learn(k, c)
           Entry == [is_constant : BOOLEAN, kind : {"INT", "SYM"}, v : Nat]
           From(n, t, e) == \E j \in 1..n : /\ code[j].result = t /\ code[j].function \in Loads
                                          /\ e.kind = LoadKind(code[j]) /\ e.v = code[j].x
<1>1. /\ i \in DOMAIN code /\ c \in Instruction /\ i \in Nat /\ c.result \in T
      /\ c.x \in Nat
  BY CodeIs DEF CodeFacts, Instruction, Indexable
<1>2. k \in [T -> Entry] /\ \A t \in T : k[t].is_constant => From(i - 1, t, k[t])
  BY DEF KnowSound, Knowledge
<1>3. \A t, e : From(i - 1, t, e) => From(i, t, e)
  BY <1>1
<1> DEFINE Learnt(e) == /\ e \in Entry /\ l = [k EXCEPT ![c.result] = e]
                        /\ e.is_constant => From(i, c.result, e)
<1>4. l = k \/ \E e : Learnt(e)
  <2>1. CASE c.function \in Loads
    <3> DEFINE e == Known(LoadKind(c), c.x)
    <3>1. l = [k EXCEPT ![c.result] = e]
      BY <2>1 DEF Learn, Forgetting, Loads, LoadKind
    <3>2. e \in Entry
      BY <1>1 DEF Known, LoadKind
    <3>3. From(i, c.result, e)
      BY <1>1, <2>1 DEF Known
    <3>4. Learnt(e)
      BY <3>1, <3>2, <3>3
    <3> HIDE DEF Learnt
    <3>5. QED
      BY <3>4
  <2>2. CASE c.function \in Forgetting
    <3> DEFINE e == [k[c.result] EXCEPT !.is_constant = FALSE]
    <3>1. l = [k EXCEPT ![c.result] = e]
      BY <2>2 DEF Learn, Forgetting
    <3>2. e \in Entry /\ ~e.is_constant
      <4>1. PICK g \in Entry : g = k[c.result]
        BY <1>1, <1>2
      <4>2. e = [g EXCEPT !.is_constant = FALSE]
        BY <4>1
      <4> HIDE DEF e
      <4>3. QED
        BY <4>2
    <3>3. Learnt(e)
      BY <3>1, <3>2
    <3> HIDE DEF Learnt
    <3>4. QED
      BY <3>3
  <2>3. CASE c.function \notin Loads \cup Forgetting
    BY <2>3 DEF Learn, Loads
  <2>4. QED
    BY <2>1, <2>2, <2>3
<1> HIDE DEF From, l
<1>5. l \in [T -> Entry] /\ \A t \in T : l[t].is_constant => From(i, t, l[t])
  <2>1. CASE l = k
    BY <1>2, <1>3, <2>1
  <2>2. CASE l # k
    <3>1. PICK e : Learnt(e)
      <4> HIDE DEF Learnt
      <4>1. QED
        BY <1>4, <2>2
    <3>2. c.result \in T /\ k \in [T -> Entry]
      BY <1>1, <1>2
    <3> HIDE DEF c, T, Entry
    <3>3. l \in [T -> Entry] /\ \A t \in T : l[t] = IF t = c.result THEN e ELSE k[t]
      BY <3>1, <3>2 DEF Learnt
    <3>4. QED
      BY <1>2, <1>3, <3>1, <3>3
  <2>3. QED
    BY <2>1, <2>2
<1>6. QED
  BY <1>5 DEF l, From, KnowSound, Knowledge

(* and it is so from the start.                                             *)
LEMMA KnowledgeSound ==
  ASSUME NEW code \in Code, Indexable(code)
  PROVE  \A i \in 0..Len(code) : KnowSound(code, i, KnownAt(code, i))
<1>1. Len(code) \in Nat
  BY CodeIs DEF CodeFacts
<1>2. /\ KnownAt(code, 0) = NothingKnown(code)
      /\ \A i \in 1..Len(code) : KnownAt(code, i) = Learn(KnownAt(code, i - 1), code[i])
  BY <1>1, KnowAre
<1> DEFINE S == {i \in 0..Len(code) : KnowSound(code, i, KnownAt(code, i))}
<1>3. 0 \in S
  <2>1. KnowSound(code, 0, NothingKnown(code))
    BY DEF KnowSound, NothingKnown, Knowledge
  <2>2. QED
    BY <1>1, <1>2, <2>1
<1>4. ASSUME NEW i \in 1..Len(code), i - 1 \in S PROVE i \in S
  BY <1>2, <1>4, LearnIs
<1>5. 0..Len(code) \subseteq S
  <2> HIDE DEF S
  <2>1. QED
    BY <1>1, <1>3, <1>4, UpTo
<1>6. QED
  BY <1>5

-----------------------------------------------------------------------------
(* Arithmetic of words: taking remainders early does not matter.            *)
LEMMA Modular ==
  ASSUME NEW w \in Nat \ {0}, NEW a \in Int, NEW b \in Int
  PROVE  /\ ((a % w) + (b % w)) % w = (a + b) % w
         /\ (a % w) % w = a % w /\ a % w \in 0..(w - 1)
<1>1. ASSUME NEW q \in Int, NEW r \in 0..(w - 1) PROVE (q * w + r) % w = r
  OBVIOUS
<1>2. ASSUME NEW c \in Int
      PROVE  \E q \in Int, r \in 0..(w - 1) : r = c % w /\ c = q * w + r
  <2>1. c \div w \in Int /\ c % w \in 0..(w - 1) /\ c = (c \div w) * w + (c % w)
    OBVIOUS
  <2>2. QED
    BY <2>1
<1>3. PICK p \in Int, r \in 0..(w - 1) : r = a % w /\ a = p * w + r
  BY <1>2
<1>4. PICK q \in Int, s \in 0..(w - 1) : s = b % w /\ b = q * w + s
  BY <1>2
<1>5. PICK u \in Int, v \in 0..(w - 1) : v = (r + s) % w /\ r + s = u * w + v
  <2>1. r + s \in Int
    OBVIOUS
  <2>2. QED
    BY <1>2, <2>1
<1>6. a + b = (p + q + u) * w + v /\ p + q + u \in Int
  <2>1. PICK x \in Int, y \in Int, z \in Int : x = p * w /\ y = q * w /\ z = u * w
    OBVIOUS
  <2>2. (p + q + u) * w = x + y + z
    BY <2>1
  <2>3. a = x + r /\ b = y + s /\ r + s = z + v
    BY <1>3, <1>4, <1>5, <2>1
  <2>4. a + b = (x + y + z) + v
    BY <2>3
  <2>5. QED
    BY <2>2, <2>4
<1>7. (a + b) % w = v
  BY <1>1, <1>6
<1>8. r % w = r
  <2>1. r \in Int /\ 0 <= r /\ r < w
    OBVIOUS
  <2>2. QED
    BY <2>1
<1>9. QED
  BY <1>3, <1>4, <1>5, <1>7, <1>8

-----------------------------------------------------------------------------
(* Machines whose numbers are numbers.                                     *)
Typed(m) ==
  /\ Shaped(m) /\ Input(m.in)
  /\ \E S : m.trace \in Seq(S)
  /\ \A t \in DOMAIN m.reg : Numeric(m.reg[t])

(* The operations on values give numbers where they give integers.          *)
LEMMA NumericValues ==
  /\ Numeric(NoVal)
  /\ \A s : Numeric(SymVal(s))
  /\ \A n \in Int : IntVal(n) = <<"int", n % Word>> /\ n % Word \in Nat /\ Numeric(IntVal(n))
  /\ \A a, b : Numeric(a) /\ Numeric(b) =>
       Numeric(Plus(a, b)) /\ Numeric(Minus(a, b)) /\ Numeric(Less(a, b))
<1>1. \A n \in Int : n % Word \in Nat
  BY WordPositive
<1>2. \A n \in Int : IntVal(n) = <<"int", n % Word>> /\ Numeric(IntVal(n))
  BY <1>1 DEF IntVal, Numeric, IsInt
<1>3. Numeric(NoVal) /\ \A s : Numeric(SymVal(s))
  BY DEF Numeric, NoVal, SymVal, IsInt
<1>4. ASSUME NEW a, NEW b, Numeric(a), Numeric(b)
      PROVE  Numeric(Plus(a, b)) /\ Numeric(Minus(a, b)) /\ Numeric(Less(a, b))
  <2>1. CASE ~(IsInt(a) /\ IsInt(b))
    BY <1>3, <2>1 DEF Plus, Minus, Less
  <2>2. CASE IsInt(a) /\ IsInt(b)
    <3>1. a[2] \in Nat /\ b[2] \in Nat /\ Word \in Nat
      BY <1>4, <2>2, WordPositive DEF Numeric
    <3>2. a[2] + b[2] \in Int /\ Word + a[2] - b[2] \in Int /\ 1 \in Int /\ 0 \in Int
      BY <3>1
    <3>3. QED
      BY <1>2, <2>2, <3>2 DEF Plus, Minus, Less
  <2>3. QED
    BY <2>1, <2>2
<1>5. QED
  BY <1>1, <1>2, <1>3, <1>4

(* What a register of a typed machine holds is a number if it is one at all. *)
LEMMA TypedReg ==
  ASSUME NEW m, Typed(m), NEW t
  PROVE  Numeric(Reg(m, t))
BY NumericValues DEF Typed, Reg

(* So is a machine after a register got a number,                           *)
LEMMA TypedSetReg ==
  ASSUME NEW m, Typed(m), NEW t, NEW v, Numeric(v)
  PROVE  Typed(SetReg(m, t, v))
<1>1. /\ Shaped(SetReg(m, t, v)) /\ SetReg(m, t, v).reg = Upd(m.reg, t, v)
      /\ SetReg(m, t, v).in = m.in /\ SetReg(m, t, v).trace = m.trace
  BY SetRegIs DEF Typed, SameBut
<1>2. \A u \in DOMAIN Upd(m.reg, t, v) : Numeric(Upd(m.reg, t, v)[u])
  BY DEF Typed, Upd
<1>3. QED
  BY <1>1, <1>2 DEF Typed

(* after an instruction,                                                    *)
LEMMA TypedExecute ==
  ASSUME NEW m, Typed(m), NEW c \in Instruction, NEW symbols,
         c.function = "LOAD_ARG" => c.x + 1 \in DOMAIN m.in.args
  PROVE  Typed(Execute(m, c, symbols)) /\ Execute(m, c, symbols).in = m.in
<1> DEFINE p == Execute(m, c, symbols)
           X == Reg(m, c.x)
           Y == Reg(m, c.y)
<1>1. Numeric(X) /\ Numeric(Y) /\ c.x \in Int /\ c.y \in Int /\ c.function \in Ops
  BY TypedReg DEF Instruction
<1>2. CASE c.function \in PureOps \ {"NOP"}
  <2>1. /\ c.function = "LOAD_ARG" => p = SetReg(m, c.result, m.in.args[c.x + 1])
        /\ c.function = "LOAD_INT" => p = SetReg(m, c.result, IntVal(c.x))
        /\ c.function = "LOAD_SYM" => p = SetReg(m, c.result, SymVal(symbols[c.x]))
        /\ c.function = "MOV" => p = SetReg(m, c.result, X)
        /\ c.function = "ADD" => p = SetReg(m, c.result, Plus(X, Y))
        /\ c.function = "ADDI" => p = SetReg(m, c.result, Plus(X, IntVal(c.y)))
        /\ c.function = "SUB" => p = SetReg(m, c.result, Minus(X, Y))
        /\ c.function = "SUBI" => p = SetReg(m, c.result, Minus(X, IntVal(c.y)))
        /\ c.function = "LT" => p = SetReg(m, c.result, Less(X, Y))
        /\ c.function = "LTI" => p = SetReg(m, c.result, Less(X, IntVal(c.y)))
        /\ c.function = "PHI" => p = SetReg(m, c.result, IF m.jumped THEN X ELSE Y)
    BY DEF Execute
  <2>2. c.function = "LOAD_ARG" => Numeric(m.in.args[c.x + 1])
    BY DEF Typed, Input
  <2>3. /\ Numeric(IntVal(c.x)) /\ Numeric(IntVal(c.y)) /\ Numeric(SymVal(symbols[c.x]))
        /\ Numeric(Plus(X, Y)) /\ Numeric(Minus(X, Y)) /\ Numeric(Less(X, Y))
    BY <1>1, NumericValues
  <2>4. Numeric(Plus(X, IntVal(c.y))) /\ Numeric(Minus(X, IntVal(c.y))) /\ Numeric(Less(X, IntVal(c.y)))
    BY <1>1, <2>3, NumericValues
  <2> HIDE DEF X, Y, p
  <2>5. \E v : Numeric(v) /\ p = SetReg(m, c.result, v)
    BY <1>1, <1>2, <2>1, <2>2, <2>3, <2>4 DEF PureOps
  <2>6. Typed(p) /\ p.in = m.in
    BY <2>5, TypedSetReg, SetRegIs DEF Typed, SameBut
  <2>7. QED
    BY <2>6 DEF p
<1>3. CASE c.function \in {"CALL_SYM", "CALL_REG"}
  <2>1. PICK callee : p = CallTo(m, callee, c)
    BY <1>3 DEF Execute
  <2> DEFINE t == Append(m.trace, <<callee, SubSeq(m.pushed, 1, c.y)>>)
             s == SubSeq(m.pushed, c.y + 1, Len(m.pushed))
             e == Called(m, t, s)
  <2>2. p = SetReg(e, c.result, Answer(m.in.seed, Len(e.trace)))
    BY <2>1 DEF CallTo, Called
  <2>3. PICK S : m.trace \in Seq(S)
    BY DEF Typed
  <2>4. t \in Seq(S \cup {<<callee, SubSeq(m.pushed, 1, c.y)>>})
    BY <2>3
  <2>5. Len(t) \in Nat
    BY <2>4
  <2>6. Shaped(m)
    BY DEF Typed
  <2> HIDE DEF t, s
  <2> DEFINE d == [m EXCEPT !.trace = t]
  <2>7. e = [d EXCEPT !.pushed = s]
    BY DEF Called
  <2>8. Shaped(d) /\ d.reg = m.reg /\ d.trace = t /\ d.in = m.in
    BY <2>6, TraceSet
  <2> HIDE DEF d
  <2>9. Shaped(e) /\ e.reg = m.reg /\ e.trace = t /\ e.in = m.in
    BY <2>7, <2>8, PushedSet
  <2> HIDE DEF e, p
  <2>10. Typed(e)
    BY <2>4, <2>9 DEF Typed
  <2>11. Numeric(Answer(m.in.seed, Len(e.trace)))
    <3>1. m.in.seed + Len(e.trace) \in Int
      BY <2>5, <2>9 DEF Typed, Input
    <3>2. QED
      BY <3>1, NumericValues DEF Answer
  <2>12. Typed(p) /\ p.in = m.in
    BY <2>2, <2>9, <2>10, <2>11, TypedSetReg, SetRegIs DEF SameBut
  <2>13. QED
    BY <2>12 DEF p
<1>4. CASE c.function \in {"CALL_PUSH", "CALL_PUSH_INT", "CALL_PUSH_SYM"}
  <2>1. PICK v : p = Push(m, v)
    BY <1>4 DEF Execute
  <2>2. PICK s : p = [m EXCEPT !.pushed = s]
    BY <2>1 DEF Push
  <2>3. Shaped(m)
    BY DEF Typed
  <2> HIDE DEF p
  <2>4. Shaped(p) /\ p.reg = m.reg /\ p.trace = m.trace /\ p.in = m.in
    BY <2>2, <2>3, PushedSet
  <2>5. QED
    BY <2>4 DEF Typed, p
<1>5. CASE c.function \in {"RETURN_VAL", "RETURN_INT"}
  <2>1. PICK v : p = [m EXCEPT !.ret = v]
    BY <1>5 DEF Execute
  <2> HIDE DEF p
  <2>2. Shaped(p) /\ p.reg = m.reg /\ p.trace = m.trace /\ p.in = m.in
    BY <2>1 DEF Typed, Shaped
  <2>3. QED
    BY <2>2 DEF Typed, p
<1>6. CASE c.function \in {"EXIT", "GOTO", "BIZ", "LABEL", "NOP"}
  <2>1. \/ p = m
        \/ p = [m EXCEPT !.mode = "done"]
        \/ p = [m EXCEPT !.mode = "bad"]
        \/ p = Goto(m, c.x)
        \/ p = Goto(m, c.y)
        \/ p = [m EXCEPT !.jumped = FALSE]
    BY <1>6 DEF Execute
  <2> HIDE DEF p
  <2>2. Shaped(p) /\ p.reg = m.reg /\ p.trace = m.trace /\ p.in = m.in
    BY <2>1 DEF Typed, Shaped, Goto
  <2>3. QED
    BY <2>2 DEF Typed, p
<1>7. QED
  BY <1>1, <1>2, <1>3, <1>4, <1>5, <1>6 DEF Ops, BinaryOps, UnaryOps, NullaryOps, PureOps

(* and after a step.                                                        *)
LEMMA TypedStep ==
  ASSUME NEW m, Typed(m), NEW c \in Instruction, NEW symbols,
         m.mode = "run" /\ c.function = "LOAD_ARG" => c.x + 1 \in DOMAIN m.in.args
  PROVE  Typed(Step(m, c, symbols)) /\ Step(m, c, symbols).in = m.in
<1>1. CASE m.mode = "run"
  BY <1>1, TypedExecute DEF Step
<1>2. CASE m.mode = "skip" /\ c.function = "LABEL" /\ c.x = m.target
  <2>1. PICK p : p = Step(m, c, symbols)
    OBVIOUS
  <2>2. p = [[m EXCEPT !.mode = "run"] EXCEPT !.jumped = TRUE]
    BY <1>2, <2>1 DEF Step
  <2>3. PICK e : e = [m EXCEPT !.mode = "run"]
    OBVIOUS
  <2>4. Shaped(e) /\ e.reg = m.reg /\ e.trace = m.trace /\ e.in = m.in
    BY <2>3 DEF Typed, Shaped
  <2>5. p = [e EXCEPT !.jumped = TRUE]
    BY <2>2, <2>3
  <2>6. Shaped(p) /\ p.reg = m.reg /\ p.trace = m.trace /\ p.in = m.in
    BY <2>4, <2>5 DEF Shaped
  <2>7. QED
    BY <2>1, <2>6 DEF Typed
<1>3. CASE ~(m.mode = "run") /\ ~(m.mode = "skip" /\ c.function = "LABEL" /\ c.x = m.target)
  BY <1>3 DEF Step
<1>4. QED
  BY <1>1, <1>2, <1>3

(* An entry of the table of constants, and the value it stands for.         *)
Entry == [is_constant : BOOLEAN, kind : {"INT", "SYM"}, v : Nat]

Constant(e, symbols) == IF e.kind = "INT" THEN IntVal(e.v) ELSE SymVal(symbols[e.v])

(* What is known of the operands is so.                                     *)
Right(k, m, c, symbols) ==
  \A t \in Reads(c) : /\ k[t] \in Entry
                      /\ k[t].is_constant => Reg(m, t) = Constant(k[t], symbols)
                      /\ c.function \in Arithmetic => IsInt(Reg(m, t))

(* What rewriting an instruction in place gives.                            *)
LEMMA Becomes ==
  ASSUME NEW c \in Instruction, NEW f, NEW a, NEW b
  PROVE  LET d == [c EXCEPT !.function = f, !.x = a, !.y = b]
         IN  d.result = c.result /\ d.function = f /\ d.x = a /\ d.y = b
BY DEF Instruction

(* Which value an entry of each kind stands for.                            *)
LEMMA ConstantFacts ==
  ASSUME NEW symbols, NEW e \in Entry
  PROVE  /\ IsInt(Constant(e, symbols)) => e.kind = "INT" /\ Constant(e, symbols) = IntVal(e.v)
         /\ e.kind = "INT" => Constant(e, symbols) = IntVal(e.v)
         /\ e.kind # "INT" => Constant(e, symbols) = SymVal(symbols[e.v])
BY DEF Entry, Constant, IsInt, SymVal

(* Sums do not depend on the order, nor on when they are reduced to a word. *)
LEMMA Sums ==
  /\ \A a, b : Numeric(a) /\ Numeric(b) => Plus(a, b) = Plus(b, a)
  /\ \A a, b \in Nat : Plus(IntVal(a), IntVal(b)) = IntVal((a + b) % Word)
<1>1. ASSUME NEW a, NEW b, Numeric(a), Numeric(b) PROVE Plus(a, b) = Plus(b, a)
  <2>1. CASE IsInt(a) /\ IsInt(b)
    <3>1. a[2] + b[2] = b[2] + a[2]
      BY <1>1, <2>1 DEF Numeric
    <3>2. QED
      BY <2>1, <3>1 DEF Plus
  <2>2. CASE ~(IsInt(a) /\ IsInt(b))
    BY <2>2 DEF Plus
  <2>3. QED
    BY <2>1, <2>2
<1>2. ASSUME NEW a \in Nat, NEW b \in Nat
      PROVE  Plus(IntVal(a), IntVal(b)) = IntVal((a + b) % Word)
  <2>1. Plus(IntVal(a), IntVal(b)) = <<"int", ((a % Word) + (b % Word)) % Word>>
    BY DEF Plus, IntVal, IsInt
  <2>2. IntVal((a + b) % Word) = <<"int", ((a + b) % Word) % Word>>
    BY DEF IntVal
  <2>3. /\ ((a % Word) + (b % Word)) % Word = (a + b) % Word
        /\ ((a + b) % Word) % Word = (a + b) % Word
    <3>1. a \in Int /\ b \in Int /\ a + b \in Int
      OBVIOUS
    <3>2. QED
      BY <3>1, WordPositive, Modular
  <2>4. QED
    BY <2>1, <2>2, <2>3
<1>3. QED
  BY <1>1, <1>2

(* An instruction folded by right knowledge does what it did.               *)
LEMMA FoldExecutes ==
  ASSUME NEW m, Typed(m), NEW c \in Instruction, NEW symbols, NEW k,
         c.function # "PHI" => Right(k, m, c, symbols)
  PROVE  Execute(m, Fold(k, c), symbols) = Execute(m, c, symbols)
<1> DEFINE x == k[c.x]
           y == k[c.y]
           X == Reg(m, c.x)
           Y == Reg(m, c.y)
           d == Fold(k, c)
           becomes(f, a, b) == [c EXCEPT !.function = f, !.x = a, !.y = b]
           Same == Execute(m, d, symbols) = Execute(m, c, symbols)
           Is(f, a, b) == d.result = c.result /\ d.function = f /\ d.x = a /\ d.y = b
<1> SUFFICES Same
  OBVIOUS
<1>1. Numeric(X) /\ Numeric(Y)
  BY TypedReg
<1>2. c.function \in BinaryOps \cup UnaryOps /\ c.function # "PHI" =>
        /\ x \in Entry /\ (x.is_constant => X = Constant(x, symbols))
        /\ c.function \in Arithmetic => IsInt(X)
  BY ReadsAre DEF Right
<1>3. c.function \in BinaryOps /\ c.function # "PHI" =>
        /\ y \in Entry /\ (y.is_constant => Y = Constant(y, symbols))
        /\ c.function \in Arithmetic => IsInt(Y)
  BY ReadsAre DEF Right
<1>4. CASE c.function = "ADD"
  <2>1. x \in Entry /\ y \in Entry /\ IsInt(X) /\ IsInt(Y)
        /\ (x.is_constant => X = Constant(x, symbols)) /\ (y.is_constant => Y = Constant(y, symbols))
    BY <1>2, <1>3, <1>4 DEF BinaryOps, Arithmetic
  <2>2. /\ x.is_constant => x.kind = "INT" /\ X = IntVal(x.v)
        /\ y.is_constant => y.kind = "INT" /\ Y = IntVal(y.v)
    BY <2>1, ConstantFacts
  <2>3. Execute(m, c, symbols) = SetReg(m, c.result, Plus(X, Y))
    BY <1>4 DEF Execute
  <2>4. CASE x.is_constant /\ ~y.is_constant
    <3>1. d = becomes("ADDI", c.y, x.v)
      BY <1>4, <2>2, <2>4 DEF Fold
    <3>2. Is("ADDI", c.y, x.v)
      BY <3>1, Becomes
    <3> HIDE DEF d
    <3>3. Execute(m, d, symbols) = SetReg(m, c.result, Plus(Y, IntVal(x.v)))
      BY <3>2 DEF Execute
    <3>4. QED
      BY <1>1, <1>4, <2>2, <2>3, <2>4, <3>2, <3>3, Sums
  <2>5. CASE ~x.is_constant /\ y.is_constant
    <3>1. d = becomes("ADDI", c.x, y.v)
      BY <1>4, <2>2, <2>5 DEF Fold
    <3>2. Is("ADDI", c.x, y.v)
      BY <3>1, Becomes
    <3> HIDE DEF d
    <3>3. Execute(m, d, symbols) = SetReg(m, c.result, Plus(X, IntVal(y.v)))
      BY <3>2 DEF Execute
    <3>4. QED
      BY <1>4, <2>2, <2>3, <2>5, <3>2, <3>3
  <2>6. CASE x.is_constant /\ y.is_constant
    <3>1. d = becomes("LOAD_INT", (x.v + y.v) % Word, c.y)
      BY <1>4, <2>2, <2>6 DEF Fold
    <3>2. Is("LOAD_INT", (x.v + y.v) % Word, c.y)
      BY <3>1, Becomes
    <3> HIDE DEF d
    <3>3. Execute(m, d, symbols) = SetReg(m, c.result, IntVal((x.v + y.v) % Word))
      BY <3>2 DEF Execute
    <3>4. Plus(X, Y) = IntVal((x.v + y.v) % Word)
      BY <2>1, <2>2, <2>6, Sums DEF Entry
    <3>5. QED
      BY <1>4, <2>3, <3>2, <3>3, <3>4
  <2>7. CASE ~x.is_constant /\ ~y.is_constant
    BY <1>4, <2>7 DEF Fold
  <2>8. QED
    BY <2>4, <2>5, <2>6, <2>7
<1>5. CASE c.function = "ADDI" /\ x.is_constant
  <2>1. x \in Entry /\ IsInt(X) /\ X = Constant(x, symbols)
    BY <1>2, <1>5 DEF UnaryOps, Arithmetic
  <2>2. X = IntVal(x.v) /\ x.v \in Nat /\ c.y \in Nat
    BY <2>1, ConstantFacts DEF Entry, Instruction
  <2>3. Execute(m, c, symbols) = SetReg(m, c.result, Plus(X, IntVal(c.y)))
    BY <1>5 DEF Execute
  <2>4. d = becomes("LOAD_INT", (c.y + x.v) % Word, c.y)
    BY <1>5 DEF Fold
  <2>5. Is("LOAD_INT", (c.y + x.v) % Word, c.y)
    BY <2>4, Becomes
  <2> HIDE DEF d
  <2>6. Execute(m, d, symbols) = SetReg(m, c.result, IntVal((c.y + x.v) % Word))
    BY <2>5 DEF Execute
  <2>7. Plus(X, IntVal(c.y)) = IntVal((x.v + c.y) % Word) /\ c.y + x.v = x.v + c.y
    BY <2>2, Sums
  <2>8. QED
    BY <1>5, <2>3, <2>5, <2>6, <2>7
<1>6. CASE c.function = "SUB" /\ x.kind # "SYM" /\ ~x.is_constant /\ y.is_constant
  <2>1. y \in Entry /\ IsInt(Y) /\ Y = Constant(y, symbols)
    BY <1>3, <1>6 DEF BinaryOps, Arithmetic
  <2>2. Y = IntVal(y.v)
    BY <2>1, ConstantFacts
  <2>3. Execute(m, c, symbols) = SetReg(m, c.result, Minus(X, Y))
    BY <1>6 DEF Execute
  <2>4. d = becomes("SUBI", c.x, y.v)
    BY <1>6 DEF Fold
  <2>5. Is("SUBI", c.x, y.v)
    BY <2>4, Becomes
  <2> HIDE DEF d
  <2>6. Execute(m, d, symbols) = SetReg(m, c.result, Minus(X, IntVal(y.v)))
    BY <2>5 DEF Execute
  <2>7. QED
    BY <1>6, <2>2, <2>3, <2>5, <2>6
<1>7. CASE c.function = "LT" /\ ~x.is_constant /\ y.is_constant /\ y.kind = "INT"
  <2>1. y \in Entry /\ Y = Constant(y, symbols)
    BY <1>3, <1>7 DEF BinaryOps
  <2>2. Y = IntVal(y.v)
    BY <1>7, <2>1, ConstantFacts
  <2>3. Execute(m, c, symbols) = SetReg(m, c.result, Less(X, Y))
    BY <1>7 DEF Execute
  <2>4. d = becomes("LTI", c.x, y.v)
    BY <1>7 DEF Fold
  <2>5. Is("LTI", c.x, y.v)
    BY <2>4, Becomes
  <2> HIDE DEF d
  <2>6. Execute(m, d, symbols) = SetReg(m, c.result, Less(X, IntVal(y.v)))
    BY <2>5 DEF Execute
  <2>7. QED
    BY <1>7, <2>2, <2>3, <2>5, <2>6
<1>8. CASE c.function \in {"CALL_PUSH", "MOV"} /\ x.is_constant
  <2>1. x \in Entry /\ X = Constant(x, symbols)
    BY <1>2, <1>8 DEF UnaryOps
  <2>2. CASE x.kind = "INT"
    <3> DEFINE f == IF c.function = "MOV" THEN "LOAD_INT" ELSE "CALL_PUSH_INT"
    <3>1. d = becomes(f, x.v, c.y)
      BY <1>8, <2>2 DEF Fold
    <3>2. Is(f, x.v, c.y)
      BY <3>1, Becomes
    <3>3. X = IntVal(x.v)
      BY <2>1, <2>2, ConstantFacts
    <3> HIDE DEF d
    <3>4. QED
      BY <1>8, <3>2, <3>3 DEF Execute
  <2>3. CASE x.kind # "INT"
    <3> DEFINE f == IF c.function = "MOV" THEN "LOAD_SYM" ELSE "CALL_PUSH_SYM"
    <3>1. d = becomes(f, x.v, c.y)
      BY <1>8, <2>3 DEF Fold
    <3>2. Is(f, x.v, c.y)
      BY <3>1, Becomes
    <3>3. X = SymVal(symbols[x.v])
      BY <2>1, <2>3, ConstantFacts
    <3> HIDE DEF d
    <3>4. QED
      BY <1>8, <3>2, <3>3 DEF Execute
  <2>4. QED
    BY <2>2, <2>3
<1>9. CASE c.function = "RETURN_VAL" /\ x.is_constant /\ x.kind = "INT"
  <2>1. X = IntVal(x.v)
    BY <1>2, <1>9, ConstantFacts DEF UnaryOps
  <2>2. d = becomes("RETURN_INT", x.v, c.y)
    BY <1>9 DEF Fold
  <2>3. Is("RETURN_INT", x.v, c.y)
    BY <2>2, Becomes
  <2> HIDE DEF d
  <2>4. QED
    BY <1>9, <2>1, <2>3 DEF Execute
<1>10. CASE /\ c.function # "ADD"
            /\ ~(c.function = "ADDI" /\ x.is_constant)
            /\ ~(c.function = "SUB" /\ x.kind # "SYM" /\ ~x.is_constant /\ y.is_constant)
            /\ ~(c.function = "LT" /\ ~x.is_constant /\ y.is_constant /\ y.kind = "INT")
            /\ ~(c.function \in {"CALL_PUSH", "MOV"} /\ x.is_constant)
            /\ ~(c.function = "RETURN_VAL" /\ x.is_constant /\ x.kind = "INT")
  BY <1>10 DEF Fold
<1>11. QED
  BY <1>4, <1>5, <1>6, <1>7, <1>8, <1>9, <1>10

(* The machines along a code.                                               *)
LEMMA StatesOf ==
  ASSUME NEW code \in Code, NEW symbols, NEW in
  PROVE  /\ States(code, symbols, in)[0] = Start(in)
         /\ \A i \in 1..Len(code) :
              States(code, symbols, in)[i] = Step(States(code, symbols, in)[i - 1], code[i], symbols)
<1>1. Len(code) \in Nat
  BY CodeIs DEF CodeFacts
<1>2. QED
  BY <1>1, StatesAre

(* One step sets the result of the instruction at most.                     *)
LEMMA StepSets ==
  ASSUME NEW m, Shaped(m), NEW c, NEW symbols
  PROVE  LET p == Step(m, c, symbols)
         IN  /\ Shaped(p)
             /\ \A t : t # c.result => (t \in DOMAIN p.reg <=> t \in DOMAIN m.reg) /\ Reg(p, t) = Reg(m, t)
             /\ c.result \in DOMAIN m.reg => c.result \in DOMAIN p.reg
<1>1. Alike(m, Step(m, c, symbols), c.result, m, Step(m, c, symbols), c.result)
  BY StepAlike DEF SameBut
<1>2. PICK p : p = Step(m, c, symbols)
  OBVIOUS
<1>3. Alike(m, p, c.result, m, p, c.result)
  BY <1>1, <1>2
<1>4. \A t : t # c.result => (t \in DOMAIN p.reg <=> t \in DOMAIN m.reg) /\ Reg(p, t) = Reg(m, t)
  BY <1>3, AlikeRegs
<1>5. Shaped(p) /\ (c.result \in DOMAIN m.reg => c.result \in DOMAIN p.reg)
  BY <1>3 DEF Alike, Upd
<1>6. QED
  BY <1>2, <1>4, <1>5

(* The value a load gives.                                                  *)
LoadValue(c, symbols) == IF c.function = "LOAD_INT" THEN IntVal(c.x) ELSE SymVal(symbols[c.x])

(* After i instructions only results are set, and what is loaded a constant *)
(* holds it.                                                               *)
LoadsHold(code, symbols, in, i, m) ==
  /\ Typed(m) /\ m.in = in
  /\ \A t \in DOMAIN m.reg : t # 0 => \E j \in 1..i : code[j].result = t
  /\ \A j \in DOMAIN code : /\ code[j].function \in Loads
                            /\ code[j].result # 0 /\ code[j].result \in DOMAIN m.reg
                            => Reg(m, code[j].result) = LoadValue(code[j], symbols)

(* A step keeps what loads have set,                                        *)
LEMMA LoadsHoldStep ==
  ASSUME NEW code \in Code, LoadsOnce(code), NEW symbols, NEW in,
         NEW i \in 1..Len(code), NEW m, LoadsHold(code, symbols, in, i - 1, m),
         m.mode = "run" /\ code[i].function = "LOAD_ARG" => code[i].x + 1 \in DOMAIN in.args
  PROVE  LoadsHold(code, symbols, in, i, Step(m, code[i], symbols))
<1> DEFINE c == code[i]
<1>1. i \in DOMAIN code /\ i \in Nat /\ c \in Instruction
  BY CodeIs DEF CodeFacts
<1>2. PICK p : p = Step(m, c, symbols)
  OBVIOUS
<1>3. Typed(p) /\ p.in = in
  BY <1>1, <1>2, TypedStep DEF LoadsHold
<1>4. Shaped(m)
  BY DEF LoadsHold, Typed
<1>5. \A t : t # c.result => (t \in DOMAIN p.reg <=> t \in DOMAIN m.reg) /\ Reg(p, t) = Reg(m, t)
  BY <1>2, <1>4, StepSets
<1>6. \A t \in DOMAIN p.reg : t # 0 => \E j \in 1..i : code[j].result = t
  BY <1>1, <1>5 DEF LoadsHold
<1>7. ASSUME NEW j \in DOMAIN code, code[j].function \in Loads, code[j].result # 0,
             code[j].result \in DOMAIN p.reg
      PROVE  Reg(p, code[j].result) = LoadValue(code[j], symbols)
  <2>1. CASE code[j].result # c.result
    BY <1>5, <1>7, <2>1 DEF LoadsHold
  <2>2. CASE code[j].result = c.result /\ m.mode = "run"
    <3>1. i = j
      BY <1>1, <1>7, <2>2 DEF LoadsOnce
    <3>2. p = SetReg(m, c.result, LoadValue(c, symbols))
      BY <1>2, <1>7, <2>2, <3>1 DEF Step, Execute, Loads, LoadValue
    <3>3. p.reg = Upd(m.reg, c.result, LoadValue(c, symbols))
      BY <1>4, <3>2, SetRegIs
    <3>4. QED
      BY <3>1, <3>3 DEF Upd, Reg
  <2>3. CASE code[j].result = c.result /\ m.mode # "run"
    <3>1. i = j
      BY <1>1, <1>7, <2>3 DEF LoadsOnce
    <3>2. p = m
      BY <1>2, <1>7, <2>3, <3>1 DEF Step, Loads
    <3>3. QED
      BY <1>7, <3>2 DEF LoadsHold
  <2>4. QED
    BY <2>1, <2>2, <2>3
<1>8. QED
  BY <1>2, <1>3, <1>6, <1>7 DEF LoadsHold

(* so it is there all along the run.                                        *)
LEMMA LoadsAlwaysHold ==
  ASSUME NEW code \in Code, LoadsOnce(code), NEW symbols, NEW in, Input(in),
         WellRun(code, symbols, in)
  PROVE  \A i \in 0..Len(code) : LoadsHold(code, symbols, in, i, States(code, symbols, in)[i])
<1> DEFINE s == States(code, symbols, in)
           n == Len(code)
<1>1. n \in Nat /\ DOMAIN code = 1..n
  BY CodeIs DEF CodeFacts
<1>2. s[0] = Start(in) /\ \A i \in 1..n : s[i] = Step(s[i - 1], code[i], symbols)
  BY StatesOf
<1> HIDE DEF s
<1> DEFINE S == {i \in 0..n : LoadsHold(code, symbols, in, i, s[i])}
<1>3. 0 \in S
  <2>1. Start(in).trace \in Seq({})
    BY DEF Start
  <2>2. LoadsHold(code, symbols, in, 0, Start(in))
    BY <2>1, StartIs DEF LoadsHold, Typed
  <2>3. QED
    BY <1>1, <1>2, <2>2
<1>4. ASSUME NEW i \in 1..n, i - 1 \in S PROVE i \in S
  <2>1. s[i - 1].mode = "run" /\ code[i].function = "LOAD_ARG" => code[i].x + 1 \in DOMAIN in.args
    BY <1>1 DEF WellRun, s
  <2>2. LoadsHold(code, symbols, in, i - 1, s[i - 1])
    BY <1>4
  <2>3. LoadsHold(code, symbols, in, i, s[i])
    BY <1>2, <2>1, <2>2, LoadsHoldStep
  <2>4. QED
    BY <2>3
<1>5. 0..n \subseteq S
  <2> HIDE DEF S
  <2>1. QED
    BY <1>1, <1>3, <1>4, UpTo
<1>6. QED
  BY <1>5 DEF s

(* What constant_propagation knows where the run has got to is so.          *)
LEMMA KnownIsRight ==
  ASSUME NEW code \in Code, LoadsOnce(code), Indexable(code), ReadsResults(code),
         NEW symbols, NEW in, Input(in), WellRun(code, symbols, in),
         NEW i \in 1..Len(code), States(code, symbols, in)[i - 1].mode = "run",
         code[i].function # "PHI"
  PROVE  Right(KnownAt(code, i), States(code, symbols, in)[i - 1], code[i], symbols)
<1> DEFINE k == KnownAt(code, i)
           m == States(code, symbols, in)[i - 1]
           c == code[i]
<1>1. /\ i \in DOMAIN code /\ DOMAIN code = 1..Len(code) /\ Len(code) \in Nat
      /\ i \in 0..Len(code) /\ i - 1 \in 0..Len(code)
  BY CodeIs DEF CodeFacts
<1>2. KnowSound(code, i, k)
  BY <1>1, KnowledgeSound
<1>3. LoadsHold(code, symbols, in, i - 1, m)
  BY <1>1, LoadsAlwaysHold
<1>4. ASSUME NEW t \in Reads(c)
      PROVE  /\ k[t] \in Entry
             /\ k[t].is_constant => Reg(m, t) = Constant(k[t], symbols)
             /\ c.function \in Arithmetic => IsInt(Reg(m, t))
  <2>1. t \in Table(code) /\ t # 0
    BY <1>1 DEF Indexable, ReadsResults
  <2>2. k[t] \in Entry
    BY <1>2, <2>1 DEF KnowSound, Knowledge, Entry
  <2>3. t \in DOMAIN m.reg /\ (c.function \in Arithmetic => IsInt(Reg(m, t)))
    BY <1>1 DEF WellRun, Needed
  <2>4. ASSUME k[t].is_constant PROVE Reg(m, t) = Constant(k[t], symbols)
    <3>1. PICK j \in 1..i : /\ code[j].result = t /\ code[j].function \in Loads
                            /\ k[t].kind = LoadKind(code[j]) /\ k[t].v = code[j].x
      BY <1>2, <2>1, <2>4 DEF KnowSound
    <3>2. j \in DOMAIN code
      BY <1>1
    <3>3. Reg(m, t) = LoadValue(code[j], symbols)
      BY <1>3, <2>1, <2>3, <3>1, <3>2 DEF LoadsHold
    <3>4. QED
      BY <3>1, <3>3 DEF LoadValue, LoadKind, Constant
  <2>5. QED
    BY <2>2, <2>3, <2>4
<1>5. QED
  BY <1>4 DEF Right

(* Folding makes no label and takes none away.                              *)
LEMMA FoldLabel ==
  ASSUME NEW c \in Instruction, NEW k
  PROVE  Fold(k, c) = c \/ (c.function # "LABEL" /\ Fold(k, c).function # "LABEL")
<1>1. CASE c.function \notin {"ADD", "SUB", "LT", "ADDI", "CALL_PUSH", "MOV", "RETURN_VAL"}
  BY <1>1 DEF Fold
<1>2. CASE c.function \in {"ADD", "SUB", "LT", "ADDI", "CALL_PUSH", "MOV", "RETURN_VAL"}
  <2> DEFINE F == {"ADDI", "SUBI", "LTI", "LOAD_INT", "LOAD_SYM", "CALL_PUSH_INT", "CALL_PUSH_SYM",
                   "RETURN_INT"}
             B(f, a, b) == [c EXCEPT !.function = f, !.x = a, !.y = b]
  <2>1. \A f \in F : \A a, b : B(f, a, b).function # "LABEL"
    BY Becomes
  <2>2. Fold(k, c) = c \/ \E f \in F : \E a, b : Fold(k, c) = B(f, a, b)
    <3> DEFINE x == k[c.x]
               y == k[c.y]
    <3>1. Fold(k, c) \in {c, B("ADDI", c.y, x.v), B("ADDI", c.x, y.v),
            B("LOAD_INT", (x.v + y.v) % Word, c.y), B("LOAD_INT", (c.y + x.v) % Word, c.y),
            B("SUBI", c.x, y.v), B("LTI", c.x, y.v), B("CALL_PUSH_INT", x.v, c.y),
            B("CALL_PUSH_SYM", x.v, c.y), B("LOAD_INT", x.v, c.y), B("LOAD_SYM", x.v, c.y),
            B("RETURN_INT", x.v, c.y)}
      BY <1>2 DEF Fold
    <3> HIDE DEF B, x, y
    <3>2. QED
      BY <3>1
  <2> HIDE DEF B
  <2>3. QED
    BY <1>2, <2>1, <2>2
<1>3. QED
  BY <1>1, <1>2

(* Folding code gives code of the same length.                              *)
LEMMA Folded ==
  ASSUME NEW code \in Code, Indexable(code)
  PROVE  LET e == [i \in DOMAIN code |-> Fold(KnownAt(code, i), code[i])]
         IN  e \in Code /\ Len(e) = Len(code)
<1> DEFINE e == [i \in DOMAIN code |-> Fold(KnownAt(code, i), code[i])]
<1>1. CodeFacts(code)
  BY CodeIs
<1>2. ASSUME NEW i \in DOMAIN code PROVE e[i] \in Instruction
  <2> DEFINE k == KnownAt(code, i)
             c == code[i]
             x == k[c.x]
             y == k[c.y]
  <2>1. i \in 0..Len(code) /\ c \in Instruction
    BY <1>1 DEF CodeFacts
  <2>2. \A t \in Reads(c) : k[t] \in Entry
    <3>1. KnowSound(code, i, k)
      BY <2>1, KnowledgeSound
    <3>2. \A t \in Reads(c) : t \in Table(code)
      BY DEF Indexable
    <3>3. QED
      BY <3>1, <3>2 DEF KnowSound, Knowledge, Entry
  <2>3. /\ c.function \in BinaryOps \cup UnaryOps => x.v \in Nat
        /\ c.function \in BinaryOps => y.v \in Nat
    BY <2>2, ReadsAre DEF Entry
  <2>4. \A a, b \in Nat : (a + b) % Word \in Nat
    BY WordPositive
  <2> DEFINE B(f, a, b) == [c EXCEPT !.function = f, !.x = a, !.y = b]
  <2>5. \A f \in Ops, a, b \in Nat : B(f, a, b) \in Instruction
    BY <2>1 DEF Instruction
  <2>6. c.x \in Nat /\ c.y \in Nat
    BY <2>1 DEF Instruction
  <2>7. Fold(k, c) = c \/ \E f \in Ops, a, b \in Nat : Fold(k, c) = B(f, a, b)
    <3>1. CASE c.function \in {"ADD", "SUB", "LT"}
      <4>1. x.v \in Nat /\ y.v \in Nat /\ (x.v + y.v) % Word \in Nat
        BY <2>3, <2>4, <3>1 DEF BinaryOps
      <4>2. Fold(k, c) \in {c, B("ADDI", c.y, x.v), B("ADDI", c.x, y.v), B("LOAD_INT", (x.v + y.v) % Word, c.y),
                            B("SUBI", c.x, y.v), B("LTI", c.x, y.v)}
        BY <3>1 DEF Fold
      <4>3. {"ADDI", "LOAD_INT", "SUBI", "LTI"} \subseteq Ops
        BY DEF Ops, UnaryOps, NullaryOps
      <4> HIDE DEF B
      <4>4. QED
        BY <2>6, <4>1, <4>2, <4>3
    <3>2. CASE c.function \in {"ADDI", "CALL_PUSH", "MOV", "RETURN_VAL"}
      <4>1. x.v \in Nat /\ (c.y + x.v) % Word \in Nat
        BY <2>3, <2>4, <2>6, <3>2 DEF UnaryOps
      <4>2. Fold(k, c) \in {c, B("LOAD_INT", (c.y + x.v) % Word, c.y), B("CALL_PUSH_INT", x.v, c.y), B("CALL_PUSH_SYM", x.v, c.y),
                            B("LOAD_INT", x.v, c.y), B("LOAD_SYM", x.v, c.y), B("RETURN_INT", x.v, c.y)}
        BY <3>2 DEF Fold
      <4>3. {"LOAD_INT", "LOAD_SYM", "CALL_PUSH_INT", "CALL_PUSH_SYM", "RETURN_INT"} \subseteq Ops
        BY DEF Ops, NullaryOps
      <4> HIDE DEF B
      <4>4. QED
        BY <2>6, <4>1, <4>2, <4>3
    <3>3. CASE c.function \notin {"ADD", "SUB", "LT", "ADDI", "CALL_PUSH", "MOV", "RETURN_VAL"}
      BY <3>3 DEF Fold
    <3>4. QED
      BY <3>1, <3>2, <3>3
  <2> HIDE DEF B
  <2>8. Fold(k, c) \in Instruction
    BY <2>1, <2>5, <2>7
  <2>9. QED
    BY <2>8
<1>3. QED
  BY <1>1, <1>2 DEF CodeFacts, Code

(* constant_propagation before it looks whether anything changed.           *)
Propagated(code) == [i \in DOMAIN code |-> Fold(KnownAt(code, i), code[i])]

(* Every step of the rewritten code is the step of the code.               *)
LEMMA PropagatedStates ==
  ASSUME NEW code \in Code, LoadsOnce(code), Indexable(code), ReadsResults(code),
         NEW symbols, NEW in, Input(in), WellRun(code, symbols, in)
  PROVE  \A i \in 0..Len(code) :
           States(Propagated(code), symbols, in)[i] = States(code, symbols, in)[i]
<1> DEFINE e == Propagated(code)
           n == Len(code)
           s == States(code, symbols, in)
           r == States(e, symbols, in)
           S == {i \in 0..n : r[i] = s[i]}
<1>1. e \in Code /\ Len(e) = n /\ n \in Nat /\ DOMAIN code = 1..n
  BY Folded, CodeIs DEF CodeFacts, Propagated
<1>2. \A i \in 1..n : e[i] = Fold(KnownAt(code, i), code[i]) /\ code[i] \in Instruction
  BY <1>1, CodeIs DEF CodeFacts, Propagated
<1>3. s[0] = Start(in) /\ \A i \in 1..n : s[i] = Step(s[i - 1], code[i], symbols)
  BY StatesOf
<1> HIDE DEF e
<1>4. r[0] = Start(in) /\ \A i \in 1..n : r[i] = Step(r[i - 1], e[i], symbols)
  BY <1>1, StatesOf
<1>5. 0 \in S
  BY <1>1, <1>3, <1>4
<1>6. ASSUME NEW i \in 1..n, i - 1 \in S PROVE i \in S
  <2> DEFINE m == s[i - 1]
             c == code[i]
             d == Fold(KnownAt(code, i), c)
  <2>1. i - 1 \in 0..n /\ r[i - 1] = m /\ c \in Instruction
    BY <1>1, <1>2, <1>6
  <2>2. Typed(m)
    BY <2>1, LoadsAlwaysHold DEF LoadsHold
  <2>3. CASE m.mode = "run"
    <3>1. c.function # "PHI" => Right(KnownAt(code, i), m, c, symbols)
      BY <2>3, KnownIsRight
    <3> HIDE DEF s, m
    <3>2. Execute(m, d, symbols) = Execute(m, c, symbols)
      BY <2>1, <2>2, <3>1, FoldExecutes
    <3>3. Step(m, d, symbols) = Step(m, c, symbols)
      BY <2>3, <3>2 DEF Step
    <3>4. QED
      BY <1>2, <1>3, <1>4, <2>1, <3>3 DEF m
  <2>4. CASE m.mode # "run"
    <3>1. d = c \/ (c.function # "LABEL" /\ d.function # "LABEL")
      BY <2>1, FoldLabel
    <3> HIDE DEF s, m
    <3>2. Step(m, d, symbols) = Step(m, c, symbols)
      BY <2>4, <3>1 DEF Step
    <3>3. QED
      BY <1>2, <1>3, <1>4, <2>1, <3>2 DEF m
  <2>5. QED
    BY <2>3, <2>4
<1>7. 0..n \subseteq S
  <2> HIDE DEF S
  <2>1. QED
    BY <1>1, <1>5, <1>6, UpTo
<1>8. QED
  BY <1>7 DEF e

(* Code that runs the same means the same.                                  *)
LEMMA SameRunMeans ==
  ASSUME NEW c, NEW d, NEW symbols, NEW inputs,
         \A in \in inputs : Run(c, symbols, in) = Run(d, symbols, in)
  PROVE  Meaning(c, symbols, inputs) = Meaning(d, symbols, inputs)
BY DEF Meaning, Outcome

(* constant_propagation (src/src/tac.c:260-403) keeps what code means in which *)
(* a temporary that is loaded a constant is set once and whose runs do not read *)
(* what is not set, if its tables, as the arena lays them out, have room for    *)
(* every temporary it looks up: an immediate in place of a constant, numbers   *)
(* folded, operands of a sum swapped and branches included.                 *)
THEOREM PropagationKeepsMeaning ==
  ASSUME NEW code \in Code, LoadsOnce(code), Indexable(code), ReadsResults(code),
         NEW symbols, NEW inputs,
         \A in \in inputs : Input(in) /\ WellRun(code, symbols, in)
  PROVE  /\ constant_propagation(code).code \in Code
         /\ Meaning(constant_propagation(code).code, symbols, inputs) = Meaning(code, symbols, inputs)
<1> DEFINE e == Propagated(code)
<1>1. constant_propagation(code).code \in {code, e}
  BY DEF constant_propagation, Unchanged, Propagated
<1>2. e \in Code /\ Len(e) = Len(code) /\ Len(code) \in 0..Len(code)
  BY Folded, CodeIs DEF CodeFacts, Propagated
<1>3. \A in \in inputs : Run(e, symbols, in) = Run(code, symbols, in)
  BY <1>2, PropagatedStates DEF Run
<1>4. QED
  BY <1>1, <1>2, <1>3, SameRunMeans

(* Two instructions that compute the same thing, each from its machine.    *)
ComputeAlike(a, c, b, d) ==
  /\ a.in = b.in /\ IsPure(c) /\ c.function \notin {"PHI", "NOP"}
  /\ c.function = d.function /\ c.x = d.x /\ c.y = d.y
  /\ \A t \in Reads(c) : Reg(a, t) = Reg(b, t)

(* Both set their result, to one value, and do nothing else.                *)
SetsAlike(a, c, b, d, symbols) ==
  \E v : /\ Execute(a, c, symbols) = SetReg(a, c.result, v)
         /\ Execute(b, d, symbols) = SetReg(b, d.result, v)

(* Equal pure instructions on equal operands set the same.                  *)
LEMMA PureAlike ==
  ASSUME NEW a, NEW b, NEW c, NEW d, NEW symbols, ComputeAlike(a, c, b, d)
  PROVE  SetsAlike(a, c, b, d, symbols)
<1> USE DEF ComputeAlike, SetsAlike
<1>1. /\ c.function \in BinaryOps \cup UnaryOps => Reg(a, c.x) = Reg(b, d.x)
      /\ c.function \in BinaryOps => Reg(a, c.y) = Reg(b, d.y)
  BY ReadsAre
<1>2. CASE c.function \in {"LOAD_ARG", "LOAD_INT", "LOAD_SYM"}
  BY <1>2 DEF Execute
<1>3. CASE c.function \in {"MOV", "ADDI", "SUBI", "LTI"}
  <2>1. Reg(a, c.x) = Reg(b, d.x)
    BY <1>1, <1>3 DEF UnaryOps
  <2>2. QED
    BY <1>3, <2>1 DEF Execute
<1>4. CASE c.function \in {"ADD", "SUB", "LT"}
  <2>1. Reg(a, c.x) = Reg(b, d.x) /\ Reg(a, c.y) = Reg(b, d.y)
    BY <1>1, <1>4 DEF BinaryOps
  <2>2. QED
    BY <1>4, <2>1 DEF Execute
<1>5. QED
  BY <1>2, <1>3, <1>4 DEF IsPure, PureOps

(* No instruction after the k-th and up to the l-th sets t.                *)
Unset(code, k, l, t) ==
  /\ k \in 0..Len(code) /\ l \in 0..Len(code) /\ k <= l
  /\ \A p \in (k + 1)..l : code[p].result # t

(* Two machines hold the same in t.                                         *)
SameReg(a, b, t) == (t \in DOMAIN a.reg <=> t \in DOMAIN b.reg) /\ Reg(a, t) = Reg(b, t)

(* A temporary keeps its value until an instruction sets it.               *)
LEMMA Persists ==
  ASSUME NEW code \in Code, NEW symbols, NEW in,
         NEW k, NEW l, NEW t, Unset(code, k, l, t)
  PROVE  SameReg(States(code, symbols, in)[k], States(code, symbols, in)[l], t)
<1> DEFINE s == States(code, symbols, in)
           n == Len(code)
<1>1. /\ n \in Nat /\ k \in Nat /\ l \in Nat
      /\ k \in 0..n /\ l \in 0..n /\ k <= l
  BY CodeIs DEF CodeFacts, Unset
<1>2. s[0] = Start(in) /\ \A i \in 1..n : s[i] = Step(s[i - 1], code[i], symbols)
  BY StatesOf
<1> HIDE DEF s
<1> DEFINE Kept(d) == /\ Shaped(s[d])
                      /\ d >= k => SameReg(s[k], s[d], t)
           S == {d \in 0..l : Kept(d)}
<1>3. 0 \in S
  <2>1. Shaped(s[0])
    BY <1>2, StartIs
  <2>2. QED
    BY <1>1, <2>1 DEF SameReg
<1>4. ASSUME NEW d \in 1..l, d - 1 \in S PROVE d \in S
  <2>1. Kept(d - 1) /\ d \in 1..n
    BY <1>1, <1>4
  <2>2. s[d] = Step(s[d - 1], code[d], symbols)
    BY <1>2, <2>1
  <2>3. /\ Shaped(s[d])
        /\ t # code[d].result => (t \in DOMAIN s[d].reg <=> t \in DOMAIN s[d - 1].reg)
                                 /\ Reg(s[d], t) = Reg(s[d - 1], t)
    BY <2>1, <2>2, StepSets
  <2>4. CASE d - 1 >= k
    <3>1. t # code[d].result
      BY <1>1, <2>4 DEF Unset
    <3>2. Kept(d)
      BY <2>1, <2>3, <2>4, <3>1 DEF SameReg
    <3>3. QED
      BY <3>2
  <2>5. CASE ~(d - 1 >= k)
    <3>1. d >= k => d = k
      BY <1>1, <2>5
    <3>2. Kept(d)
      BY <2>3, <3>1 DEF SameReg
    <3>3. QED
      BY <3>2
  <2>6. QED
    BY <2>4, <2>5
<1>5. l \in S
  <2> HIDE DEF S
  <2>1. 0..l \subseteq S
    BY <1>1, <1>3, <1>4, UpTo
  <2>2. QED
    BY <1>1, <2>1
<1>6. QED
  BY <1>1, <1>5 DEF s

(* Where everything is set once, so are constants.                          *)
LEMMA SSALoadsOnce == ASSUME NEW code, IsSSA(code) PROVE LoadsOnce(code)
BY DEF IsSSA, LoadsOnce

(* Of two equal instructions that a run reaches, the later finds its result *)
(* in the result of the earlier.                                            *)
LEMMA MergedAgree ==
  ASSUME NEW code \in Code, IsSSA(code), ReadsResults(code), NEW symbols, NEW in, Input(in),
         WellRun(code, symbols, in), MayMerge(code, symbols, in),
         NEW i \in 1..Len(code), NEW j \in 1..Len(code), i < j, SameValue(code[i], code[j]),
         NEW l \in 0..Len(code), code[j].result # 0,
         code[j].result \in DOMAIN States(code, symbols, in)[l].reg
  PROVE  Reg(States(code, symbols, in)[l], code[j].result)
           = Reg(States(code, symbols, in)[l], code[i].result)
<1> DEFINE s == States(code, symbols, in)
           n == Len(code)
           from == code[j].result
           to == code[i].result
           c == code[i]
           d == code[j]
<1>1. n \in Nat /\ DOMAIN code = 1..n /\ i \in Nat /\ j \in Nat
  BY CodeIs DEF CodeFacts
<1>2. \A k \in 1..n : s[k] = Step(s[k - 1], code[k], symbols)
  BY StatesOf
<1>3. \A k \in 0..n : LoadsHold(code, symbols, in, k, s[k])
  BY LoadsAlwaysHold, SSALoadsOnce
<1>4. /\ d.function # "PHI" /\ to # 0
      /\ s[j - 1].mode = "run" => s[i - 1].mode = "run"
  BY <1>1 DEF MayMerge
<1>5. /\ \A k \in 1..n : code[k].result = from => k = j
      /\ \A k \in 1..n : code[k].result = to => k = i
  BY <1>1, <1>4 DEF IsSSA
<1>6. l \in j..n
  <2>1. PICK k \in 1..l : code[k].result = from
    BY <1>3 DEF LoadsHold
  <2>2. k = j
    BY <1>1, <1>5, <2>1
  <2>3. QED
    BY <1>1, <2>1, <2>2
<1>7. from \in DOMAIN s[j].reg /\ Reg(s[l], from) = Reg(s[j], from)
  <2>1. Unset(code, j, l, from)
    BY <1>1, <1>5, <1>6 DEF Unset
  <2>2. SameReg(States(code, symbols, in)[j], States(code, symbols, in)[l], from)
    <3> HIDE DEF from
    <3>1. QED
      BY <2>1, Persists, Zenon
  <2>3. QED
    BY <2>2 DEF SameReg
<1>8. from \notin DOMAIN s[j - 1].reg
  <2>1. SUFFICES ASSUME from \in DOMAIN s[j - 1].reg PROVE FALSE
    OBVIOUS
  <2>2. LoadsHold(code, symbols, in, j - 1, s[j - 1])
    BY <1>1, <1>3
  <2>3. PICK k \in 1..(j - 1) : code[k].result = from
    BY <2>1, <2>2 DEF LoadsHold
  <2>4. QED
    BY <1>1, <1>5, <2>3
<1>9. c.function = d.function /\ c.x = d.x /\ c.y = d.y /\ IsPure(c) /\ Reads(c) = Reads(d)
  BY DEF SameValue, Reads
<1>10. s[j - 1].mode = "run" /\ d.function # "NOP"
  <2>1. SUFFICES ASSUME s[j - 1].mode # "run" \/ d.function = "NOP" PROVE s[j] = s[j - 1]
    BY <1>7, <1>8
  <2>2. s[j] = Step(s[j - 1], d, symbols) /\ d.function # "LABEL"
    BY <1>2, <1>9 DEF IsPure, PureOps
  <2> HIDE DEF s, d
  <2>3. QED
    BY <2>1, <2>2, NopSteps DEF Step
<1>11. s[i - 1].mode = "run"
  BY <1>4, <1>10
<1>12. ASSUME NEW t \in Reads(c) PROVE Reg(s[i - 1], t) = Reg(s[j - 1], t)
  <2>1. t # 0 /\ t \in DOMAIN s[i - 1].reg
    BY <1>1, <1>4, <1>9, <1>11, <1>12 DEF ReadsResults, WellRun, Needed
  <2>2. LoadsHold(code, symbols, in, i - 1, s[i - 1])
    BY <1>1, <1>3
  <2>3. PICK k \in 1..(i - 1) : code[k].result = t
    BY <2>1, <2>2 DEF LoadsHold
  <2>4. \A p \in i..(j - 1) : code[p].result # t
    BY <1>1, <2>1, <2>3 DEF IsSSA
  <2>5. PICK a, b : a = i - 1 /\ b = j - 1
    OBVIOUS
  <2>6. Unset(code, a, b, t)
    BY <1>1, <2>4, <2>5 DEF Unset
  <2>7. SameReg(States(code, symbols, in)[a], States(code, symbols, in)[b], t)
    BY <2>6, Persists, Zenon
  <2>8. QED
    BY <2>5, <2>7 DEF SameReg
<1>13. PICK v : /\ Execute(s[i - 1], c, symbols) = SetReg(s[i - 1], to, v)
                /\ Execute(s[j - 1], d, symbols) = SetReg(s[j - 1], from, v)
  <2>1. s[i - 1].in = s[j - 1].in
    <3>1. i - 1 \in 0..n /\ j - 1 \in 0..n
      BY <1>1
    <3>2. s[i - 1].in = in /\ s[j - 1].in = in
      BY <1>3, <3>1 DEF LoadsHold
    <3>3. QED
      BY <3>2
  <2>2. c.function \notin {"PHI", "NOP"}
    BY <1>4, <1>9, <1>10
  <2>3. PICK a, b : a = s[i - 1] /\ b = s[j - 1]
    OBVIOUS
  <2>4. ComputeAlike(a, c, b, d)
    BY <1>9, <1>12, <2>1, <2>2, <2>3 DEF ComputeAlike
  <2>5. SetsAlike(a, c, b, d, symbols)
    <3> HIDE DEF s, c, d
    <3>1. QED
      BY <2>4, PureAlike, Zenon
  <2>6. QED
    BY <2>3, <2>5 DEF SetsAlike
<1>14. s[i] = SetReg(s[i - 1], to, v) /\ s[j] = SetReg(s[j - 1], from, v)
  <2>1. s[i] = Step(s[i - 1], c, symbols) /\ s[j] = Step(s[j - 1], d, symbols)
    BY <1>2
  <2> HIDE DEF s, c, d
  <2>2. QED
    BY <1>10, <1>11, <1>13, <2>1 DEF Step
<1>15. Reg(s[i], to) = v /\ Reg(s[j], from) = v
  BY <1>14 DEF SetReg, Reg
<1>16. Reg(s[l], to) = v
  <2>1. Unset(code, i, l, to)
    BY <1>1, <1>5, <1>6 DEF Unset
  <2>2. SameReg(States(code, symbols, in)[i], States(code, symbols, in)[l], to)
    <3> HIDE DEF to
    <3>1. QED
      BY <2>1, Persists, Zenon
  <2>3. QED
    BY <1>15, <2>2 DEF SameReg
<1>17. QED
  BY <1>7, <1>15, <1>16

(* value_numbering once the j-th instruction was found equal to the i-th.   *)
Numbered(code, i, j) ==
  [k \in DOMAIN code |->
     IF k \in {l \in (j + 1)..Len(code) : IsPure(code[l])}
     THEN replace_args(code[k], code[j].result, code[i].result) ELSE code[k]]

(* What copying an instruction away makes of it.                            *)
LEMMA ReplacedIs ==
  ASSUME NEW c \in Instruction, NEW from, NEW to \in Nat
  PROVE  LET d == replace_args(c, from, to)
         IN  /\ d \in Instruction /\ d.function = c.function /\ d.result = c.result
             /\ d.x = IF c.function \in BinaryOps \cup UnaryOps /\ c.x = from THEN to ELSE c.x
             /\ d.y = IF c.function \in BinaryOps /\ c.y = from THEN to ELSE c.y
BY DEF replace_args, Instruction

(* It is code of the same length, changed at j only.                        *)
LEMMA NumberedIs ==
  ASSUME NEW code \in Code, NEW i \in DOMAIN code, NEW j \in DOMAIN code
  PROVE  LET e == Numbered(code, i, j)
         IN  /\ e \in Code /\ Len(e) = Len(code)
             /\ \A k \in 1..Len(code) :
                  e[k] = code[k] \/ /\ k \in (j + 1)..Len(code) /\ IsPure(code[k])
                                    /\ e[k] = replace_args(code[k], code[j].result, code[i].result)
<1> DEFINE e == Numbered(code, i, j)
<1>1. /\ Len(code) \in Nat /\ DOMAIN code = 1..Len(code)
      /\ \A k \in 1..Len(code) : code[k] \in Instruction
  BY CodeIs DEF CodeFacts
<1>2. e = [k \in 1..Len(code) |-> e[k]] /\ DOMAIN e = 1..Len(code)
  BY <1>1 DEF Numbered
<1>3. \A k \in 1..Len(code) :
        e[k] = code[k] \/ /\ k \in (j + 1)..Len(code) /\ IsPure(code[k])
                          /\ e[k] = replace_args(code[k], code[j].result, code[i].result)
  BY <1>1 DEF Numbered
<1>4. code[i].result \in Nat
  BY <1>1 DEF Instruction
<1>5. \A k \in 1..Len(code) : e[k] \in Instruction
  BY <1>1, <1>3, <1>4, ReplacedIs
<1> HIDE DEF e
<1>6. e \in Code /\ Len(e) = Len(code)
  BY <1>1, <1>2, <1>5 DEF Code
<1>7. QED
  BY <1>3, <1>6 DEF e

(* A machine whose fields agree is the same machine.                        *)
LEMMA SameMachine ==
  ASSUME NEW m, NEW p, NEW q, NEW t, Alike(m, p, t, m, q, t)
  PROVE  p = q
<1>1. p.reg = q.reg
  BY DEF Alike
<1>2. SameBut(p, q) /\ Shaped(p) /\ Shaped(q)
  BY DEF Alike
<1>3. QED
  BY <1>1, <1>2 DEF SameBut, Shaped

(* An operand replaced by a temporary that holds the same makes no difference. *)
LEMMA ReplacedSteps ==
  ASSUME NEW m, Shaped(m), NEW symbols, NEW c \in Instruction, IsPure(c), NEW from, NEW to \in Nat,
         m.mode = "run" /\ from \in Needed(m, c) => Reg(m, from) = Reg(m, to)
  PROVE  Step(m, replace_args(c, from, to), symbols) = Step(m, c, symbols)
<1> DEFINE d == replace_args(c, from, to)
<1>1. /\ d.function = c.function /\ d.result = c.result
      /\ d.x = IF c.function \in BinaryOps \cup UnaryOps /\ c.x = from THEN to ELSE c.x
      /\ d.y = IF c.function \in BinaryOps /\ c.y = from THEN to ELSE c.y
  BY ReplacedIs
<1> HIDE DEF d
<1> SUFFICES Step(m, d, symbols) = Step(m, c, symbols)
  BY DEF d
<1>2. CASE m.mode # "run"
  <2>1. c.function # "LABEL" /\ d.function # "LABEL"
    BY <1>1 DEF IsPure, PureOps
  <2>2. QED
    BY <1>2, <2>1 DEF Step
<1>3. CASE m.mode = "run" /\ c.function = "PHI"
  <2>1. (IF m.jumped THEN Reg(m, d.x) ELSE Reg(m, d.y)) = IF m.jumped THEN Reg(m, c.x) ELSE Reg(m, c.y)
    BY <1>1, <1>3 DEF Needed, BinaryOps
  <2>2. Execute(m, d, symbols) = SetReg(m, d.result, IF m.jumped THEN Reg(m, d.x) ELSE Reg(m, d.y))
    BY <1>1, <1>3 DEF Execute
  <2>3. Execute(m, c, symbols) = SetReg(m, c.result, IF m.jumped THEN Reg(m, c.x) ELSE Reg(m, c.y))
    BY <1>1, <1>3 DEF Execute
  <2>4. QED
    BY <1>1, <1>3, <2>1, <2>2, <2>3 DEF Step
<1>4. CASE m.mode = "run" /\ c.function # "PHI"
  <2>1. Needed(m, c) = Reads(c)
    BY <1>4 DEF Needed
  <2>2. /\ c.function \in BinaryOps \cup UnaryOps => Reg(m, c.x) = Reg(m, d.x)
        /\ c.function \in BinaryOps => Reg(m, c.y) = Reg(m, d.y)
    BY <1>1, <1>4, <2>1, ReadsAre
  <2>3. Alike(m, Step(m, c, symbols), c.result, m, Step(m, d, symbols), d.result)
    BY <1>1, <2>2, StepAlike DEF SameBut
  <2>4. QED
    BY <1>1, <2>3, SameMachine
<1>5. QED
  BY <1>2, <1>3, <1>4

(* Only operands are needed.                                                *)
LEMMA NeededAreRead == ASSUME NEW m, NEW c PROVE Needed(m, c) \subseteq Reads(c)
<1>1. CASE c.function = "PHI"
  BY <1>1, ReadsAre DEF Needed, BinaryOps
<1>2. CASE c.function # "PHI"
  BY <1>2 DEF Needed
<1>3. QED
  BY <1>1, <1>2

(* Every step of the rewritten code is the step of the code.               *)
LEMMA NumberedStates ==
  ASSUME NEW code \in Code, IsSSA(code), ReadsResults(code), NEW symbols, NEW in, Input(in),
         WellRun(code, symbols, in), MayMerge(code, symbols, in),
         NEW i \in 1..Len(code), NEW j \in 1..Len(code), i < j, SameValue(code[i], code[j])
  PROVE  \A k \in 0..Len(code) :
           States(Numbered(code, i, j), symbols, in)[k] = States(code, symbols, in)[k]
<1> DEFINE e == Numbered(code, i, j)
           n == Len(code)
           s == States(code, symbols, in)
           r == States(e, symbols, in)
           from == code[j].result
           to == code[i].result
<1>1. /\ n \in Nat /\ DOMAIN code = 1..n
      /\ \A k \in 1..n : code[k] \in Instruction
  BY CodeIs DEF CodeFacts
<1>2. /\ e \in Code /\ Len(e) = n
      /\ \A k \in 1..n : \/ e[k] = code[k]
                         \/ IsPure(code[k]) /\ e[k] = replace_args(code[k], from, to)
  BY <1>1, NumberedIs
<1>3. s[0] = Start(in) /\ \A k \in 1..n : s[k] = Step(s[k - 1], code[k], symbols)
  BY StatesOf
<1>4. r[0] = Start(in) /\ \A k \in 1..n : r[k] = Step(r[k - 1], e[k], symbols)
  BY <1>2, StatesOf
<1>5. \A k \in 0..n : Shaped(s[k])
  <2>1. \A k \in 0..n : LoadsHold(code, symbols, in, k, s[k])
    BY LoadsAlwaysHold, SSALoadsOnce
  <2>2. QED
    BY <2>1 DEF LoadsHold, Typed
<1>6. to \in Nat
  BY <1>1 DEF Instruction
<1>7. ASSUME NEW k \in 1..n, s[k - 1].mode = "run", from \in Needed(s[k - 1], code[k])
      PROVE  Reg(s[k - 1], from) = Reg(s[k - 1], to)
  <2>1. from \in Reads(code[k])
    BY <1>7, NeededAreRead
  <2>2. from # 0
    BY <1>1, <2>1 DEF ReadsResults
  <2>3. from \in DOMAIN s[k - 1].reg
    BY <1>1, <1>7 DEF WellRun
  <2>4. PICK l : l = k - 1
    OBVIOUS
  <2>5. l \in 0..Len(code) /\ from \in DOMAIN States(code, symbols, in)[l].reg
    BY <1>1, <2>3, <2>4
  <2>6. Reg(States(code, symbols, in)[l], from) = Reg(States(code, symbols, in)[l], to)
    BY <2>2, <2>5, MergedAgree
  <2>7. QED
    BY <2>4, <2>6
<1>8. ASSUME NEW k \in 1..n PROVE Step(s[k - 1], e[k], symbols) = s[k]
  <2>1. k - 1 \in 0..n /\ s[k] = Step(s[k - 1], code[k], symbols)
    BY <1>1, <1>3
  <2>2. PICK m : m = s[k - 1]
    OBVIOUS
  <2>3. Shaped(m) /\ (m.mode = "run" /\ from \in Needed(m, code[k]) => Reg(m, from) = Reg(m, to))
    BY <1>5, <1>7, <2>1, <2>2
  <2>4. CASE e[k] = code[k]
    BY <2>1, <2>4
  <2>5. CASE IsPure(code[k]) /\ e[k] = replace_args(code[k], from, to)
    <3>1. Step(m, e[k], symbols) = Step(m, code[k], symbols)
      BY <1>1, <1>6, <2>3, <2>5, ReplacedSteps
    <3>2. QED
      BY <2>1, <2>2, <3>1
  <2>6. QED
    BY <1>2, <2>4, <2>5
<1> DEFINE S == {k \in 0..n : r[k] = s[k]}
<1> HIDE DEF s, r, e
<1>9. 0 \in S
  BY <1>1, <1>3, <1>4
<1>10. ASSUME NEW k \in 1..n, k - 1 \in S PROVE k \in S
  BY <1>1, <1>4, <1>8, <1>10
<1>11. 0..n \subseteq S
  <2> HIDE DEF S
  <2>1. QED
    BY <1>1, <1>9, <1>10, UpTo
<1>12. QED
  BY <1>11 DEF s, r, e

(* Code after value_numbering: one pair of equal instructions, or none, is    *)
(* found and the later result replaced.                                     *)
NumberedPair(code, i, j) ==
  /\ i \in 1..Len(code) /\ j \in 1..Len(code) /\ i < j /\ SameValue(code[i], code[j])
  /\ value_numbering(code).code = Numbered(code, i, j)

LEMMA NumberingFinds ==
  ASSUME NEW code \in Code
  PROVE  value_numbering(code).code = code \/ \E i, j : NumberedPair(code, i, j)
<1> DEFINE repeated == {i \in DOMAIN code : \E j \in (i + 1)..Len(code) : SameValue(code[i], code[j])}
           i == Min(repeated)
           later == {k \in (i + 1)..Len(code) : SameValue(code[i], code[k])}
           j == Min(later)
<1>1. Len(code) \in Nat /\ DOMAIN code = 1..Len(code)
  BY CodeIs DEF CodeFacts
<1>2. CASE repeated = {}
  BY <1>2 DEF value_numbering, Unchanged
<1>3. CASE repeated # {}
  <2>1. i \in repeated
    <3>1. repeated \subseteq Nat
      BY <1>1
    <3> HIDE DEF repeated
    <3>2. QED
      BY <1>3, <3>1, MinIs
  <2>2. j \in later
    <3>1. PICK k : k = i
      OBVIOUS
    <3>2. k \in 1..Len(code) /\ \E l \in (k + 1)..Len(code) : SameValue(code[k], code[l])
      BY <1>1, <2>1, <3>1
    <3>3. later = {l \in (k + 1)..Len(code) : SameValue(code[k], code[l])}
      BY <3>1
    <3>4. PICK m : m \in (k + 1)..Len(code) /\ SameValue(code[k], code[m])
      BY <3>2
    <3> HIDE DEF later
    <3>5. later \subseteq Nat /\ m \in later
      BY <1>1, <3>2, <3>3, <3>4
    <3>6. QED
      BY <3>5, MinIs
  <2>3. i \in 1..Len(code) /\ j \in 1..Len(code) /\ i < j /\ SameValue(code[i], code[j])
    <3>1. i \in 1..Len(code)
      BY <1>1, <2>1
    <3> HIDE DEF i
    <3>2. j \in (i + 1)..Len(code) /\ SameValue(code[i], code[j])
      BY <2>2
    <3> HIDE DEF j
    <3>3. QED
      BY <1>1, <3>1, <3>2
  <2>4. value_numbering(code).code = Numbered(code, i, j)
    BY <1>3 DEF value_numbering, Numbered
  <2> HIDE DEF i, j
  <2>5. QED
    BY <2>3, <2>4 DEF NumberedPair
<1>4. QED
  BY <1>2, <1>3

(* value_numbering (src/src/tac.c:507-531) keeps what code means that sets each *)
(* temporary once, as long as no two instructions of the same value are such *)
(* that a run gets to the later and not to the earlier.                     *)
THEOREM NumberingKeepsMeaning ==
  ASSUME NEW code \in Code, IsSSA(code), ReadsResults(code), NEW symbols, NEW inputs,
         \A in \in inputs : Input(in) /\ WellRun(code, symbols, in) /\ MayMerge(code, symbols, in)
  PROVE  /\ value_numbering(code).code \in Code
         /\ Meaning(value_numbering(code).code, symbols, inputs) = Meaning(code, symbols, inputs)
<1>1. CASE value_numbering(code).code = code
  BY <1>1
<1>2. ASSUME NEW i, NEW j, NumberedPair(code, i, j)
      PROVE  /\ value_numbering(code).code \in Code
             /\ Meaning(value_numbering(code).code, symbols, inputs) = Meaning(code, symbols, inputs)
  <2> DEFINE e == Numbered(code, i, j)
  <2>1. i \in DOMAIN code /\ j \in DOMAIN code /\ Len(code) \in 0..Len(code)
    BY <1>2, CodeIs DEF CodeFacts, NumberedPair
  <2>2. e \in Code /\ Len(e) = Len(code)
    BY <2>1, NumberedIs
  <2>3. \A in \in inputs : Run(e, symbols, in) = Run(code, symbols, in)
    BY <1>2, <2>1, <2>2, NumberedStates DEF Run, NumberedPair
  <2>4. QED
    BY <1>2, <2>2, <2>3, SameRunMeans DEF NumberedPair
<1>3. QED
  BY <1>1, <1>2, NumberingFinds

(* What renaming makes of an instruction.                                   *)
LEMMA MappedIs ==
  ASSUME NEW c \in Instruction, NEW top \in Nat, NEW m \in [0..top -> Nat],
         Mentions(c) \subseteq 0..top, m[0] = 0
  PROVE  LET d == MapTemps(m, c)
         IN  /\ d \in Instruction /\ d.function = c.function /\ d.result = m[c.result]
             /\ d.x = IF c.function \in BinaryOps \cup UnaryOps THEN m[c.x] ELSE c.x
             /\ d.y = IF c.function \in BinaryOps THEN m[c.y] ELSE c.y
<1> DEFINE d == MapTemps(m, c)
<1>1. /\ c.function \in BinaryOps \cup UnaryOps => c.x \in 0..top
      /\ c.function \in BinaryOps => c.y \in 0..top
      /\ c.result \in 0..top
  <2>1. c.result # 0 => c.result \in Mentions(c)
    BY DEF Mentions
  <2>2. Reads(c) \subseteq 0..top
    BY DEF Mentions
  <2>3. QED
    BY <2>1, <2>2, ReadsAre
<1>2. /\ d.function = c.function /\ d.result = m[c.result]
      /\ d.x = IF c.function \in BinaryOps \cup UnaryOps THEN m[c.x] ELSE c.x
      /\ d.y = IF c.function \in BinaryOps THEN m[c.y] ELSE c.y
      /\ d = [result |-> d.result, function |-> d.function, x |-> d.x, y |-> d.y]
  <2>1. PICK r, x, y : /\ r = m[c.result]
                       /\ x = IF c.function \in BinaryOps \cup UnaryOps THEN m[c.x] ELSE c.x
                       /\ y = IF c.function \in BinaryOps THEN m[c.y] ELSE c.y
    OBVIOUS
  <2>2. d = [c EXCEPT !.result = r, !.x = x, !.y = y]
    BY <2>1 DEF MapTemps
  <2> HIDE DEF d
  <2>3. /\ d.function = c.function /\ d.result = r /\ d.x = x /\ d.y = y
        /\ d = [result |-> d.result, function |-> d.function, x |-> d.x, y |-> d.y]
    BY <2>2 DEF Instruction
  <2>4. QED
    BY <2>1, <2>3
<1> HIDE DEF d
<1>3. d.result \in Nat /\ d.x \in Nat /\ d.y \in Nat /\ d.function \in Ops
  <2>1. c.x \in Nat /\ c.y \in Nat /\ c.function \in Ops
    BY DEF Instruction
  <2>2. \A t \in 0..top : m[t] \in Nat
    OBVIOUS
  <2>3. QED
    BY <1>1, <1>2, <2>1, <2>2
<1>4. d \in Instruction
  BY <1>2, <1>3 DEF Instruction
<1>5. QED
  BY <1>2, <1>4 DEF d

(* b has run the renamed code where a has run the code: what a holds and   *)
(* is mentioned again, b holds under its new name.                         *)
Renamed(code, m, i, a, b) ==
  /\ Shaped(a) /\ Shaped(b) /\ SameBut(a, b)
  /\ \A t \in DOMAIN a.reg : t # 0 => \E j \in 1..i : code[j].result = t
  /\ \A t \in DOMAIN a.reg, j \in (i + 1)..Len(code) :
       t # 0 /\ t \in Mentions(code[j]) => Reg(b, m[t]) = Reg(a, t)

(* The two runs stay in step: the register that is overwritten belongs to   *)
(* nothing that is mentioned later.                                         *)
LEMMA RenamedStep ==
  ASSUME NEW code \in Code, ReadsResults(code),
         \A i \in DOMAIN code : code[i].function # "PHI",
         NEW top \in Nat, NEW m \in [0..top -> Nat],
         \A i \in DOMAIN code : Mentions(code[i]) \subseteq 0..top,
         Separates(m, code), KeepsResults(m, code), NEW symbols,
         NEW k \in 1..Len(code), NEW a, NEW b, Renamed(code, m, k - 1, a, b),
         a.mode = "run" => Reads(code[k]) \subseteq DOMAIN a.reg
  PROVE  Renamed(code, m, k, Step(a, code[k], symbols), Step(b, MapTemps(m, code[k]), symbols))
<1> DEFINE c == code[k]
           d == MapTemps(m, c)
           p == Step(a, c, symbols)
           q == Step(b, d, symbols)
<1> SUFFICES Renamed(code, m, k, p, q)
  OBVIOUS
<1>1. /\ Len(code) \in Nat /\ DOMAIN code = 1..Len(code) /\ k \in Nat
      /\ c \in Instruction /\ k \in DOMAIN code
  BY CodeIs DEF CodeFacts
<1>2. /\ d.function = c.function /\ d.result = m[c.result]
      /\ d.x = IF c.function \in BinaryOps \cup UnaryOps THEN m[c.x] ELSE c.x
      /\ d.y = IF c.function \in BinaryOps THEN m[c.y] ELSE c.y
  <2>1. Mentions(c) \subseteq 0..top /\ m[0] = 0 /\ c \in Instruction
    BY <1>1 DEF KeepsResults
  <2> HIDE DEF c, d
  <2>2. PICK e : e = MapTemps(m, c)
    OBVIOUS
  <2>3. /\ e.function = c.function /\ e.result = m[c.result]
        /\ e.x = IF c.function \in BinaryOps \cup UnaryOps THEN m[c.x] ELSE c.x
        /\ e.y = IF c.function \in BinaryOps THEN m[c.y] ELSE c.y
    BY <2>1, <2>2, MappedIs
  <2>4. e = d
    BY <2>2 DEF d
  <2>5. QED
    BY <2>3, <2>4
<1>3. Shaped(a) /\ Shaped(b) /\ SameBut(a, b)
  BY DEF Renamed
<1>4. ASSUME a.mode = "run", NEW t \in Reads(c) PROVE Reg(b, m[t]) = Reg(a, t)
  <2>1. t # 0 /\ t \in DOMAIN a.reg
    BY <1>1, <1>4 DEF ReadsResults
  <2>2. k \in ((k - 1) + 1)..Len(code) /\ t \in Mentions(code[k])
    BY <1>1, <1>4 DEF Mentions
  <2>3. QED
    BY <2>1, <2>2 DEF Renamed
<1>5. Alike(a, p, c.result, b, q, m[c.result])
  <2>1. a.mode = "run" =>
          /\ c.function \in BinaryOps \cup UnaryOps => Reg(a, c.x) = Reg(b, d.x)
          /\ c.function \in BinaryOps => Reg(a, c.y) = Reg(b, d.y)
    BY <1>2, <1>4, ReadsAre
  <2> HIDE DEF c, d
  <2>2. QED
    BY <1>2, <1>3, <2>1, StepAlike
<1> HIDE DEF p, q, d
<1>6. /\ \A t : t # c.result => (t \in DOMAIN p.reg <=> t \in DOMAIN a.reg) /\ Reg(p, t) = Reg(a, t)
      /\ \A t : t # m[c.result] => Reg(q, t) = Reg(b, t)
      /\ \/ p.reg = a.reg /\ q.reg = b.reg
         \/ Reg(p, c.result) = Reg(q, m[c.result])
  BY <1>5, AlikeRegs
<1>7. ASSUME NEW t \in DOMAIN p.reg, t # 0 PROVE \E j \in 1..k : code[j].result = t
  <2>1. CASE t = c.result
    BY <1>1, <2>1
  <2>2. CASE t # c.result
    <3>1. PICK j \in 1..(k - 1) : code[j].result = t
      BY <1>6, <1>7, <2>2 DEF Renamed
    <3>2. QED
      BY <1>1, <3>1
  <2>3. QED
    BY <2>1, <2>2
<1>8. ASSUME NEW t \in DOMAIN p.reg, NEW j \in (k + 1)..Len(code), t # 0, t \in Mentions(code[j])
      PROVE  Reg(q, m[t]) = Reg(p, t)
  <2>1. ASSUME t \in DOMAIN a.reg PROVE Reg(b, m[t]) = Reg(a, t)
    <3>1. j \in ((k - 1) + 1)..Len(code)
      BY <1>1
    <3>2. QED
      BY <1>8, <2>1, <3>1 DEF Renamed
  <2>2. CASE p.reg = a.reg /\ q.reg = b.reg
    BY <2>1, <2>2 DEF Reg
  <2>3. CASE t = c.result /\ Reg(p, c.result) = Reg(q, m[c.result])
    BY <2>3
  <2>4. CASE t # c.result
    <3>1. t \in DOMAIN a.reg /\ Reg(p, t) = Reg(a, t)
      BY <1>6, <2>4
    <3>2. m[t] # m[c.result]
      <4>1. j \in DOMAIN code /\ k <= j
        BY <1>1
      <4>2. CASE c.result = 0
        BY <1>8, <4>1, <4>2 DEF KeepsResults
      <4>3. CASE c.result # 0
        <5>1. PICK i \in 1..(k - 1) : code[i].result = t
          BY <1>8, <3>1 DEF Renamed
        <5>2. i \in DOMAIN code /\ i <= k
          BY <1>1
        <5>3. t \in Mentions(code[i]) \cap Mentions(code[j]) /\ c.result \in Mentions(code[k])
          BY <1>8, <4>3, <5>1 DEF Mentions
        <5>4. \A v \in Mentions(code[i]) \cap Mentions(code[j]), u \in Mentions(code[k]) :
                v # u => m[v] # m[u]
          BY <1>1, <4>1, <5>2 DEF Separates
        <5>5. QED
          BY <2>4, <5>3, <5>4
      <4>4. QED
        BY <4>2, <4>3
    <3>3. QED
      BY <1>6, <2>1, <3>1, <3>2
  <2>5. QED
    BY <1>6, <2>2, <2>3, <2>4
<1>9. Shaped(p) /\ Shaped(q) /\ SameBut(p, q)
  BY <1>5 DEF Alike
<1>10. QED
  BY <1>7, <1>8, <1>9 DEF Renamed

(* Any register allocation keeps what code without PHI means: if registers are *)
(* shared only as RegisterAllocation allows, each operand is found where it was put. *)
THEOREM RenamingKeepsMeaning ==
  ASSUME NEW code \in Code, ReadsResults(code),
         NoPhi(code),
         NEW top \in Nat, NEW m \in [0..top -> Nat],
         \A i \in DOMAIN code : Mentions(code[i]) \subseteq 0..top,
         Separates(m, code), KeepsResults(m, code),
         NEW symbols, NEW inputs, \A in \in inputs : ReadsSet(code, symbols, in)
  PROVE  LET renamed == [i \in DOMAIN code |-> MapTemps(m, code[i])]
         IN  renamed \in Code /\ Meaning(renamed, symbols, inputs) = Meaning(code, symbols, inputs)
<1> DEFINE e == [i \in DOMAIN code |-> MapTemps(m, code[i])]
           n == Len(code)
<1>1. /\ n \in Nat /\ DOMAIN code = 1..n
      /\ \A i \in 1..n : code[i] \in Instruction
  BY CodeIs DEF CodeFacts
<1>2. \A i \in 1..n : e[i] \in Instruction
  BY <1>1, MappedIs DEF KeepsResults
<1>3. e \in Code /\ Len(e) = n /\ \A i \in 1..n : e[i] = MapTemps(m, code[i])
  <2>1. DOMAIN e = 1..n /\ e = [i \in 1..n |-> e[i]] /\ \A i \in 1..n : e[i] = MapTemps(m, code[i])
    BY <1>1
  <2> HIDE DEF e
  <2>2. QED
    BY <1>1, <1>2, <2>1 DEF Code
<1> HIDE DEF e
<1>4. ASSUME NEW in \in inputs PROVE SameBut(Run(e, symbols, in), Run(code, symbols, in))
  <2> DEFINE s == States(code, symbols, in)
             r == States(e, symbols, in)
             S == {i \in 0..n : Renamed(code, m, i, s[i], r[i])}
  <2>1. s[0] = Start(in) /\ \A i \in 1..n : s[i] = Step(s[i - 1], code[i], symbols)
    BY StatesOf
  <2>2. r[0] = Start(in) /\ \A i \in 1..n : r[i] = Step(r[i - 1], MapTemps(m, code[i]), symbols)
    BY <1>3, StatesOf
  <2>3. \A i \in 1..n : s[i - 1].mode = "run" => Reads(code[i]) \subseteq DOMAIN s[i - 1].reg
    BY <1>1, <1>4 DEF ReadsSet
  <2> HIDE DEF s, r
  <2>4. 0 \in S
    <3>1. Renamed(code, m, 0, Start(in), Start(in))
      BY StartIs DEF Renamed, SameBut
    <3>2. QED
      BY <1>1, <2>1, <2>2, <3>1
  <2>5. ASSUME NEW i \in 1..n, i - 1 \in S PROVE i \in S
    <3>1. PICK a, b : a = s[i - 1] /\ b = r[i - 1]
      OBVIOUS
    <3>2. Renamed(code, m, i - 1, a, b) /\ (a.mode = "run" => Reads(code[i]) \subseteq DOMAIN a.reg)
      BY <2>3, <2>5, <3>1
    <3>3. Renamed(code, m, i, Step(a, code[i], symbols), Step(b, MapTemps(m, code[i]), symbols))
      BY <3>2, RenamedStep DEF NoPhi
    <3>4. QED
      BY <2>1, <2>2, <3>1, <3>3
  <2>6. n \in S
    <3> HIDE DEF S
    <3>1. 0..n \subseteq S
      BY <1>1, <2>4, <2>5, UpTo
    <3>2. QED
      BY <1>1, <3>1
  <2>7. QED
    BY <1>3, <2>6 DEF Run, Renamed, SameBut, s, r
<1>5. \A in \in inputs : Outcome(e, symbols, in) = Outcome(code, symbols, in)
  BY <1>4, SameOutcome
<1>6. QED
  BY <1>3, <1>5 DEF Meaning, e

(* c gives t the lowest number none of the lower temporaries it meets has.  *)
Fits(code, t, c) ==
  /\ c[t] \in 1..t
  /\ \A u \in 1..(t - 1) : Interfere(code, t, u) => c[u] # c[t]
  /\ \A d \in 1..(c[t] - 1) : \E u \in 1..(t - 1) : Interfere(code, t, u) /\ c[u] = d

(* m gives every temporary such a number: the greedy colouring.             *)
Greedy(code, n, m) ==
  /\ m \in [0..n -> Nat] /\ m[0] = 0
  /\ \A t \in 1..n : Fits(code, t, m)

(* There is one greedy colouring only,                                      *)
LEMMA GreedyUnique ==
  ASSUME NEW code, NEW n \in Nat, NEW a, Greedy(code, n, a), NEW b, Greedy(code, n, b)
  PROVE  a = b
<1> DEFINE S == {k \in 0..n : \A t \in 0..k : a[t] = b[t]}
<1>1. a \in [0..n -> Nat] /\ b \in [0..n -> Nat] /\ a[0] = 0 /\ b[0] = 0
  BY DEF Greedy
<1>2. 0 \in S
  BY <1>1
<1>3. ASSUME NEW t \in 1..n, \A u \in 1..(t - 1) : a[u] = b[u],
             NEW c, NEW d, Fits(code, t, c), Fits(code, t, d),
             \A u \in 1..(t - 1) : c[u] = d[u]
      PROVE  ~(c[t] < d[t])
  <2>1. SUFFICES ASSUME c[t] < d[t] PROVE FALSE
    OBVIOUS
  <2>2. c[t] \in 1..t /\ d[t] \in 1..t /\ c[t] \in 1..(d[t] - 1)
    BY <1>3, <2>1 DEF Fits
  <2>3. PICK u \in 1..(t - 1) : Interfere(code, t, u) /\ d[u] = c[t]
    BY <1>3, <2>2 DEF Fits
  <2>4. c[u] # c[t]
    BY <1>3, <2>3 DEF Fits
  <2>5. QED
    BY <1>3, <2>3, <2>4
<1>4. ASSUME NEW k \in 1..n, k - 1 \in S PROVE k \in S
  <2>1. \A u \in 0..(k - 1) : a[u] = b[u]
    BY <1>4
  <2>2. \A u \in 1..(k - 1) : a[u] = b[u]
    BY <2>1
  <2>3. Fits(code, k, a) /\ Fits(code, k, b)
    BY DEF Greedy
  <2>4. ~(a[k] < b[k]) /\ ~(b[k] < a[k])
    BY <1>3, <2>2, <2>3
  <2>5. a[k] = b[k]
    BY <1>1, <2>4
  <2>6. \A t \in 0..k : t = k \/ t \in 0..(k - 1)
    OBVIOUS
  <2>7. QED
    BY <2>1, <2>5, <2>6
<1>5. n \in S
  <2> HIDE DEF S
  <2>1. 0..n \subseteq S
    BY <1>2, <1>4, UpTo
  <2>2. QED
    BY <2>1
<1>6. QED
  BY <1>1, <1>5

-----------------------------------------------------------------------------
(* The colours of the first n temporaries, for every n.                    *)
Painting0(code, k, f) ==
  f = [n \in 0..k |-> IF n = 0 THEN <<>> ELSE Painted(code, n, f[n - 1])]

(* The recursive function that paints them exists,                          *)
LEMMA PaintingExists ==
  ASSUME NEW code, NEW n \in Nat
  PROVE  \E f : Painting0(code, n, f)
<1> DEFINE S == {i \in 0..n : \E f : Painting0(code, i, f)}
<1>1. 0 \in S
  <2>1. Painting0(code, 0, [i \in 0..0 |-> <<>>])
    BY DEF Painting0
  <2>2. QED
    BY <2>1
<1>2. ASSUME NEW k \in 1..n, k - 1 \in S PROVE k \in S
  <2>1. PICK f : Painting0(code, k - 1, f)
    BY <1>2
  <2> DEFINE g == [i \in 0..k |-> IF i = k THEN Painted(code, k, f[k - 1]) ELSE f[i]]
  <2>2. \A i \in 0..(k - 1) : f[i] = IF i = 0 THEN <<>> ELSE Painted(code, i, f[i - 1])
    BY <2>1 DEF Painting0
  <2>3. \A i \in 0..k : g[i] = IF i = 0 THEN <<>> ELSE Painted(code, i, g[i - 1])
    BY <2>2
  <2>4. g = [i \in 0..k |-> g[i]]
    OBVIOUS
  <2> HIDE DEF g
  <2>5. Painting0(code, k, g)
    BY <2>3, <2>4 DEF Painting0
  <2>6. QED
    BY <2>5
<1>3. 0..n \subseteq S
  <2> HIDE DEF S
  <2>1. QED
    BY <1>1, <1>2, UpTo
<1>4. QED
  BY <1>3

(* The first n colours fit.                                                *)
Fitting(code, n, c) ==
  /\ c \in Seq(Nat) /\ Len(c) = n
  /\ \A t \in 1..n : Fits(code, t, c)

(* each colour fits when it is given,                                       *)
LEMMA PaintedFits ==
  ASSUME NEW code, NEW n \in Nat \ {0}, NEW c, Fitting(code, n - 1, c)
  PROVE  Fitting(code, n, Painted(code, n, c))
<1> DEFINE taken == {c[u] : u \in {v \in 1..(n - 1) : Interfere(code, n, v)}}
           free == (1..n) \ taken
           d == Append(c, Min(free))
<1>1. c \in Seq(Nat) /\ Len(c) = n - 1 /\ \A t \in 1..(n - 1) : Fits(code, t, c)
  BY DEF Fitting
<1>2. \A u \in 1..(n - 1) : c[u] \in Nat /\ c[u] <= u
  BY <1>1 DEF Fits
<1>3. n \in free
  BY <1>2
<1>4. Min(free) \in free /\ \A y \in free : Min(free) <= y
  <2>1. free \subseteq Nat /\ free # {}
    BY <1>3
  <2> HIDE DEF free
  <2>2. QED
    BY <2>1, MinIs
<1>5. PICK m : m = Min(free)
  OBVIOUS
<1>6. m \in 1..n /\ m \notin taken /\ \A y \in free : m <= y
  BY <1>4, <1>5
<1> HIDE DEF free
<1>7. /\ d \in Seq(Nat) /\ Len(d) = n /\ d[n] = m
      /\ \A u \in 1..(n - 1) : d[u] = c[u]
  BY <1>1, <1>5, <1>6
<1> HIDE DEF d
<1>8. Fits(code, n, d)
  <2>1. ASSUME NEW u \in 1..(n - 1), Interfere(code, n, u) PROVE d[u] # d[n]
    BY <1>6, <1>7, <2>1
  <2>2. ASSUME NEW e \in 1..(m - 1) PROVE \E u \in 1..(n - 1) : Interfere(code, n, u) /\ d[u] = e
    <3>1. e \notin free /\ e \in 1..n
      BY <1>6
    <3>2. e \in taken
      BY <3>1 DEF free
    <3>3. QED
      BY <1>7, <3>2
  <2>3. QED
    BY <1>6, <1>7, <2>1, <2>2 DEF Fits
<1>9. ASSUME NEW t \in 1..(n - 1) PROVE Fits(code, t, d)
  <2>1. Fits(code, t, c) /\ d[t] = c[t] /\ \A u \in 1..(t - 1) : d[u] = c[u]
    BY <1>1, <1>7
  <2>2. QED
    BY <2>1 DEF Fits
<1>10. \A t \in 1..n : Fits(code, t, d)
  BY <1>8, <1>9
<1>11. QED
  BY <1>7, <1>10 DEF Fitting, Painted, d, free

(* and goes on to,                                                          *)
LEMMA ColouringFits ==
  ASSUME NEW code, NEW n \in Nat, NEW f, Painting0(code, n, f)
  PROVE  Fitting(code, n, f[n])
<1> DEFINE S == {k \in 0..n : Fitting(code, k, f[k])}
<1>1. f[0] = <<>> /\ \A k \in 1..n : f[k] = Painted(code, k, f[k - 1])
  <2>1. \A k \in 0..n : f[k] = IF k = 0 THEN <<>> ELSE Painted(code, k, f[k - 1])
    BY DEF Painting0
  <2>2. QED
    BY <2>1
<1>2. 0 \in S
  <2>1. Fitting(code, 0, <<>>)
    BY DEF Fitting
  <2>2. QED
    BY <1>1, <2>1
<1>3. ASSUME NEW k \in 1..n, k - 1 \in S PROVE k \in S
  <2>1. Fitting(code, k - 1, f[k - 1]) /\ k \in Nat \ {0}
    BY <1>3
  <2>2. Fitting(code, k, f[k])
    BY <1>1, <2>1, PaintedFits
  <2>3. QED
    BY <2>2
<1>4. n \in S
  <2> HIDE DEF S
  <2>1. 0..n \subseteq S
    BY <1>2, <1>3, UpTo
  <2>2. QED
    BY <2>1
<1>5. QED
  BY <1>4

(* so fold_temporaries renames by the greedy colouring.                     *)
LEMMA FoldIs ==
  ASSUME NEW code \in Code
  PROVE  \E m : /\ Greedy(code, count_temps(code), m)
                /\ fold_temporaries(code) = [i \in DOMAIN code |-> MapTemps(m, code[i])]
<1> DEFINE n == count_temps(code)
<1>1. n \in Nat
  BY CountIs
<1> HIDE DEF n
<1>2. PICK f : Painting0(code, n, f)
  BY <1>1, PaintingExists
<1>3. PICK g : Painting0(code, n, g) /\ colours(code) = g[n]
  BY <1>2, Zenon DEF colours, Painting0, n
<1>4. Fitting(code, n, g[n])
  BY <1>1, <1>3, ColouringFits
<1> DEFINE m == [t \in 0..n |-> IF t = 0 THEN 0 ELSE g[n][t]]
<1>5. /\ m \in [0..n -> Nat] /\ m[0] = 0
      /\ \A t \in 1..n : m[t] = g[n][t]
  <2>1. \A t \in 1..n : g[n][t] \in Nat
    BY <1>1, <1>4 DEF Fitting
  <2>2. QED
    BY <1>1, <2>1
<1> HIDE DEF m
<1>6. ASSUME NEW t \in 1..n PROVE Fits(code, t, m)
  <2>1. Fits(code, t, g[n]) /\ m[t] = g[n][t] /\ \A u \in 1..(t - 1) : m[u] = g[n][u]
    BY <1>1, <1>4, <1>5 DEF Fitting
  <2>2. QED
    BY <2>1 DEF Fits
<1>7. Greedy(code, n, m)
  BY <1>5, <1>6 DEF Greedy
<1>8. fold_temporaries(code) = [i \in DOMAIN code |-> MapTemps(m, code[i])]
  BY <1>3 DEF fold_temporaries, m, n
<1>9. QED
  BY <1>7, <1>8 DEF n

-----------------------------------------------------------------------------
(* Where a temporary is mentioned, it is in use.                           *)
LEMMA UsedThere ==
  ASSUME NEW code \in Code, NEW i \in DOMAIN code, NEW t \in Mentions(code[i])
  PROVE  /\ FirstUse(code, t) \in Nat /\ LastUse(code, t) \in Nat
         /\ FirstUse(code, t) <= i /\ i <= LastUse(code, t)
<1> DEFINE places == MentionedAt(code, t)
<1>1. /\ Len(code) \in Nat /\ places \subseteq 1..Len(code) /\ i \in places /\ i \in Nat
  BY CodeIs DEF CodeFacts, MentionedAt
<1>2. FirstUse(code, t) = Min(places) /\ LastUse(code, t) = Max(places)
  BY <1>1 DEF FirstUse, LastUse
<1> HIDE DEF places
<1>3. Min(places) \in places /\ Min(places) <= i
  BY <1>1, MinIs
<1>4. Max(places) \in places /\ Max(places) >= i
  BY <1>1, MaxIs
<1>5. QED
  BY <1>1, <1>2, <1>3, <1>4

(* Two temporaries one of which is mentioned between two mentions of the    *)
(* other interfere.                                                        *)
LEMMA BetweenInterferes ==
  ASSUME NEW code \in Code, NEW i \in DOMAIN code, NEW j \in DOMAIN code, NEW k \in DOMAIN code,
         i <= k, k <= j, NEW t \in Mentions(code[i]) \cap Mentions(code[j]),
         NEW u \in Mentions(code[k]), t # u
  PROVE  Interfere(code, t, u) /\ Interfere(code, u, t)
<1>1. i \in Nat /\ j \in Nat /\ k \in Nat
  BY CodeIs DEF CodeFacts
<1>2. /\ FirstUse(code, t) \in Nat /\ FirstUse(code, t) <= i
      /\ LastUse(code, t) \in Nat /\ j <= LastUse(code, t)
      /\ FirstUse(code, u) \in Nat /\ FirstUse(code, u) <= k
      /\ LastUse(code, u) \in Nat /\ k <= LastUse(code, u)
  BY UsedThere
<1>3. QED
  BY <1>1, <1>2 DEF Interfere

(* The greedy colouring is a register allocation: it keeps apart what is in *)
(* use at the same place.                                                   *)
LEMMA GreedySeparates ==
  ASSUME NEW code \in Code, NEW n \in Nat, NEW m, Greedy(code, n, m),
         \A i \in DOMAIN code : Mentions(code[i]) \subseteq 0..n
  PROVE  Separates(m, code) /\ KeepsResults(m, code)
<1>1. /\ m[0] = 0
      /\ \A t \in 1..n : m[t] \in 1..t /\ \A u \in 1..(t - 1) : Interfere(code, t, u) => m[u] # m[t]
  BY DEF Greedy, Fits
<1>2. ASSUME NEW i \in DOMAIN code, NEW j \in DOMAIN code, NEW k \in DOMAIN code,
             i <= k, k <= j, NEW t \in Mentions(code[i]) \cap Mentions(code[j]),
             NEW u \in Mentions(code[k]), t # u
      PROVE  m[t] # m[u]
  <2>1. t \in 0..n /\ u \in 0..n
    OBVIOUS
  <2>2. Interfere(code, t, u) /\ Interfere(code, u, t)
    BY <1>2, BetweenInterferes
  <2>3. CASE t = 0 \/ u = 0
    BY <1>1, <1>2, <2>1, <2>3
  <2>4. CASE t \in 1..n /\ u \in 1..n
    <3>1. u \in 1..(t - 1) \/ t \in 1..(u - 1)
      BY <1>2, <2>4
    <3>2. QED
      BY <1>1, <2>2, <2>4, <3>1
  <2>5. QED
    BY <2>1, <2>3, <2>4
<1>3. Separates(m, code)
  BY <1>2 DEF Separates
<1>4. ASSUME NEW i \in DOMAIN code, NEW t \in Mentions(code[i]), m[t] = 0 PROVE t = 0
  <2>1. t \in 0..n
    OBVIOUS
  <2>2. QED
    BY <1>1, <1>4, <2>1
<1>5. QED
  BY <1>1, <1>3, <1>4 DEF KeepsResults

(* fold_temporaries (src/src/tac.c:147-214) keeps what code without PHI means *)
(* that reads nothing before it is set.                                     *)
THEOREM FoldKeepsMeaning ==
  ASSUME NEW code \in Code, Covered(code), ReadsResults(code),
         NoPhi(code),
         NEW symbols, NEW inputs, \A in \in inputs : ReadsSet(code, symbols, in)
  PROVE  /\ fold_temporaries(code) \in Code
         /\ Meaning(fold_temporaries(code), symbols, inputs) = Meaning(code, symbols, inputs)
<1> DEFINE n == count_temps(code)
<1>1. n \in Nat /\ \A i \in DOMAIN code : code[i].result <= n /\ code[i].result \in Nat
  BY CountIs, CodeIs DEF CodeFacts, Instruction
<1>2. \A i \in DOMAIN code : Mentions(code[i]) \subseteq 0..n
  <2> HIDE DEF n
  <2>1. ASSUME NEW i \in DOMAIN code, NEW t \in Mentions(code[i]) PROVE t \in 0..n
    <3>1. t \in Reads(code[i]) \/ t = code[i].result
      BY DEF Mentions
    <3>2. t \in Reads(code[i]) => t \in 0..n
      BY DEF Covered, n
    <3>3. QED
      BY <1>1, <3>1, <3>2
  <2>2. QED
    BY <2>1
<1>3. PICK m : /\ Greedy(code, n, m)
               /\ fold_temporaries(code) = [i \in DOMAIN code |-> MapTemps(m, code[i])]
  BY FoldIs
<1> HIDE DEF n
<1>4. Separates(m, code) /\ KeepsResults(m, code) /\ m \in [0..n -> Nat]
  BY <1>1, <1>2, <1>3, GreedySeparates DEF Greedy
<1>5. QED
  <2>1. LET renamed == [i \in DOMAIN code |-> MapTemps(m, code[i])]
        IN  renamed \in Code /\ Meaning(renamed, symbols, inputs) = Meaning(code, symbols, inputs)
    BY <1>1, <1>2, <1>4, RenamingKeepsMeaning, SMTT(30)
  <2>2. QED
    BY <1>3, <2>1

-----------------------------------------------------------------------------
(* Code without branches.  A step neither unsets a register nor starts the  *)
(* machine again, and what computes something sets its result.              *)
Sets(c) == c.result # 0 /\ c.function # "NOP" /\ (IsPure(c) \/ c.function \in Calling)

GoesOn(m, c, p) ==
  /\ Shaped(p) /\ p.mode \in {"run", "done"}
  /\ DOMAIN m.reg \subseteq DOMAIN p.reg
  /\ p.mode = "run" => m.mode = "run"
  /\ p.mode = "run" /\ Sets(c) => c.result \in DOMAIN p.reg

(* Setting a result is such a step, whatever it is set to.                 *)
LEMMA SetGoesOn ==
  ASSUME NEW m, Shaped(m), m.mode = "run", NEW c, NEW v
  PROVE  GoesOn(m, c, SetReg(m, c.result, v))
<1>1. PICK p : p = SetReg(m, c.result, v)
  OBVIOUS
<1>2. Shaped(p) /\ p.reg = Upd(m.reg, c.result, v) /\ SameBut(p, m)
  BY <1>1, SetRegIs
<1>3. DOMAIN p.reg = DOMAIN m.reg \cup {c.result}
  BY <1>2 DEF Upd
<1>4. QED
  BY <1>1, <1>2, <1>3 DEF GoesOn, SameBut

(* Every instruction but a branch, a label and a PHI makes such a step.    *)
LEMMA StraightStep ==
  ASSUME NEW m, Shaped(m), m.mode \in {"run", "done"}, NEW c \in Instruction,
         c.function \notin Branching, NEW symbols
  PROVE  GoesOn(m, c, Step(m, c, symbols))
<1> DEFINE p == Step(m, c, symbols)
<1>1. CASE m.mode = "done"
  <2>1. p = m
    BY <1>1 DEF Step
  <2>2. QED
    BY <1>1, <2>1 DEF GoesOn
<1>2. CASE m.mode = "run"
  <2>1. p = Execute(m, c, symbols)
    BY <1>2 DEF Step
  <2>2. CASE c.function \in {"LOAD_ARG", "LOAD_INT", "LOAD_SYM", "MOV", "ADD", "ADDI",
                             "SUB", "SUBI", "LT", "LTI"}
    <3>1. \E v : p = SetReg(m, c.result, v)
      BY <2>1, <2>2 DEF Execute
    <3>2. QED
      BY <1>2, <3>1, SetGoesOn
  <2>3. CASE c.function \in Calling
    <3>1. PICK callee : p = CallTo(m, callee, c)
      BY <2>1, <2>3 DEF Execute, Calling
    <3> DEFINE e == Called(m, Append(m.trace, <<callee, SubSeq(m.pushed, 1, c.y)>>),
                           SubSeq(m.pushed, c.y + 1, Len(m.pushed)))
    <3>2. CallTo(m, callee, c) = SetReg(e, c.result, Answer(e.in.seed, Len(e.trace)))
      BY DEF CallTo, Called
    <3>3. Shaped(e) /\ e.reg = m.reg /\ e.mode = m.mode
      <4>1. PICK t, u : e = Called(m, t, u)
        OBVIOUS
      <4>2. PICK d : d = [m EXCEPT !.trace = t]
        OBVIOUS
      <4>3. e = [d EXCEPT !.pushed = u]
        BY <4>1, <4>2 DEF Called
      <4>4. Shaped(d) /\ d.reg = m.reg /\ d.mode = m.mode
        BY <4>2, TraceSet
      <4> HIDE DEF e
      <4>5. QED
        BY <4>3, <4>4, PushedSet
    <3> HIDE DEF e
    <3>4. GoesOn(e, c, p)
      BY <1>2, <3>1, <3>2, <3>3, SetGoesOn
    <3>5. QED
      BY <3>3, <3>4 DEF GoesOn
  <2>4. CASE c.function \notin {"LOAD_ARG", "LOAD_INT", "LOAD_SYM", "MOV", "ADD", "ADDI",
                                "SUB", "SUBI", "LT", "LTI"} \cup Calling
    <3>1. Shaped(p) /\ p.mode \in {"run", "done"} /\ p.reg = m.reg
      <4>1. CASE c.function \in {"CALL_PUSH", "CALL_PUSH_INT", "CALL_PUSH_SYM"}
        <5>1. \E v : p = Push(m, v)
          BY <2>1, <4>1 DEF Execute
        <5>2. QED
          BY <1>2, <5>1 DEF Push, Shaped
      <4>2. CASE c.function \in {"RETURN_VAL", "RETURN_INT"}
        <5>1. \E v : p = [m EXCEPT !.ret = v]
          BY <2>1, <4>2 DEF Execute
        <5>2. QED
          BY <1>2, <5>1 DEF Shaped
      <4>3. CASE c.function = "EXIT"
        <5>1. p = [m EXCEPT !.mode = "done"]
          BY <2>1, <4>3 DEF Execute
        <5>2. QED
          BY <5>1 DEF Shaped
      <4>4. CASE c.function = "NOP"
        <5>1. p = m
          BY <4>4, NopSteps
        <5>2. QED
          BY <1>2, <5>1
      <4>5. QED
        BY <2>4, <4>1, <4>2, <4>3, <4>4
           DEF Instruction, Ops, BinaryOps, UnaryOps, NullaryOps, Branching, Calling
    <3>2. ~Sets(c)
      BY <2>4 DEF Sets, IsPure, PureOps, Branching
    <3>3. QED
      BY <1>2, <3>1, <3>2 DEF GoesOn
  <2>5. QED
    BY <2>2, <2>3, <2>4
<1>3. QED
  BY <1>1, <1>2

(* So a run that has got to an instruction has been at all before it, and   *)
(* has set what they set.                                                  *)
Reached(code, symbols, in, i) ==
  LET s == States(code, symbols, in)
  IN  /\ Shaped(s[i]) /\ s[i].mode \in {"run", "done"}
      /\ s[i].mode = "run" =>
           /\ \A j \in 0..i : s[j].mode = "run"
           /\ \A j \in 1..i : code[j].result # 0 => code[j].result \in DOMAIN s[i].reg

(* So at each place of a straight run: no instruction jumps over another.  *)
LEMMA StraightReached ==
  ASSUME NEW code \in Code, StraightLine(code), NEW symbols, NEW in
  PROVE  \A i \in 0..Len(code) : Reached(code, symbols, in, i)
<1> DEFINE s == States(code, symbols, in)
           n == Len(code)
           S == {i \in 0..n : Reached(code, symbols, in, i)}
<1>1. n \in Nat /\ DOMAIN code = 1..n /\ \A i \in 1..n : code[i] \in Instruction
  BY CodeIs DEF CodeFacts
<1>2. s[0] = Start(in) /\ \A i \in 1..n : s[i] = Step(s[i - 1], code[i], symbols)
  BY StatesOf
<1>3. 0 \in S
  <2>1. Shaped(Start(in)) /\ Start(in).mode = "run"
    BY StartIs DEF Start
  <2>2. QED
    BY <1>1, <1>2, <2>1 DEF Reached
<1>4. ASSUME NEW i \in 1..n, i - 1 \in S PROVE i \in S
  <2>1. PICK h \in 0..n : h = i - 1 /\ Reached(code, symbols, in, h)
    BY <1>4
  <2>2. Shaped(s[h]) /\ s[h].mode \in {"run", "done"}
    BY <2>1 DEF Reached
  <2>3. /\ code[i] \in Instruction /\ code[i].function \notin Branching
        /\ code[i].result # 0 => Sets(code[i])
    BY <1>1 DEF StraightLine, Sets
  <2>4. GoesOn(s[h], code[i], s[i])
    <3>1. s[i] = Step(s[h], code[i], symbols)
      BY <1>2, <2>1
    <3> HIDE DEF s
    <3>2. QED
      BY <2>2, <2>3, <3>1, StraightStep
  <2>5. ASSUME s[i].mode = "run"
        PROVE  /\ \A j \in 0..i : s[j].mode = "run"
               /\ \A j \in 1..i : code[j].result # 0 => code[j].result \in DOMAIN s[i].reg
    <3>1. s[h].mode = "run" /\ DOMAIN s[h].reg \subseteq DOMAIN s[i].reg
      BY <2>4, <2>5 DEF GoesOn
    <3>2. /\ \A j \in 0..h : s[j].mode = "run"
          /\ \A j \in 1..h : code[j].result # 0 => code[j].result \in DOMAIN s[h].reg
      BY <2>1, <3>1 DEF Reached
    <3>3. code[i].result # 0 => code[i].result \in DOMAIN s[i].reg
      BY <2>3, <2>4, <2>5 DEF GoesOn
    <3> HIDE DEF s
    <3>4. (\A j \in 0..i : j = i \/ j \in 0..h) /\ (\A j \in 1..i : j = i \/ j \in 1..h)
      BY <1>1, <2>1
    <3>5. QED
      BY <2>5, <3>1, <3>2, <3>3, <3>4
  <2>6. Reached(code, symbols, in, i)
    BY <2>4, <2>5 DEF Reached, GoesOn
  <2>7. QED
    BY <2>6
<1>5. 0..n \subseteq S
  <2> HIDE DEF S
  <2>1. QED
    BY <1>1, <1>3, <1>4, UpTo
<1>6. QED
  BY <1>5

(* The tables of constant_propagation (src/src/tac.c:264-273, laid out by     *)
(* src/src/arena.h:34-46) have count_temps entries and entry count_temps is   *)
(* used: there is room for it, at the end of the block or in front of the      *)
(* second table, for every number of temporaries a uint16_t counts but one.    *)
(* With 256 temporaries the two tables fill the block to its last byte.       *)
THEOREM RoomBehindTables ==
  ASSUME NEW n \in 1..65535
  PROVE  n \in Entries(n) <=> n # 256
<1>1. BlockFor(n) = (IF n < 4096 THEN 4096 ELSE 2 * n)
      /\ BlockFor(8 * n) = (IF n < 512 THEN 4096 ELSE 16 * n)
  BY DEF BlockFor, ArenaBlock
<1>2. RoomBehind(n) <=> n # 256
  BY <1>1 DEF RoomBehind
<1>3. CASE n = 256
  <2>1. Entries(n) = 0..255
    BY <1>2, <1>3 DEF Entries
  <2>2. QED
    BY <1>3, <2>1
<1>4. CASE n # 256
  <2>1. Entries(n) = 0..n
    BY <1>2, <1>4 DEF Entries
  <2>2. QED
    BY <1>4, <2>1
<1>5. QED
  BY <1>3, <1>4

(* So there is room for all entries of a code of few temporaries.          *)
LEMMA FewFit ==
  ASSUME NEW code \in Code, Covered(code), \A i \in DOMAIN code : code[i].result < Narrow
  PROVE  Indexable(code)
<1> DEFINE n == count_temps(code)
<1>1. n \in 0..255
  <2>1. n \in Nat /\ (n = 0 \/ \E i \in DOMAIN code : code[i].result = n)
    BY CountIs
  <2>2. QED
    BY <2>1 DEF Narrow
<1>2. Table(code) = 0..n
  <2>1. BlockFor(n) = 4096
    BY <1>1 DEF BlockFor, ArenaBlock
  <2>2. RoomBehind(n)
    BY <1>1, <2>1 DEF RoomBehind
  <2>3. QED
    BY <2>2 DEF Table, Entries
<1>3. \A i \in DOMAIN code : code[i].result \in 0..n
  BY <1>1, CountIs, CodeIs DEF CodeFacts, Instruction
<1>4. QED
  BY <1>2, <1>3 DEF Indexable, Covered

(* What the passes ask of code holds of code without branches.              *)
LEMMA StraightConditions ==
  ASSUME NEW code \in Code, StraightLine(code)
  PROVE  /\ ReadsResults(code) /\ Covered(code) /\ Indexable(code) /\ LoadsOnce(code)
         /\ IsSSA(code) /\ NoPhi(code)
         /\ \A symbols, in : ReadsSet(code, symbols, in) /\ MayMerge(code, symbols, in)
<1> DEFINE n == Len(code)
<1>1. n \in Nat /\ DOMAIN code = 1..n /\ \A i \in 1..n : code[i] \in Instruction
  BY CodeIs DEF CodeFacts
<1>2. ReadsResults(code) /\ IsSSA(code) /\ NoPhi(code) /\ LoadsOnce(code)
  BY SSALoadsOnce DEF StraightLine, ReadsResults, NoPhi, Branching
<1>3. \A i \in 1..n : \A t \in Reads(code[i]) : \E j \in 1..(i - 1) : code[j].result = t
  BY <1>1 DEF StraightLine
<1>4. Covered(code)
  <2>1. ASSUME NEW i \in 1..n, NEW t \in Reads(code[i]) PROVE t \in 0..count_temps(code)
    <3>1. PICK j \in 1..(i - 1) : code[j].result = t
      BY <1>3
    <3>2. j \in DOMAIN code
      BY <1>1
    <3>3. t \in Nat /\ t <= count_temps(code) /\ count_temps(code) \in Nat
      BY <1>1, <3>1, <3>2, CountIs DEF Instruction
    <3>4. QED
      BY <3>3
  <2>2. QED
    BY <1>1, <2>1 DEF Covered
<1>5. Indexable(code)
  BY <1>4, FewFit DEF StraightLine
<1>6. ASSUME NEW symbols, NEW in PROVE ReadsSet(code, symbols, in)
  <2> DEFINE s == States(code, symbols, in)
  <2>1. ASSUME NEW i \in 1..n, s[i - 1].mode = "run", NEW t \in Reads(code[i])
        PROVE  t \in DOMAIN s[i - 1].reg
    <3>1. PICK h : h = i - 1
      OBVIOUS
    <3>2. h \in 0..n /\ s[h].mode = "run"
      BY <1>1, <2>1, <3>1
    <3>3. PICK j \in 1..h : code[j].result = t
      BY <1>3, <3>1
    <3>4. t # 0
      BY <1>1, <1>2 DEF ReadsResults
    <3>5. Reached(code, symbols, in, h)
      BY <3>2, StraightReached
    <3>6. QED
      BY <3>1, <3>2, <3>3, <3>4, <3>5 DEF Reached
  <2>2. QED
    BY <1>1, <2>1 DEF ReadsSet
<1>7. ASSUME NEW symbols, NEW in PROVE MayMerge(code, symbols, in)
  <2> DEFINE s == States(code, symbols, in)
  <2>1. ASSUME NEW i \in 1..n, NEW j \in 1..n, i < j, SameValue(code[i], code[j])
        PROVE  /\ code[j].function # "PHI"
               /\ code[i].result = 0 => code[j].result = 0
               /\ s[j - 1].mode = "run" => s[i - 1].mode = "run"
    <3>1. code[j].function # "PHI" /\ code[i].result # 0
      BY <1>1, <1>2, <2>1 DEF StraightLine, NoPhi, SameValue
    <3>2. PICK h, l : h = j - 1 /\ l = i - 1
      OBVIOUS
    <3>3. h \in 0..n /\ l \in 0..h
      BY <1>1, <2>1, <3>2
    <3>4. Reached(code, symbols, in, h)
      BY <3>3, StraightReached
    <3>5. s[h].mode = "run" => s[l].mode = "run"
      BY <3>3, <3>4 DEF Reached
    <3>6. QED
      BY <3>1, <3>2, <3>5
  <2>2. QED
    BY <1>1, <2>1 DEF MayMerge
<1>8. QED
  BY <1>2, <1>4, <1>5, <1>6, <1>7

(* What is left to say of a run: numbers are computed with, arguments are   *)
(* there.                                                                  *)
Proper(m, c, in) ==
  /\ c.function \in Arithmetic => \A t \in Reads(c) : IsInt(Reg(m, t))
  /\ c.function = "LOAD_ARG" => c.x + 1 \in DOMAIN in.args

(* A straight run goes well when each instruction finds these: what it reads*)
(* is set, as StraightReached says.                                        *)
LEMMA StraightWellRun ==
  ASSUME NEW code \in Code, StraightLine(code), NEW symbols, NEW in,
         \A i \in 1..Len(code) : States(code, symbols, in)[i - 1].mode = "run" =>
           Proper(States(code, symbols, in)[i - 1], code[i], in)
  PROVE  WellRun(code, symbols, in)
<1> DEFINE s == States(code, symbols, in)
<1>1. DOMAIN code = 1..Len(code)
  BY CodeIs DEF CodeFacts
<1>2. ASSUME NEW i \in 1..Len(code), s[i - 1].mode = "run"
      PROVE  /\ Needed(s[i - 1], code[i]) \subseteq DOMAIN s[i - 1].reg
             /\ code[i].function \in Arithmetic => \A t \in Reads(code[i]) : IsInt(Reg(s[i - 1], t))
             /\ code[i].function = "LOAD_ARG" => code[i].x + 1 \in DOMAIN in.args
  <2>1. Reads(code[i]) \subseteq DOMAIN s[i - 1].reg
    BY <1>1, <1>2, StraightConditions DEF ReadsSet
  <2>2. PICK m : m = s[i - 1]
    OBVIOUS
  <2>3. Needed(m, code[i]) \subseteq DOMAIN m.reg
    BY <2>1, <2>2, NeededAreRead
  <2>4. QED
    BY <1>2, <2>2, <2>3 DEF Proper
<1>3. QED
  BY <1>1, <1>2 DEF WellRun

(* Folding an instruction changes neither its kind nor its result, and      *)
(* makes it read no more.                                                  *)
FoldedFrom(c, d) ==
  /\ d.result = c.result
  /\ d.function \notin Branching \cup {"NOP"}
  /\ IsPure(d) <=> IsPure(c)
  /\ d.function \in Calling <=> c.function \in Calling
  /\ Reads(d) \subseteq Reads(c)
  /\ d.function \in Arithmetic => c.function \in Arithmetic
  /\ d.function = "LOAD_ARG" => c.function = "LOAD_ARG" /\ d.x = c.x

(* It does, for each instruction Fold rewrites.                            *)
LEMMA FoldShape ==
  ASSUME NEW c \in Instruction, c.function \notin Branching \cup {"NOP"}, NEW k
  PROVE  FoldedFrom(c, Fold(k, c))
<1> DEFINE d == Fold(k, c)
<1> SUFFICES FoldedFrom(c, d)
  OBVIOUS
<1> HIDE DEF d
<1> USE DEF FoldedFrom, Reads, IsPure, PureOps, BinaryOps, UnaryOps, Calling, Branching, Arithmetic
<1>1. CASE c.function = "ADD"
  <2>1. \/ d = c
        \/ d.result = c.result /\ d.function = "ADDI" /\ d.x \in {c.x, c.y}
        \/ d.result = c.result /\ d.function = "LOAD_INT"
    BY <1>1 DEF Fold, Instruction, d
  <2>2. QED
    BY <1>1, <2>1
<1>2. CASE c.function = "ADDI"
  <2>1. \/ d = c
        \/ d.result = c.result /\ d.function = "LOAD_INT"
    BY <1>2 DEF Fold, Instruction, d
  <2>2. QED
    BY <1>2, <2>1
<1>3. CASE c.function = "SUB"
  <2>1. \/ d = c
        \/ d.result = c.result /\ d.function = "SUBI" /\ d.x = c.x
    BY <1>3 DEF Fold, Instruction, d
  <2>2. QED
    BY <1>3, <2>1
<1>4. CASE c.function = "LT"
  <2>1. \/ d = c
        \/ d.result = c.result /\ d.function = "LTI" /\ d.x = c.x
    BY <1>4 DEF Fold, Instruction, d
  <2>2. QED
    BY <1>4, <2>1
<1>5. CASE c.function = "CALL_PUSH"
  <2>1. \/ d = c
        \/ d.result = c.result /\ d.function = "CALL_PUSH_INT"
        \/ d.result = c.result /\ d.function = "CALL_PUSH_SYM"
    BY <1>5 DEF Fold, Instruction, d
  <2>2. QED
    BY <1>5, <2>1
<1>6. CASE c.function = "MOV"
  <2>1. \/ d = c
        \/ d.result = c.result /\ d.function = "LOAD_INT"
        \/ d.result = c.result /\ d.function = "LOAD_SYM"
    BY <1>6 DEF Fold, Instruction, d
  <2>2. QED
    BY <1>6, <2>1
<1>7. CASE c.function = "RETURN_VAL"
  <2>1. \/ d = c
        \/ d.result = c.result /\ d.function = "RETURN_INT"
    BY <1>7 DEF Fold, Instruction, d
  <2>2. QED
    BY <1>7, <2>1
<1>8. CASE c.function \notin {"ADD", "ADDI", "SUB", "LT", "CALL_PUSH", "MOV", "RETURN_VAL"}
  <2>1. d = c
    BY <1>8 DEF Fold, d
  <2>2. QED
    BY <2>1
<1>9. QED
  BY <1>1, <1>2, <1>3, <1>4, <1>5, <1>6, <1>7, <1>8

(* constant_propagation leaves regular code regular.                        *)
LEMMA PropagatedStraight ==
  ASSUME NEW code \in Code, StraightLine(code)
  PROVE  StraightLine(Propagated(code))
<1> DEFINE e == Propagated(code)
           n == Len(code)
<1>1. n \in Nat /\ DOMAIN code = 1..n /\ \A i \in 1..n : code[i] \in Instruction
  BY CodeIs DEF CodeFacts
<1>2. DOMAIN e = 1..n
  BY <1>1 DEF Propagated
<1>3. \A i \in 1..n : FoldedFrom(code[i], e[i])
  <2>1. ASSUME NEW i \in 1..n PROVE FoldedFrom(code[i], e[i])
    <3>1. e[i] = Fold(KnownAt(code, i), code[i])
      BY <1>1 DEF Propagated
    <3>2. code[i] \in Instruction /\ code[i].function \notin Branching \cup {"NOP"}
      BY <1>1 DEF StraightLine
    <3>3. QED
      BY <3>1, <3>2, FoldShape
  <2>2. QED
    BY <2>1
<1> HIDE DEF e
<1>4. IsSSA(e)
  BY <1>1, <1>2, <1>3 DEF StraightLine, IsSSA, FoldedFrom
<1>5. ASSUME NEW i \in 1..n
      PROVE  /\ e[i].function \notin Branching \cup {"NOP"}
             /\ e[i].result < Narrow
             /\ IsPure(e[i]) => e[i].result # 0
             /\ e[i].result # 0 => IsPure(e[i]) \/ e[i].function \in Calling
             /\ \A t \in Reads(e[i]) : t # 0 /\ \E j \in 1..(i - 1) : e[j].result = t
  <2>1. \A j \in 1..(i - 1) : e[j].result = code[j].result
    BY <1>1, <1>3 DEF FoldedFrom
  <2>2. FoldedFrom(code[i], e[i])
    BY <1>3
  <2>3. QED
    BY <1>1, <2>1, <2>2 DEF StraightLine, FoldedFrom
<1>6. QED
  BY <1>2, <1>4, <1>5 DEF StraightLine, e

(* And its runs go well still: the machines are those of the code before.  *)
LEMMA PropagationStays ==
  ASSUME NEW code, NEW symbols, NEW inputs, Regular(code, symbols, inputs)
  PROVE  Regular(constant_propagation(code).code, symbols, inputs)
<1> DEFINE e == Propagated(code)
           n == Len(code)
<1>1. /\ code \in Code /\ StraightLine(code)
      /\ \A in \in inputs : Input(in) /\ WellRun(code, symbols, in)
  BY DEF Regular
<1>2. constant_propagation(code).code \in {code, e}
  BY DEF constant_propagation, Unchanged, Propagated
<1>3. n \in Nat /\ DOMAIN code = 1..n /\ \A i \in 1..n : code[i] \in Instruction
  BY <1>1, CodeIs DEF CodeFacts
<1>4. LoadsOnce(code) /\ Indexable(code) /\ ReadsResults(code)
  BY <1>1, StraightConditions
<1>5. e \in Code /\ Len(e) = n /\ StraightLine(e)
  BY <1>1, <1>4, Folded, PropagatedStraight DEF Propagated
<1>6. \A i \in 1..n : e[i] = Fold(KnownAt(code, i), code[i])
  BY <1>3 DEF Propagated
<1> HIDE DEF e
<1>7. ASSUME NEW in \in inputs PROVE WellRun(e, symbols, in)
  <2> DEFINE s == States(code, symbols, in)
             r == States(e, symbols, in)
  <2>1. \A i \in 0..n : r[i] = s[i]
    BY <1>1, <1>4, PropagatedStates DEF e
  <2>2. ASSUME NEW i \in 1..n, r[i - 1].mode = "run" PROVE Proper(r[i - 1], e[i], in)
    <3>1. PICK h : h = i - 1
      OBVIOUS
    <3>2. r[h] = s[h] /\ s[h].mode = "run"
      BY <1>3, <2>1, <2>2, <3>1
    <3>3. Proper(s[h], code[i], in)
      BY <1>1, <1>3, <3>1, <3>2 DEF WellRun, Proper
    <3>4. FoldedFrom(code[i], e[i])
      BY <1>1, <1>3, <1>6, FoldShape DEF StraightLine
    <3> HIDE DEF s, r
    <3>5. QED
      BY <3>1, <3>2, <3>3, <3>4 DEF Proper, FoldedFrom
  <2>3. QED
    BY <1>5, <2>2, StraightWellRun
<1>8. QED
  BY <1>1, <1>2, <1>5, <1>7 DEF Regular

(* value_numbering does.  What replaces an operand is set before it too.    *)
LEMMA ReplacedReads ==
  ASSUME NEW c \in Instruction, NEW from, NEW to \in Nat
  PROVE  \A t \in Reads(replace_args(c, from, to)) :
           t \in Reads(c) \/ (t = to /\ from \in Reads(c))
<1> DEFINE d == replace_args(c, from, to)
<1>1. /\ d.function = c.function
      /\ d.x = IF c.function \in BinaryOps \cup UnaryOps /\ c.x = from THEN to ELSE c.x
      /\ d.y = IF c.function \in BinaryOps /\ c.y = from THEN to ELSE c.y
  BY ReplacedIs
<1> HIDE DEF d
<1>2. \A t \in Reads(d) : t \in Reads(c) \/ (t = to /\ from \in Reads(c))
  BY <1>1 DEF Reads
<1>3. QED
  BY <1>2 DEF d

(* d stands for the k-th instruction: it reads what that reads, except that *)
(* after the j-th it may read the result of the i-th for that of the j-th.  *)
NumberedFrom(code, i, j, k, d) ==
  /\ d.function = code[k].function /\ d.result = code[k].result
  /\ d.function = "LOAD_ARG" => d.x = code[k].x
  /\ \A t \in Reads(d) : \/ t \in Reads(code[k])
                         \/ /\ t = code[i].result /\ code[j].result \in Reads(code[k])
                            /\ j < k

(* It is so for each instruction of the rewritten code.                    *)
LEMMA NumberedShape ==
  ASSUME NEW code \in Code, NEW i \in 1..Len(code), NEW j \in 1..Len(code), NEW k \in 1..Len(code)
  PROVE  NumberedFrom(code, i, j, k, Numbered(code, i, j)[k])
<1> DEFINE d == Numbered(code, i, j)[k]
<1>1. DOMAIN code = 1..Len(code) /\ Len(code) \in Nat /\ code[k] \in Instruction /\ code[i] \in Instruction
  BY CodeIs DEF CodeFacts
<1> SUFFICES NumberedFrom(code, i, j, k, d)
  OBVIOUS
<1>2. \/ d = code[k]
      \/ k \in (j + 1)..Len(code) /\ d = replace_args(code[k], code[j].result, code[i].result)
  BY <1>1 DEF Numbered
<1> HIDE DEF d
<1>3. CASE d = code[k]
  BY <1>3 DEF NumberedFrom
<1>4. CASE k \in (j + 1)..Len(code) /\ d = replace_args(code[k], code[j].result, code[i].result)
  <2>1. code[i].result \in Nat /\ j < k
    BY <1>1, <1>4 DEF Instruction
  <2>2. /\ d.function = code[k].function /\ d.result = code[k].result
        /\ d.function = "LOAD_ARG" => d.x = code[k].x
    BY <1>1, <1>4, <2>1, ReplacedIs DEF BinaryOps, UnaryOps
  <2>3. \A t \in Reads(d) : \/ t \in Reads(code[k])
                            \/ t = code[i].result /\ code[j].result \in Reads(code[k])
    BY <1>1, <1>4, <2>1, ReplacedReads
  <2>4. QED
    BY <2>1, <2>2, <2>3 DEF NumberedFrom
<1>5. QED
  BY <1>2, <1>3, <1>4

(* Hence the rewritten code is straight: the earlier result is set first.  *)
LEMMA NumberedStraight ==
  ASSUME NEW code \in Code, StraightLine(code), NEW i, NEW j, NumberedPair(code, i, j)
  PROVE  StraightLine(Numbered(code, i, j))
<1> DEFINE e == Numbered(code, i, j)
           n == Len(code)
<1>1. n \in Nat /\ DOMAIN code = 1..n /\ \A k \in 1..n : code[k] \in Instruction
  BY CodeIs DEF CodeFacts
<1>2. i \in 1..n /\ j \in 1..n /\ i < j /\ SameValue(code[i], code[j])
  BY DEF NumberedPair
<1>3. \A k \in 1..n : NumberedFrom(code, i, j, k, e[k])
  BY <1>2, NumberedShape
<1>4. DOMAIN e = 1..n
  BY <1>1 DEF Numbered
<1>5. code[i].result # 0
  BY <1>1, <1>2 DEF StraightLine, SameValue
<1> HIDE DEF e
<1>6. IsSSA(e)
  BY <1>1, <1>3, <1>4 DEF StraightLine, IsSSA, NumberedFrom
<1>7. ASSUME NEW k \in 1..n
      PROVE  /\ e[k].function \notin Branching \cup {"NOP"}
             /\ e[k].result < Narrow
             /\ IsPure(e[k]) => e[k].result # 0
             /\ e[k].result # 0 => IsPure(e[k]) \/ e[k].function \in Calling
             /\ \A t \in Reads(e[k]) : t # 0 /\ \E l \in 1..(k - 1) : e[l].result = t
  <2>1. NumberedFrom(code, i, j, k, e[k])
    BY <1>3
  <2>2. \A l \in 1..(k - 1) : e[l].result = code[l].result
    BY <1>1, <1>3 DEF NumberedFrom
  <2>3. /\ e[k].function \notin Branching \cup {"NOP"}
        /\ e[k].result < Narrow
        /\ IsPure(e[k]) => e[k].result # 0
        /\ e[k].result # 0 => IsPure(e[k]) \/ e[k].function \in Calling
    BY <1>1, <2>1 DEF StraightLine, NumberedFrom, IsPure
  <2>4. ASSUME NEW t \in Reads(e[k]) PROVE t # 0 /\ \E l \in 1..(k - 1) : e[l].result = t
    <3>1. CASE t \in Reads(code[k])
      BY <1>1, <2>2, <3>1 DEF StraightLine
    <3>2. CASE t = code[i].result /\ j < k
      <4>1. i \in 1..(k - 1)
        BY <1>1, <1>2, <3>2
      <4>2. QED
        BY <1>5, <2>2, <3>2, <4>1
    <3>3. QED
      BY <2>1, <3>1, <3>2 DEF NumberedFrom
  <2>5. QED
    BY <2>3, <2>4
<1>8. QED
  BY <1>4, <1>6, <1>7 DEF StraightLine, e

(* And its runs go well still: the operand put in has the same value.      *)
LEMMA NumberingStays ==
  ASSUME NEW code, NEW symbols, NEW inputs, Regular(code, symbols, inputs)
  PROVE  Regular(value_numbering(code).code, symbols, inputs)
<1>1. /\ code \in Code /\ StraightLine(code)
      /\ \A in \in inputs : Input(in) /\ WellRun(code, symbols, in)
  BY DEF Regular
<1>2. IsSSA(code) /\ ReadsResults(code) /\ \A in : MayMerge(code, symbols, in)
  BY <1>1, StraightConditions
<1>3. ASSUME NEW i, NEW j, NumberedPair(code, i, j)
      PROVE  Regular(Numbered(code, i, j), symbols, inputs)
  <2> DEFINE e == Numbered(code, i, j)
             n == Len(code)
  <2>1. n \in Nat /\ DOMAIN code = 1..n /\ \A k \in 1..n : code[k] \in Instruction
    BY <1>1, CodeIs DEF CodeFacts
  <2>2. i \in 1..n /\ j \in 1..n /\ i < j /\ SameValue(code[i], code[j])
    BY <1>3 DEF NumberedPair
  <2>3. e \in Code /\ Len(e) = n /\ StraightLine(e)
    BY <1>1, <1>3, <2>1, <2>2, NumberedIs, NumberedStraight
  <2>4. \A k \in 1..n : NumberedFrom(code, i, j, k, e[k])
    BY <1>1, <2>2, NumberedShape
  <2>5. ASSUME NEW in \in inputs PROVE WellRun(e, symbols, in)
    <3> DEFINE s == States(code, symbols, in)
               r == States(e, symbols, in)
    <3>1. \A k \in 0..n : r[k] = s[k]
      BY <1>1, <1>2, <2>2, NumberedStates
    <3>2. ASSUME NEW k \in 1..n, r[k - 1].mode = "run" PROVE Proper(r[k - 1], e[k], in)
      <4>1. PICK h : h = k - 1 /\ h \in 0..n
        BY <2>1
      <4>2. r[h] = s[h] /\ s[h].mode = "run"
        BY <3>1, <3>2, <4>1
      <4>3. Proper(s[h], code[k], in)
        BY <1>1, <2>1, <4>1, <4>2 DEF WellRun, Proper
      <4>4. NumberedFrom(code, i, j, k, e[k])
        BY <2>4
      <4>5. ASSUME code[j].result \in Reads(code[k])
            PROVE  Reg(s[h], code[j].result) = Reg(s[h], code[i].result)
        <5>1. code[j].result # 0
          BY <1>2, <2>1, <4>5 DEF ReadsResults
        <5>2. code[j].result \in DOMAIN s[h].reg
          <6>1. ReadsSet(code, symbols, in)
            BY <1>1, StraightConditions
          <6>2. QED
            BY <2>1, <4>1, <4>2, <4>5, <6>1 DEF ReadsSet
        <5>3. QED
          BY <1>1, <1>2, <2>2, <4>1, <5>1, <5>2, MergedAgree
      <4> HIDE DEF s, r, e
      <4>6. e[k].function \in Arithmetic => \A t \in Reads(e[k]) : IsInt(Reg(s[h], t))
        BY <4>3, <4>4, <4>5 DEF Proper, NumberedFrom
      <4>7. e[k].function = "LOAD_ARG" => e[k].x + 1 \in DOMAIN in.args
        BY <4>3, <4>4 DEF Proper, NumberedFrom
      <4>8. QED
        BY <4>1, <4>2, <4>6, <4>7 DEF Proper
    <3>3. QED
      BY <2>3, <3>2, StraightWellRun
  <2>6. QED
    BY <1>1, <2>3, <2>5 DEF Regular
<1>4. QED
  BY <1>1, <1>3, NumberingFinds DEF NumberedPair

(* remove_unused leaves regular code regular: r is e without its NOPs, and  *)
(* the k-th instruction of r is the f[k]-th of e.                           *)
Embeds(e, r, f) ==
  /\ f \in [1..Len(r) -> 1..Len(e)]
  /\ \A k \in 1..Len(r) : r[k] = e[f[k]] /\ e[f[k]].function # "NOP"
  /\ \A k, l \in 1..Len(r) : k < l => f[k] < f[l]
  /\ \A i \in 1..Len(e) : e[i].function # "NOP" => \E k \in 1..Len(r) : f[k] = i

(* Their machines meet in front of each instruction that stays.             *)
Meets(e, r, f, symbols, in) ==
  \A k \in 1..Len(r) : States(r, symbols, in)[k - 1] = States(e, symbols, in)[f[k] - 1]

(* Code put behind does not change what came before.                        *)
LEMMA StatesAppend ==
  ASSUME NEW code \in Code, NEW c \in Instruction, NEW symbols, NEW in
  PROVE  \A i \in 0..Len(code) :
           States(Append(code, c), symbols, in)[i] = States(code, symbols, in)[i]
<1> DEFINE e == Append(code, c)
           n == Len(code)
           s == States(code, symbols, in)
           r == States(e, symbols, in)
           S == {i \in 0..n : r[i] = s[i]}
<1>1. n \in Nat /\ e \in Code /\ Len(e) = n + 1 /\ \A i \in 1..n : e[i] = code[i]
  BY DEF Code
<1>2. s[0] = Start(in) /\ \A i \in 1..n : s[i] = Step(s[i - 1], code[i], symbols)
  BY StatesOf
<1> HIDE DEF e
<1>3. r[0] = Start(in) /\ \A i \in 1..(n + 1) : r[i] = Step(r[i - 1], e[i], symbols)
  BY <1>1, StatesOf
<1> HIDE DEF s, r
<1>4. 0 \in S
  BY <1>1, <1>2, <1>3
<1>5. ASSUME NEW i \in 1..n, i - 1 \in S PROVE i \in S
  BY <1>1, <1>2, <1>3, <1>5
<1>6. 0..n \subseteq S
  <2> HIDE DEF S
  <2>1. QED
    BY <1>1, <1>4, <1>5, UpTo
<1>7. QED
  BY <1>6 DEF e, s, r

(* A prefix of e, embedded so far.                                          *)
Prefix(e, i, r, f, symbols, in) ==
  /\ r \in Code /\ f \in [1..Len(r) -> 1..i]
  /\ \A k \in 1..Len(r) : r[k] = e[f[k]] /\ e[f[k]].function # "NOP"
  /\ \A k, l \in 1..Len(r) : k < l => f[k] < f[l]
  /\ \A j \in 1..i : e[j].function # "NOP" => \E k \in 1..Len(r) : f[k] = j
  /\ Meets(e, r, f, symbols, in)
  /\ Run(r, symbols, in) = States(e, symbols, in)[i]

(* One more instruction of e, not a NOP: r gets it too.                    *)
LEMMA PrefixGrows ==
  ASSUME NEW e \in Code, NEW symbols, NEW in, NEW i \in 1..Len(e), NEW h, h = i - 1,
         NEW r, NEW f, Prefix(e, h, r, f, symbols, in), e[i].function # "NOP"
  PROVE  \E g : Prefix(e, i, Append(r, e[i]), g, symbols, in)
<1> DEFINE m == Len(r)
           c == e[i]
           q == Append(r, c)
           g == [k \in 1..(m + 1) |-> IF k = m + 1 THEN i ELSE f[k]]
           s == States(e, symbols, in)
<1>1. /\ Len(e) \in Nat /\ c \in Instruction /\ h \in Nat /\ i \in Nat
      /\ r \in Code /\ m \in Nat /\ f \in [1..m -> 1..h]
  BY CodeIs DEF CodeFacts, Prefix
<1>2. q \in Code /\ Len(q) = m + 1 /\ q[m + 1] = c /\ \A k \in 1..m : q[k] = r[k]
  BY <1>1 DEF Code
<1>3. /\ DOMAIN g = 1..(m + 1) /\ g[m + 1] = i /\ \A k \in 1..m : g[k] = f[k] /\ f[k] \in 1..h
      /\ g \in [1..(m + 1) -> 1..i]
  BY <1>1
<1>4. /\ \A k \in 1..m : r[k] = e[f[k]] /\ e[f[k]].function # "NOP"
      /\ \A k, l \in 1..m : k < l => f[k] < f[l]
      /\ \A j \in 1..h : e[j].function # "NOP" => \E k \in 1..m : f[k] = j
      /\ \A k \in 1..m : States(r, symbols, in)[k - 1] = s[f[k] - 1]
      /\ Run(r, symbols, in) = s[h]
  BY DEF Prefix, Meets
<1>5. \A k \in 0..m : States(q, symbols, in)[k] = States(r, symbols, in)[k]
  BY <1>1, StatesAppend
<1>6. Run(q, symbols, in) = s[i]
  <2>1. s[i] = Step(s[h], c, symbols)
    BY StatesOf
  <2>2. QED
    BY <1>1, <1>4, <2>1, RunAppend
<1>7. \A k \in 1..(m + 1) : k = m + 1 \/ k \in 1..m
  BY <1>1
<1>8. States(r, symbols, in)[m] = s[h]
  BY <1>4 DEF Run
<1> HIDE DEF q, g, s, c, m
<1>9. \A k \in 1..(m + 1) : States(q, symbols, in)[k - 1] = s[g[k] - 1]
  <2>1. ASSUME NEW k \in 1..(m + 1) PROVE States(q, symbols, in)[k - 1] = s[g[k] - 1]
    <3>1. k - 1 \in 0..m
      BY <1>1
    <3>2. States(q, symbols, in)[k - 1] = States(r, symbols, in)[k - 1]
      BY <1>5, <3>1
    <3>3. CASE k = m + 1
      <4>1. k - 1 = m /\ g[k] - 1 = h
        BY <1>1, <1>3, <3>3
      <4>2. QED
        BY <1>8, <3>2, <4>1
    <3>4. CASE k \in 1..m
      BY <1>3, <1>4, <3>2, <3>4
    <3>5. QED
      BY <1>7, <3>3, <3>4
  <2>2. QED
    BY <2>1
<1>10. \A k \in 1..(m + 1) : q[k] = e[g[k]] /\ e[g[k]].function # "NOP"
  BY <1>2, <1>3, <1>4, <1>7 DEF c
<1>11. \A k, l \in 1..(m + 1) : k < l => g[k] < g[l]
  <2>1. ASSUME NEW k \in 1..(m + 1), NEW l \in 1..(m + 1), k < l PROVE g[k] < g[l]
    <3>1. k \in 1..m
      BY <1>1, <2>1
    <3>2. CASE l \in 1..m
      BY <1>3, <1>4, <2>1, <3>1, <3>2
    <3>3. CASE l = m + 1
      <4>1. g[k] \in 1..h /\ g[l] = i
        BY <1>3, <3>1, <3>3
      <4>2. QED
        BY <1>1, <4>1
    <3>4. QED
      BY <1>7, <3>2, <3>3
  <2>2. QED
    BY <2>1
<1>12. \A j \in 1..i : e[j].function # "NOP" => \E k \in 1..(m + 1) : g[k] = j
  <2>1. ASSUME NEW j \in 1..i, e[j].function # "NOP" PROVE \E k \in 1..(m + 1) : g[k] = j
    <3>1. CASE j = i
      <4>1. m + 1 \in 1..(m + 1)
        BY <1>1
      <4>2. QED
        BY <1>3, <3>1, <4>1
    <3>2. CASE j # i
      <4>1. j \in 1..h
        BY <1>1, <3>2
      <4>2. PICK k \in 1..m : f[k] = j
        BY <1>4, <2>1, <4>1
      <4>3. k \in 1..(m + 1) /\ g[k] = j
        BY <1>1, <1>3, <4>2
      <4>4. QED
        BY <4>3
    <3>3. QED
      BY <3>1, <3>2
  <2>2. QED
    BY <2>1
<1>13. Prefix(e, i, q, g, symbols, in)
  BY <1>2, <1>3, <1>6, <1>9, <1>10, <1>11, <1>12 DEF Prefix, Meets, s
<1>14. QED
  BY <1>13 DEF q, c

(* Code without its NOPs embeds, and its machines meet those of the code.  *)
LEMMA NopsEmbed ==
  ASSUME NEW e \in Code, NEW symbols, NEW in
  PROVE  \E f : Embeds(e, remove_nops(e), f) /\ Meets(e, remove_nops(e), f, symbols, in)
<1> DEFINE n == Len(e)
           s == States(e, symbols, in)
<1>1. n \in Nat /\ \A i \in 1..n : e[i] \in Instruction
  BY CodeIs DEF CodeFacts
<1>2. PICK kept : /\ remove_nops(e) = kept[n] /\ kept[0] = <<>>
                  /\ \A i \in 1..n : kept[i] = IF e[i].function = "NOP" THEN kept[i - 1]
                                               ELSE Append(kept[i - 1], e[i])
  BY <1>1, KeptAre
<1>3. s[0] = Start(in) /\ \A i \in 1..n : s[i] = Step(s[i - 1], e[i], symbols)
  BY StatesOf
<1> DEFINE S == {i \in 0..n : \E f : Prefix(e, i, kept[i], f, symbols, in)}
<1>4. 0 \in S
  <2>1. <<>> \in Code /\ Len(<<>>) = 0
    BY DEF Code
  <2>2. States(<<>>, symbols, in)[0] = Start(in)
    BY <2>1, StatesOf
  <2>3. Run(<<>>, symbols, in) = s[0]
    BY <1>3, <2>1, <2>2 DEF Run
  <2>4. [k \in 1..0 |-> 1] \in [1..0 -> 1..0]
    OBVIOUS
  <2>5. Prefix(e, 0, <<>>, [k \in 1..0 |-> 1], symbols, in)
    BY <2>1, <2>3, <2>4 DEF Prefix, Meets
  <2>6. QED
    BY <1>1, <1>2, <2>5
<1>5. ASSUME NEW i \in 1..n, i - 1 \in S PROVE i \in S
  <2>1. PICK h : h = i - 1
    OBVIOUS
  <2>2. PICK r : r = kept[h]
    OBVIOUS
  <2>3. PICK f : Prefix(e, h, r, f, symbols, in)
    BY <1>5, <2>1, <2>2
  <2>4. kept[i] = IF e[i].function = "NOP" THEN r ELSE Append(r, e[i])
    BY <1>2, <2>1, <2>2
  <2> HIDE DEF s
  <2>5. CASE e[i].function = "NOP"
    <3>1. s[i] = s[h]
      BY <1>3, <2>1, <2>5, NopSteps
    <3>2. f \in [1..Len(r) -> 1..i]
      BY <1>1, <2>1, <2>3 DEF Prefix
    <3>3. \A j \in 1..i : j = i \/ j \in 1..h
      BY <1>1, <2>1
    <3>4. Prefix(e, i, r, f, symbols, in)
      BY <2>3, <2>5, <3>1, <3>2, <3>3 DEF Prefix, s
    <3>5. QED
      BY <2>4, <2>5, <3>4
  <2>6. CASE e[i].function # "NOP"
    <3>1. \E g : Prefix(e, i, Append(r, e[i]), g, symbols, in)
      BY <2>1, <2>3, <2>6, PrefixGrows
    <3>2. kept[i] = Append(r, e[i])
      BY <2>4, <2>6
    <3>3. \E g : Prefix(e, i, kept[i], g, symbols, in)
      BY <3>1, <3>2
    <3>4. i \in 0..n
      BY <1>1
    <3>5. QED
      BY <3>3, <3>4, Zenon
  <2>7. QED
    BY <2>5, <2>6
<1>6. n \in S
  <2> HIDE DEF S
  <2>1. 0..n \subseteq S
    BY <1>1, <1>4, <1>5, UpTo
  <2>2. QED
    BY <1>1, <2>1
<1>7. PICK f : Prefix(e, n, kept[n], f, symbols, in)
  BY <1>6
<1>8. Embeds(e, remove_nops(e), f) /\ Meets(e, remove_nops(e), f, symbols, in)
  BY <1>2, <1>7 DEF Prefix, Embeds
<1>9. QED
  BY <1>8

(* Code without NOPs embeds into itself.                                    *)
LEMMA SelfEmbeds ==
  ASSUME NEW e \in Code, \A i \in 1..Len(e) : e[i].function # "NOP", NEW symbols, NEW in
  PROVE  \E f : Embeds(e, e, f) /\ Meets(e, e, f, symbols, in)
<1> DEFINE f == [k \in 1..Len(e) |-> k]
<1>1. Embeds(e, e, f)
  BY DEF Embeds
<1>2. Meets(e, e, f, symbols, in)
  BY DEF Meets
<1>3. QED
  BY <1>1, <1>2

(* What is kept of the stripped code is without branches still, and its     *)
(* runs go as well as they did.                                            *)
Spare(code, unused) ==
  0 \notin unused /\ \A t \in unused : FirstUse(code, t) = LastUse(code, t)

(* An instruction that is kept reads what it read, nothing unused; what it   *)
(* sets, it did set.                                                       *)
StrippedTo(code, unused, i, d) ==
  LET c == code[i]
  IN  /\ d.function = c.function /\ d.x = c.x /\ Reads(d) = Reads(c)
      /\ d.result # 0 => d.result = c.result
      /\ IsPure(d) => d.result # 0
      /\ \A t \in Reads(c) :
           t # 0 /\ t \notin unused /\ \E j \in 1..(i - 1) : code[j].result = t

(* Nothing unused is read: it would be mentioned twice.                    *)
LEMMA StrippedShape ==
  ASSUME NEW code \in Code, StraightLine(code), NEW unused, Spare(code, unused),
         NEW i \in 1..Len(code), Stripped(code, unused)[i].function # "NOP"
  PROVE  StrippedTo(code, unused, i, Stripped(code, unused)[i])
<1> DEFINE c == code[i]
           d == Stripped(code, unused)[i]
<1> SUFFICES StrippedTo(code, unused, i, d)
  OBVIOUS
<1>1. Len(code) \in Nat /\ DOMAIN code = 1..Len(code) /\ c \in Instruction
  BY CodeIs DEF CodeFacts
<1>2. /\ IsPure(c) => c.result # 0
      /\ \A t \in Reads(c) : t # 0 /\ \E j \in 1..(i - 1) : code[j].result = t
  BY <1>1 DEF StraightLine
<1>3. \/ d = c /\ c.result \notin unused
      \/ ~IsPure(c) /\ d.result = 0 /\ d.function = c.function /\ d.x = c.x /\ d.y = c.y
  BY StrippedIs
<1>4. d.function = c.function /\ d.x = c.x /\ Reads(d) = Reads(c)
      /\ (d.result # 0 => d.result = c.result) /\ (IsPure(d) => d.result # 0)
  BY <1>2, <1>3 DEF Reads, IsPure
<1>5. ASSUME NEW t \in Reads(c), t \in unused PROVE FALSE
  <2>1. PICK j \in 1..(i - 1) : code[j].result = t /\ t # 0
    BY <1>2, <1>5
  <2>2. j \in DOMAIN code /\ i \in DOMAIN code /\ j # i
    BY <1>1, <2>1
  <2>3. t \in Mentions(code[j]) /\ t \in Mentions(code[i])
    BY <1>5, <2>1 DEF Mentions
  <2>4. QED
    BY <1>5, <2>2, <2>3, MentionedOnce DEF Spare
<1> HIDE DEF c, d
<1>6. QED
  BY <1>2, <1>4, <1>5 DEF StrippedTo, c

(* So what is read is still set before it.                                 *)
LEMMA StrippedStraight ==
  ASSUME NEW code \in Code, StraightLine(code), NEW unused, Spare(code, unused),
         NEW r \in Code, NEW f, Embeds(Stripped(code, unused), r, f)
  PROVE  StraightLine(r)
<1> DEFINE e == Stripped(code, unused)
           n == Len(code)
           m == Len(r)
<1>1. n \in Nat /\ DOMAIN code = 1..n /\ \A i \in 1..n : code[i] \in Instruction
  BY CodeIs DEF CodeFacts
<1>2. m \in Nat /\ DOMAIN r = 1..m
  BY CodeIs DEF CodeFacts
<1>3. e \in Code /\ Len(e) = n
  BY StrippedIs
<1> HIDE DEF e
<1>4. /\ f \in [1..m -> 1..n]
      /\ \A k \in 1..m : r[k] = e[f[k]] /\ e[f[k]].function # "NOP"
      /\ \A k, l \in 1..m : k < l => f[k] < f[l]
      /\ \A i \in 1..n : e[i].function # "NOP" => \E k \in 1..m : f[k] = i
  BY <1>3 DEF Embeds, e
<1>5. \A k \in 1..m : f[k] \in 1..n /\ StrippedTo(code, unused, f[k], r[k])
  <2>1. ASSUME NEW k \in 1..m PROVE f[k] \in 1..n /\ StrippedTo(code, unused, f[k], r[k])
    <3>1. PICK i \in 1..n : i = f[k]
      BY <1>4
    <3>2. r[k] = e[i] /\ e[i].function # "NOP"
      BY <1>4, <3>1
    <3>3. StrippedTo(code, unused, i, e[i])
      BY <3>2, StrippedShape DEF e
    <3>4. QED
      BY <3>1, <3>2, <3>3
  <2>2. QED
    BY <2>1
<1> HIDE DEF n, m
<1>6. IsSSA(r)
  <2>1. ASSUME NEW k \in 1..m, NEW l \in 1..m, r[k].result = r[l].result, r[k].result # 0
        PROVE  k = l
    <3>1. code[f[k]].result = code[f[l]].result /\ code[f[k]].result # 0
      BY <1>5, <2>1 DEF StrippedTo
    <3>2. f[k] = f[l]
      BY <1>1, <1>5, <3>1 DEF StraightLine, IsSSA
    <3>3. ~(k < l) /\ ~(l < k)
      BY <1>1, <1>4, <1>5, <3>2
    <3>4. QED
      BY <1>2, <3>3
  <2>2. QED
    BY <1>2, <2>1 DEF IsSSA
<1>7. ASSUME NEW k \in 1..m
      PROVE  /\ r[k].function \notin Branching \cup {"NOP"}
             /\ r[k].result < Narrow
             /\ IsPure(r[k]) => r[k].result # 0
             /\ r[k].result # 0 => IsPure(r[k]) \/ r[k].function \in Calling
             /\ \A t \in Reads(r[k]) : t # 0 /\ \E l \in 1..(k - 1) : r[l].result = t
  <2>1. PICK i \in 1..n : i = f[k] /\ StrippedTo(code, unused, i, r[k])
    BY <1>5
  <2>2. /\ r[k].function \notin Branching \cup {"NOP"}
        /\ r[k].result < Narrow
        /\ IsPure(r[k]) => r[k].result # 0
        /\ r[k].result # 0 => IsPure(r[k]) \/ r[k].function \in Calling
    BY <1>1, <2>1 DEF StraightLine, StrippedTo, IsPure, Narrow
  <2>3. ASSUME NEW t \in Reads(r[k]) PROVE t # 0 /\ \E l \in 1..(k - 1) : r[l].result = t
    <3>1. t # 0 /\ t \notin unused
      BY <2>1, <2>3 DEF StrippedTo
    <3>2. PICK j \in 1..(i - 1) : code[j].result = t
      BY <2>1, <2>3 DEF StrippedTo
    <3>3. j \in 1..n /\ j < i
      BY <1>1, <3>2
    <3>4. e[j] = code[j]
      BY <3>1, <3>2, <3>3, StrippedIs DEF e, n
    <3>5. e[j].function # "NOP"
      BY <1>1, <3>3, <3>4 DEF StraightLine
    <3>6. PICK l \in 1..m : f[l] = j
      BY <1>4, <3>3, <3>5
    <3>7. ~(k < l) /\ k # l
      BY <1>1, <1>4, <2>1, <3>3, <3>6
    <3>8. l \in 1..(k - 1)
      BY <1>2, <3>7
    <3>9. r[l].result = t
      BY <1>4, <3>2, <3>4, <3>6
    <3>10. QED
      BY <3>1, <3>8, <3>9
  <2>4. QED
    BY <2>2, <2>3
<1>8. QED
  BY <1>2, <1>6, <1>7 DEF StraightLine

(* And the machines hold the same in what is read.                         *)
LEMMA StrippedWellRun ==
  ASSUME NEW code \in Code, StraightLine(code), NEW unused, Spare(code, unused),
         NEW symbols, NEW in, WellRun(code, symbols, in),
         NEW r \in Code, NEW f, Embeds(Stripped(code, unused), r, f),
         Meets(Stripped(code, unused), r, f, symbols, in)
  PROVE  WellRun(r, symbols, in)
<1> DEFINE e == Stripped(code, unused)
           n == Len(code)
           m == Len(r)
           s == States(code, symbols, in)
           b == States(e, symbols, in)
           q == States(r, symbols, in)
<1>1. n \in Nat /\ DOMAIN code = 1..n /\ e \in Code /\ Len(e) = n
  BY CodeIs, StrippedIs DEF CodeFacts
<1>2. ReadsResults(code)
  BY StraightConditions
<1>3. \A i \in 0..n : SameUsed(code, unused, i, s[i], b[i])
  BY <1>2, StripStates DEF Spare
<1> HIDE DEF e
<1>4. ASSUME NEW k \in 1..m, q[k - 1].mode = "run" PROVE Proper(q[k - 1], r[k], in)
  <2>1. PICK i \in 1..n : i = f[k]
    BY <1>1 DEF Embeds, e
  <2>2. r[k] = e[i] /\ e[i].function # "NOP" /\ q[k - 1] = b[i - 1]
    BY <2>1 DEF Embeds, Meets, e
  <2>3. StrippedTo(code, unused, i, r[k])
    BY <2>2, StrippedShape DEF e
  <2>4. PICK h : h = i - 1 /\ h \in 0..n
    BY <1>1
  <2>5. SameUsed(code, unused, h, s[h], b[h]) /\ q[k - 1] = b[h]
    BY <1>3, <2>2, <2>4
  <2>6. s[h].mode = "run"
    BY <1>4, <2>5 DEF SameUsed, SameBut
  <2>7. Proper(s[h], code[i], in)
    BY <1>1, <2>4, <2>6 DEF WellRun, Proper
  <2>8. \A t \in Reads(code[i]) : Reg(s[h], t) = Reg(b[h], t)
    BY <2>3, <2>5 DEF SameUsed, StrippedTo
  <2> HIDE DEF s, b, q
  <2>9. QED
    BY <2>3, <2>5, <2>7, <2>8 DEF Proper, StrippedTo
<1>5. StraightLine(r)
  BY StrippedStraight
<1>6. QED
  BY <1>4, <1>5, StraightWellRun

(* Together, whether the NOPs go or there are none.                         *)
LEMMA StrippedRegular ==
  ASSUME NEW code, NEW symbols, NEW inputs, Regular(code, symbols, inputs),
         NEW unused, Spare(code, unused), NEW r \in Code,
         \A in : \E f : /\ Embeds(Stripped(code, unused), r, f)
                        /\ Meets(Stripped(code, unused), r, f, symbols, in)
  PROVE  Regular(r, symbols, inputs)
<1>1. /\ code \in Code /\ StraightLine(code)
      /\ \A in \in inputs : Input(in) /\ WellRun(code, symbols, in)
  BY DEF Regular
<1>2. StraightLine(r)
  <2>1. PICK f : Embeds(Stripped(code, unused), r, f)
    OBVIOUS
  <2>2. QED
    BY <1>1, <2>1, StrippedStraight
<1>3. ASSUME NEW in \in inputs PROVE Input(in) /\ WellRun(r, symbols, in)
  <2>1. PICK f : Embeds(Stripped(code, unused), r, f) /\ Meets(Stripped(code, unused), r, f, symbols, in)
    OBVIOUS
  <2>2. QED
    BY <1>1, <2>1, StrippedWellRun
<1>4. QED
  BY <1>2, <1>3 DEF Regular

(* remove_unused is one or the other.                                      *)
LEMMA UnusedStays ==
  ASSUME NEW code, NEW symbols, NEW inputs, Regular(code, symbols, inputs)
  PROVE  Regular(remove_unused(code).code, symbols, inputs)
<1> DEFINE unused == {t \in Temps(code) : FirstUse(code, t) = LastUse(code, t)}
           changed == \E i \in DOMAIN code : code[i].result \in unused /\ IsPure(code[i])
           e == Stripped(code, unused)
<1>1. code \in Code /\ StraightLine(code)
  BY DEF Regular
<1>2. Spare(code, unused)
  BY <1>1, CountIs DEF Temps, Spare
<1>3. remove_unused(code).code = IF changed THEN remove_nops(e) ELSE e
  BY DEF remove_unused, Stripped
<1> HIDE DEF unused
<1>4. e \in Code /\ Len(e) = Len(code)
  BY <1>1, StrippedIs
<1>5. ~changed => \A i \in 1..Len(e) : e[i].function # "NOP"
  <2>1. DOMAIN code = 1..Len(code)
    BY <1>1, CodeIs DEF CodeFacts
  <2>2. ASSUME ~changed, NEW i \in 1..Len(code) PROVE e[i].function # "NOP"
    <3>1. code[i].function # "NOP"
      BY <1>1, <2>1 DEF StraightLine
    <3>2. e[i] = code[i] \/ e[i].function = code[i].function
      BY <1>1, <2>1, <2>2, StrippedIs
    <3>3. QED
      BY <3>1, <3>2
  <2>3. QED
    BY <1>4, <2>2
<1> HIDE DEF e, changed
<1> DEFINE r == IF changed THEN remove_nops(e) ELSE e
<1>6. r \in Code
  BY <1>4, NopsGone
<1>7. ASSUME NEW in PROVE \E f : Embeds(e, r, f) /\ Meets(e, r, f, symbols, in)
  BY <1>4, <1>5, NopsEmbed, SelfEmbeds
<1> HIDE DEF r
<1>8. Regular(r, symbols, inputs)
  BY <1>2, <1>6, <1>7, StrippedRegular DEF e
<1>9. QED
  BY <1>3, <1>8 DEF r

(* The two passes about PHIs have nothing to do.                            *)
LEMMA NothingToLift ==
  ASSUME NEW code \in Code, StraightLine(code)
  PROVE  return_lifting(code).code = code
<1>1. Len(code) \in Nat /\ DOMAIN code = 1..Len(code)
  BY CodeIs DEF CodeFacts
<1>2. ~ReturnLiftable(code)
  BY <1>1 DEF ReturnLiftable, StraightLine, Branching
<1>3. QED
  BY <1>2 DEF return_lifting, Unchanged

(* With no PHI, remove_phi only takes the NOPs out.                        *)
LEMMA NoPhiToRemove ==
  ASSUME NEW code \in Code, NoPhi(code)
  PROVE  remove_phi(code) = remove_nops(code)
<1> DEFINE phis == Cardinality({i \in DOMAIN code : code[i].function = "PHI"})
           A(g) == g = [n \in 0..phis |-> IF n = 0 THEN code ELSE remove_last_phi(g[n - 1])]
<1>1. phis = 0
  <2>1. {i \in DOMAIN code : code[i].function = "PHI"} = {}
    BY DEF NoPhi
  <2>2. QED
    BY <2>1, FS_EmptySet
<1> HIDE DEF phis
<1>2. A([n \in 0..0 |-> code])
  BY <1>1
<1>3. PICK g : A(g) /\ g = (CHOOSE h : A(h))
  BY <1>2
<1>4. g[0] = code
  BY <1>1, <1>3
<1>5. remove_phi(code) = remove_nops(g[phis])
  BY <1>3 DEF remove_phi, phis
<1>6. QED
  BY <1>1, <1>4, <1>5

(* It leaves regular code regular and meaning the same.                    *)
LEMMA PhiStays ==
  ASSUME NEW code, NEW symbols, NEW inputs, Regular(code, symbols, inputs)
  PROVE  /\ Regular(remove_phi(code), symbols, inputs)
         /\ Meaning(remove_phi(code), symbols, inputs) = Meaning(code, symbols, inputs)
<1>1. code \in Code /\ StraightLine(code)
  BY DEF Regular
<1>2. remove_phi(code) = remove_nops(code)
  BY <1>1, NoPhiToRemove, StraightConditions
<1>3. Stripped(code, {}) = code
  <2>1. code = [i \in DOMAIN code |-> code[i]]
    BY <1>1 DEF Code
  <2>2. QED
    BY <2>1 DEF Stripped
<1>4. remove_nops(code) \in Code /\ Spare(code, {})
  BY <1>1, NopsGone DEF Spare
<1>5. \A in : \E f : /\ Embeds(code, remove_nops(code), f)
                     /\ Meets(code, remove_nops(code), f, symbols, in)
  BY <1>1, NopsEmbed
<1>6. Regular(remove_nops(code), symbols, inputs)
  BY <1>3, <1>4, <1>5, StrippedRegular
<1>7. \A in \in inputs : Run(remove_nops(code), symbols, in) = Run(code, symbols, in)
  BY <1>1, NopsGone
<1>8. QED
  BY <1>2, <1>6, <1>7, SameRunMeans

(* Each pass of the loop keeps what regular code means, and leaves it       *)
(* regular for the next one.                                               *)
SameAndRegular(code, d, symbols, inputs) ==
  /\ Regular(d, symbols, inputs)
  /\ Meaning(d, symbols, inputs) = Meaning(code, symbols, inputs)

LEMMA LoopKeeps ==
  ASSUME NEW code, NEW symbols, NEW inputs, Regular(code, symbols, inputs)
  PROVE  /\ SameAndRegular(code, remove_unused(code).code, symbols, inputs)
         /\ SameAndRegular(code, constant_propagation(code).code, symbols, inputs)
         /\ SameAndRegular(code, return_lifting(code).code, symbols, inputs)
         /\ SameAndRegular(code, value_numbering(code).code, symbols, inputs)
         /\ SameAndRegular(code, remove_phi(code), symbols, inputs)
<1>1. /\ code \in Code /\ StraightLine(code)
      /\ \A in \in inputs : Input(in) /\ WellRun(code, symbols, in)
  BY DEF Regular
<1>2. /\ ReadsResults(code) /\ Indexable(code) /\ LoadsOnce(code) /\ IsSSA(code)
      /\ \A in \in inputs : MayMerge(code, symbols, in)
  BY <1>1, StraightConditions
<1>3. SameAndRegular(code, remove_unused(code).code, symbols, inputs)
  BY <1>1, <1>2, UnusedStays, UnusedKeepsMeaning DEF SameAndRegular
<1>4. SameAndRegular(code, constant_propagation(code).code, symbols, inputs)
  BY <1>1, <1>2, PropagationStays, PropagationKeepsMeaning DEF SameAndRegular
<1>5. SameAndRegular(code, return_lifting(code).code, symbols, inputs)
  BY <1>1, NothingToLift DEF SameAndRegular
<1>6. SameAndRegular(code, value_numbering(code).code, symbols, inputs)
  BY <1>1, <1>2, NumberingStays, NumberingKeepsMeaning DEF SameAndRegular
<1>7. SameAndRegular(code, remove_phi(code), symbols, inputs)
  BY PhiStays DEF SameAndRegular
<1>8. QED
  BY <1>3, <1>4, <1>5, <1>6, <1>7

(* Register folding, the last, keeps what it means.                        *)
LEMMA FoldingKeeps ==
  ASSUME NEW code, NEW symbols, NEW inputs, Regular(code, symbols, inputs)
  PROVE  Meaning(fold_temporaries(code), symbols, inputs) = Meaning(code, symbols, inputs)
<1>1. code \in Code /\ StraightLine(code)
  BY DEF Regular
<1>2. /\ ReadsResults(code) /\ Covered(code) /\ NoPhi(code)
      /\ \A in \in inputs : ReadsSet(code, symbols, in)
  BY <1>1, StraightConditions
<1>3. QED
  BY <1>1, <1>2, FoldKeepsMeaning

-----------------------------------------------------------------------------
(* The optimiser.  Whatever it has made of a function that was given to it   *)
(* regular means what was given; where it still has work to do, the code is  *)
(* regular yet.                                                            *)
Intact(given, cs, going, i, symbols, inputs) ==
  Regular(given[i], symbols, inputs) =>
    /\ Meaning(cs[i], symbols, inputs) = Meaning(given[i], symbols, inputs)
    /\ going => Regular(cs[i], symbols, inputs)

OptimiserInv(given, symbols, inputs) ==
  /\ codes = [i \in 1..Len(given) |-> codes[i]]
  /\ pass # "finished" => fn \in 1..Len(given)
  /\ \A i \in 1..Len(given) :
       Intact(given, codes, pass # "finished" /\ i >= fn, i, symbols, inputs)

(* A sequence is as long as its domain says.                               *)
LEMMA LengthIs ==
  ASSUME NEW n \in Nat, NEW s, s = [i \in 1..n |-> s[i]]
  PROVE  Len(s) = n
<1>1. s \in [1..n -> {s[i] : i \in 1..n}]
  OBVIOUS
<1>2. PICK S : s \in [1..n -> S]
  BY <1>1
<1>3. s \in Seq(S)
  BY <1>2
<1>4. QED
  BY <1>2, <1>3

(* The code of the function at hand is replaced by d, which means the same,  *)
(* and is regular if the function is not done with yet.                    *)
LEMMA Replaced ==
  ASSUME NEW given, Len(given) \in Nat, NEW symbols, NEW inputs,
         OptimiserInv(given, symbols, inputs), pass # "finished",
         NEW d, codes' = [codes EXCEPT ![fn] = d],
         Regular(codes[fn], symbols, inputs) =>
           /\ Meaning(d, symbols, inputs) = Meaning(codes[fn], symbols, inputs)
           /\ fn' = fn => Regular(d, symbols, inputs),
         \/ fn' = fn /\ pass' # "finished"
         \/ /\ fn' = fn + 1
            /\ pass' # "finished" => fn + 1 <= Len(given)
  PROVE  OptimiserInv(given, symbols, inputs)'
<1> DEFINE n == Len(given)
<1>1. /\ codes = [i \in 1..n |-> codes[i]] /\ fn \in 1..n /\ n \in Nat
      /\ \A i \in 1..n : Intact(given, codes, pass # "finished" /\ i >= fn, i, symbols, inputs)
  BY DEF OptimiserInv
<1> HIDE DEF n
<1>2. /\ codes' = [i \in 1..n |-> codes'[i]]
      /\ codes'[fn] = d /\ \A i \in 1..n : i # fn => codes'[i] = codes[i]
  BY <1>1
<1>3. pass' # "finished" => fn' \in 1..n
  BY <1>1 DEF n
<1>4. ASSUME NEW i \in 1..n
      PROVE  Intact(given, codes', pass' # "finished" /\ i >= fn', i, symbols, inputs)
  <2>1. Intact(given, codes, pass # "finished" /\ i >= fn, i, symbols, inputs)
    BY <1>1
  <2>2. CASE i = fn
    <3>1. /\ Regular(given[i], symbols, inputs) =>
               /\ Meaning(codes[i], symbols, inputs) = Meaning(given[i], symbols, inputs)
               /\ Regular(codes[i], symbols, inputs)
      BY <1>1, <2>1, <2>2 DEF Intact
    <3>2. pass' # "finished" /\ i >= fn' => fn' = fn
      BY <1>1, <2>2
    <3>3. QED
      BY <1>2, <2>2, <3>1, <3>2 DEF Intact
  <2>3. CASE i # fn
    <3>1. codes'[i] = codes[i]
      BY <1>2, <2>3
    <3>2. pass' # "finished" /\ i >= fn' => i >= fn
      BY <1>1
    <3>3. QED
      BY <2>1, <3>1, <3>2 DEF Intact
  <2>4. QED
    BY <2>2, <2>3
<1>5. QED
  BY <1>2, <1>3, <1>4 DEF OptimiserInv, n

(* What has become of each function, at any time, does what it did.        *)
Preserved(given, symbols, inputs) ==
  \A i \in 1..Len(given) :
    Regular(given[i], symbols, inputs) =>
      Meaning(codes[i], symbols, inputs) = Meaning(given[i], symbols, inputs)

(* The IR as it is given, and each step.                                   *)
LEMMA OptimiserStarts ==
  ASSUME NEW given \in Seq(Code), NEW symbols, NEW inputs, OptimiserInit(given)
  PROVE  OptimiserInv(given, symbols, inputs)
<1>1. codes = given /\ fn = 1 /\ (pass # "finished" => Len(given) # 0) /\ Len(given) \in Nat
  BY DEF OptimiserInit
<1>2. given = [i \in 1..Len(given) |-> given[i]]
  OBVIOUS
<1>3. QED
  BY <1>1, <1>2 DEF OptimiserInv, Intact

LEMMA OptimiserStep ==
  ASSUME NEW given, Len(given) \in Nat, NEW symbols, NEW inputs,
         OptimiserInv(given, symbols, inputs), [OptimiserNext]_ovars
  PROVE  OptimiserInv(given, symbols, inputs)'
<1> DEFINE n == Len(given)
<1>1. CASE UNCHANGED ovars
  BY <1>1 DEF ovars, OptimiserInv
<1>2. CASE PropagationAborts
  <2>1. codes' = codes /\ pass' = "finished"
    BY <1>2 DEF PropagationAborts
  <2>2. QED
    BY <2>1 DEF OptimiserInv, Intact
<1>3. CASE While
  <2>1. codes' = codes /\ fn' = fn /\ pass # "finished" /\ pass' # "finished"
    BY <1>3 DEF While
  <2>2. QED
    BY <2>1 DEF OptimiserInv
<1>4. ASSUME NEW name, NEW result, NEW following, name # "finished", following # "finished",
             RunPass(name, result, following),
             Regular(codes[fn], symbols, inputs) =>
               SameAndRegular(codes[fn], result.code, symbols, inputs)
      PROVE  OptimiserInv(given, symbols, inputs)'
  <2>1. /\ pass # "finished" /\ pass' # "finished" /\ fn' = fn
        /\ codes' = [codes EXCEPT ![fn] = result.code]
    BY <1>4 DEF RunPass
  <2>2. QED
    BY <1>4, <2>1, Replaced DEF SameAndRegular
<1>5. CASE RemoveUnused
  BY <1>4, <1>5, LoopKeeps DEF RemoveUnused
<1>6. CASE ConstantPropagation
  BY <1>4, <1>6, LoopKeeps DEF ConstantPropagation
<1>7. CASE ReturnLifting
  BY <1>4, <1>7, LoopKeeps DEF ReturnLifting
<1>8. CASE ValueNumbering
  BY <1>4, <1>8, LoopKeeps DEF ValueNumbering
<1>9. CASE RemovePhi
  <2>1. /\ pass # "finished" /\ pass' # "finished" /\ fn' = fn
        /\ codes' = [codes EXCEPT ![fn] = remove_phi(codes[fn])]
    BY <1>9 DEF RemovePhi
  <2>2. QED
    BY <2>1, LoopKeeps, Replaced DEF SameAndRegular
<1>10. CASE FoldTemporaries
  <2>1. /\ pass # "finished" /\ fn' = fn + 1
        /\ codes' = [codes EXCEPT ![fn] = fold_temporaries(codes[fn])]
        /\ pass' = IF fn + 1 > Len(codes') THEN "finished" ELSE "remove_unused"
    BY <1>10 DEF FoldTemporaries, Select
  <2>2. codes = [i \in 1..n |-> codes[i]] /\ fn \in 1..n
    BY <2>1 DEF OptimiserInv
  <2>3. codes' = [i \in 1..n |-> codes'[i]]
    BY <2>1, <2>2
  <2>4. Len(codes') = n
    BY <2>3, LengthIs
  <2>5. pass' # "finished" => fn + 1 <= n
    BY <2>1, <2>2, <2>4
  <2>6. fn' # fn
    BY <2>1, <2>2
  <2>7. QED
    BY <2>1, <2>5, <2>6, FoldingKeeps, Replaced
<1>11. QED
  BY <1>1, <1>2, <1>3, <1>5, <1>6, <1>7, <1>8, <1>9, <1>10 DEF OptimiserNext, Optimise

(* The optimiser (src/src/main.c:164-178) keeps what every function without*)
(* branches means, however many rounds its loop takes and whatever each pass*)
(* finds to do in them: at every step, what has become of the function returns*)
(* the value and makes the calls that the function it was given did.       *)
THEOREM OptimiserKeepsMeaning ==
  ASSUME NEW CONSTANT given \in Seq(Code), NEW CONSTANT symbols, NEW CONSTANT inputs
  PROVE  OptimiserSpec(given) => []Preserved(given, symbols, inputs)
<1>1. OptimiserInit(given) => OptimiserInv(given, symbols, inputs)
  BY OptimiserStarts
<1>2. Len(given) \in Nat
  OBVIOUS
<1>3. OptimiserInv(given, symbols, inputs) /\ [OptimiserNext]_ovars => OptimiserInv(given, symbols, inputs)'
  BY <1>2, OptimiserStep
<1>4. OptimiserInv(given, symbols, inputs) => Preserved(given, symbols, inputs)
  BY DEF OptimiserInv, Intact, Preserved
<1>5. QED
  BY <1>1, <1>3, <1>4, PTL DEF OptimiserSpec
=============================================================================
