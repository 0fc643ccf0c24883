------------------------------- MODULE Parser -------------------------------
(***************************************************************************)
(* parse() of src/src/parser.c, and the loop of compile() around it.        *)
(*                                                                         *)
(* Nodes live in dynamic arrays and refer to the node around them by its    *)
(* address.  An array that grows is copied: addresses of its elements taken *)
(* before go on pointing at the old copy, which nobody frees or changes.    *)
(* memory holds every buffer there ever was, an address is <<buffer,        *)
(* index>>.  The calls of parse() that wait for a child are frames on stack. *)
(***************************************************************************)
EXTENDS Lexer, AST

VARIABLES
  memory,       \* the buffers of nodes, in the order they were allocated
  stack,        \* the forms being read, the innermost last
  node_id,      \* the number of the next node
  reading       \* "reading", "read", or "stopped" (a failed expect or a TODO)

pvars == <<lvars, memory, stack, node_id, reading>>

NoNode == <<0, 0>>
NoArray == [data |-> 0, len |-> 0, capacity |-> 0]

(* AST of parser.h.  pairs: the arguments of a function or the variables of  *)
(* a let; items: the array every form ends with, whatever its name there.    *)
NewNode(kind, str, parent) ==
  [kind |-> kind, str |-> str, id |-> node_id, parent |-> parent,
   pairs |-> <<>>, ret |-> NoArray, items |-> NoArray]
Pair(name, type) == [name |-> name, type |-> type, value |-> NoArray]

(* Where a call of parse() is; name and local are its local variables.      *)
Frame(state, node) == [state |-> state, node |-> node, name |-> "", local |-> NoArray]
Top == Last(stack)
Waiting(state) == reading = "reading" /\ Top.state = state
InState(state) == [stack EXCEPT ![Len(stack)].state = state]

ParseInit ==
  /\ LexInit
  /\ memory = <<>> /\ stack = <<Frame("top", NoNode)>>
  /\ node_id = 1 /\ reading = "reading"

-----------------------------------------------------------------------------
(* The token ahead.                                                        *)
T == next_token(position)
Eat == position' = T.next /\ UNCHANGED <<text, reading>>

(* Where parse() is called for a child, unless the loop around it ends.      *)
Closer == [body |-> ")", list |-> "]", top |-> "END"]
Expecting == {"argument type", "ret", "type", "value", "whole"} \cup DOMAIN Closer
CallsParse == /\ reading = "reading" /\ Top.state \in Expecting
              /\ Top.state \in DOMAIN Closer => T.kind # Closer[Top.state]

-----------------------------------------------------------------------------
(* The array parse() is to append to: a local one, or one inside the node.   *)
IsLocal(f) == f.state \in {"top", "argument type", "type"}
Receiver(f) ==
  CASE IsLocal(f)         -> f.local
    [] f.state = "ret"    -> memory[f.node[1]][f.node[2]].ret
    [] f.state = "value"  -> Last(memory[f.node[1]][f.node[2]].pairs).value
    [] OTHER              -> memory[f.node[1]][f.node[2]].items

(* The node with its array stored back into it.                            *)
WithReceiver(node, state, xs) ==
  CASE state = "ret"   -> [node EXCEPT !.ret = xs]
    [] state = "value" -> [node EXCEPT !.pairs[Len(node.pairs)].value = xs]
    [] OTHER           -> [node EXCEPT !.items = xs]

(* Mutant: the old buffer is given back to the arena, which clears it.      *)
LeftFreed(old) == [i \in DOMAIN memory |-> IF i = old THEN [j \in DOMAIN memory[i] |->
                     [memory[i][j] EXCEPT !.id = 0, !.parent = NoNode]] ELSE memory[i]]

(* What a copied array leaves behind: arena_realloc frees nothing.          *)
Left(old) == memory

(* da_append: [memory, array].                                             *)
Appended(xs, node) ==
  LET elements == IF xs.data = 0 THEN <<>> ELSE memory[xs.data]
      capacity == IF xs.capacity = 0 THEN 4 ELSE xs.capacity * 2
  IN  IF xs.len = xs.capacity
      THEN [memory |-> Append(Left(xs.data), Append(elements, node)),
            array  |-> [data |-> Len(memory) + 1, len |-> xs.len + 1, capacity |-> capacity]]
      ELSE [memory |-> [memory EXCEPT ![xs.data] = Append(@, node)],
            array  |-> [xs EXCEPT !.len = @ + 1]]

(* A node is appended where the form of frame f wants one: [memory, frame,   *)
(* node], the last its address.                                            *)
Placed(f, kind, str) ==
  LET a == Appended(Receiver(f), NewNode(kind, str, f.node))
      stored == [a.memory EXCEPT ![f.node[1]][f.node[2]] = WithReceiver(@, f.state, a.array)]
  IN  [memory |-> IF IsLocal(f) THEN a.memory ELSE stored,
       frame  |-> IF IsLocal(f) THEN [f EXCEPT !.local = a.array] ELSE f,
       node   |-> <<a.array.data, a.array.len>>]

(* Where a form goes on when the child it waits for is read.                *)
After(state) ==
  CASE state = "argument type" -> "argument"
    [] state = "ret"           -> "body"
    [] state = "type"          -> "variable"
    [] state = "value"         -> "end variable"
    [] state = "whole"         -> "end"
    [] OTHER                   -> state

-----------------------------------------------------------------------------
(* One expression.                                                         *)
Leaf(kind, str) ==
  /\ CallsParse /\ T.kind = kind
  /\ LET p == Placed(Top, kind, str)
     IN  /\ memory' = p.memory
         /\ stack' = Append(Front(stack), [p.frame EXCEPT !.state = After(@)])
  /\ node_id' = node_id + 1
  /\ Eat

ReadBool   == Leaf("BOOL", T.str = "true")
ReadString == Leaf("STRING", T.str)
ReadNumber == T.kind = "NUMBER" /\ Leaf("NUMBER", s_atoi(T.str))
ReadName   == Leaf("NAME", T.str)

(* A node with children is placed at once, and they get its address.         *)
Open(outer, kind, str, state) ==
  LET p == Placed(Last(outer), kind, str)
  IN  /\ memory' = p.memory
      /\ stack' = Front(outer) \o <<p.frame, Frame(state, p.node)>>
      /\ node_id' = node_id + 1
      /\ Eat

OpenList == CallsParse /\ T.kind = "[" /\ Open(stack, "LIST", "", "list")

OpenForm ==
  /\ CallsParse /\ T.kind = "("
  /\ stack' = Append(stack, Frame("form", Top.node))
  /\ Eat /\ UNCHANGED <<memory, node_id>>

(* The first word of a form says what it is.                               *)
Keywords == {"fn", "let", "def", "extern"}
FirstWord(word, kind, str, state) ==
  /\ Waiting("form") /\ T.kind = "NAME" /\ T.str = word
  /\ Open(Front(stack), kind, str, state)

OpenFunc   == FirstWord("fn", "FUNC", "", "fn")
OpenLet    == FirstWord("let", "VARDEF", "", "let")
OpenDef    == FirstWord("def", "DEF", "", "name")
OpenExtern == FirstWord("extern", "EXTERN", "", "name")
OpenCall   == T.kind = "NAME" /\ T.str \notin Keywords /\ FirstWord(T.str, "CALL", T.str, "body")

(* The name of a def or an extern.                                         *)
SetName ==
  /\ Waiting("name") /\ T.kind = "NAME"
  /\ memory' = [memory EXCEPT ![Top.node[1]][Top.node[2]].str = T.str]
  /\ stack' = InState("whole")
  /\ Eat /\ UNCHANGED node_id

(* The end of the innermost form, a child of the one around it.             *)
Shut(token) ==
  /\ T.kind = token
  /\ stack' = [Front(stack) EXCEPT ![Len(stack) - 1].state = After(@)]
  /\ Eat
  /\ UNCHANGED <<memory, node_id>>

CloseForm == (Waiting("body") \/ Waiting("end")) /\ Shut(")")
CloseList == Waiting("list") /\ Shut("]")

-----------------------------------------------------------------------------
(* The arguments of a function and the variables of a let.                  *)
WithPair(m, pair) ==
  [m EXCEPT ![Top.node[1]][Top.node[2]].pairs = Append(@, pair)]

(* A type without a name, in an array of its own.                          *)
UnnamedArgument ==
  /\ Waiting("arguments") /\ T.kind = "NAME"
  /\ LET type == Appended(NoArray, NewNode("NAME", T.str, Top.node))
     IN  memory' = WithPair(type.memory, Pair("", type.array))
  /\ node_id' = node_id + 1
  /\ Eat /\ UNCHANGED stack

NamePair(state, following) ==
  /\ Waiting(state) /\ T.kind = "NAME"
  /\ stack' = Append(Front(stack), [Frame(following, Top.node) EXCEPT !.name = T.str])
  /\ Eat /\ UNCHANGED <<memory, node_id>>

NameArgument == NamePair("argument name", "argument type")
NameVariable == NamePair("variable name", "type")

EndArgument ==
  /\ Waiting("argument") /\ T.kind = ")"
  /\ memory' = WithPair(memory, Pair(Top.name, Top.local))
  /\ stack' = InState("arguments")
  /\ Eat /\ UNCHANGED node_id

AddVariable ==
  /\ Waiting("variable")
  /\ memory' = WithPair(memory, Pair(Top.name, Top.local))
  /\ stack' = InState("value")
  /\ UNCHANGED <<lvars, node_id, reading>>

(* What else is expected where, and the state after it.                     *)
Punctuation ==
  {<<"fn", "[", "arguments">>, <<"arguments", "(", "argument name">>, <<"arguments", "]", "ret">>,
   <<"let", "[", "variables">>, <<"variables", "(", "variable name">>, <<"variables", "]", "body">>,
   <<"end variable", ")", "variables">>}

Expect ==
  \E p \in Punctuation :
    /\ Waiting(p[1]) /\ T.kind = p[2]
    /\ stack' = InState(p[3])
    /\ Eat /\ UNCHANGED <<memory, node_id>>

-----------------------------------------------------------------------------
EndOfFile ==
  /\ Waiting("top") /\ T.kind = "END" /\ reading' = "read"
  /\ UNCHANGED <<lvars, memory, stack, node_id>>

(* Anything else fails an expect(), or meets a TODO().                      *)
Wanted(state) ==
  (IF state \in Expecting THEN {"(", "[", "BOOL", "STRING", "NUMBER", "NAME"} ELSE {})
  \cup (IF state \in DOMAIN Closer THEN {Closer[state]} ELSE {})
  \cup (IF state \in {"form", "name", "arguments", "argument name", "variable name"} THEN {"NAME"} ELSE {})
  \cup (IF state \in {"argument", "end"} THEN {")"} ELSE {})
  \cup {p[2] : p \in {q \in Punctuation : q[1] = state}}

Unexpected ==
  /\ reading = "reading" /\ ~Waiting("variable") /\ T.kind \notin Wanted(Top.state)
  /\ reading' = "stopped"
  /\ UNCHANGED <<lvars, memory, stack, node_id>>

ParseNext ==
  \/ ReadBool \/ ReadString \/ ReadNumber \/ ReadName
  \/ OpenList \/ OpenForm \/ OpenFunc \/ OpenLet \/ OpenDef \/ OpenExtern \/ OpenCall
  \/ SetName \/ CloseForm \/ CloseList
  \/ UnnamedArgument \/ NameArgument \/ NameVariable \/ EndArgument \/ AddVariable \/ Expect
  \/ EndOfFile \/ Unexpected

(* The parser alone.                                                       *)
ParseSpec == ParseInit /\ [][ParseNext]_pvars

-----------------------------------------------------------------------------
(* Every node there is in memory m, copies that were left behind included;   *)
(* a slot names one of a node's arrays.                                     *)
Addresses(m) == UNION {{<<b, i>> : i \in DOMAIN m[b]} : b \in DOMAIN m}
NodeAt(m, p) == m[p[1]][p[2]]
Slots(node) ==
  {<<"ret", 1>>, <<"items", 1>>}
  \cup {<<"type", j>> : j \in DOMAIN node.pairs} \cup {<<"value", j>> : j \in DOMAIN node.pairs}
ArrayIn(node, slot) ==
  IF slot[1] = "ret" THEN node.ret
  ELSE IF slot[1] = "items" THEN node.items
  ELSE IF slot[1] = "type" THEN node.pairs[slot[2]].type
  ELSE node.pairs[slot[2]].value

(* Pointers to parents lead to nodes with smaller numbers, so that whoever   *)
(* follows them arrives; nodes with one number are copies and have the same  *)
(* parent, so that it does not matter which of them a pointer leads to.      *)
Climbing(m) ==
  /\ \A p \in Addresses(m) :
       LET n == NodeAt(m, p)
       IN  n.parent # NoNode => n.parent \in Addresses(m) /\ NodeAt(m, n.parent).id < n.id
  /\ \A p, q \in Addresses(m) : NodeAt(m, p).id = NodeAt(m, q).id => NodeAt(m, p).parent = NodeAt(m, q).parent

(* The nodes in an array of a node point to that node or a copy of it, and   *)
(* no two nodes in its arrays have one number.                              *)
PointsTo(m, p, element) ==
  element.parent \in Addresses(m) /\ NodeAt(m, element.parent).id = NodeAt(m, p).id
ChildrenPoint(m) ==
  \A p \in Addresses(m) : \A s \in Slots(NodeAt(m, p)) :
    LET xs == ArrayIn(NodeAt(m, p), s)
    IN  \A i \in 1..xs.len :
          /\ PointsTo(m, p, m[xs.data][i])
          /\ \A t \in Slots(NodeAt(m, p)) : \A j \in 1..ArrayIn(NodeAt(m, p), t).len :
               m[ArrayIn(NodeAt(m, p), t).data][j].id = m[xs.data][i].id => t = s /\ j = i

(* So are the nodes of the program, but that nothing is around them.         *)
Outermost(m, xs) ==
  /\ \A i \in 1..xs.len : m[xs.data][i].parent = NoNode
  /\ \A i, j \in 1..xs.len : m[xs.data][i].id = m[xs.data][j].id => i = j

(* Whatever has moved while the file is read: following parents leads        *)
(* through the same numbers as the tree does, and no number stands for two   *)
(* of its nodes.                                                           *)
ParentsRight == Climbing(memory) /\ ChildrenPoint(memory) /\ Outermost(memory, stack[1].local)

(* A form that waits for a child to be read has the child's node last in its  *)
(* array: what parse() writes through the address it keeps is in the tree.   *)
FillsTheTree ==
  \A k \in 2..Len(stack) :
    stack[k].state # "form" =>
      LET xs == Receiver(stack[k - 1])
      IN  stack[k].node = <<xs.data, xs.len>> /\ xs.len = Len(memory[xs.data])

LinksRight == ParentsRight /\ FillsTheTree
=============================================================================
