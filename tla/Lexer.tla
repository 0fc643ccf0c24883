-------------------------------- MODULE Lexer --------------------------------
(***************************************************************************)
(* src/src/lexer.c.  The text is a sequence of items: a bracket, a run of    *)
(* white space, of digits or of the other characters of names, a string, or *)
(* a character that belongs to none of these.  Two items that would read as  *)
(* one are one.  Lines and columns are left out.                            *)
(*                                                                         *)
(* compile() of main.c takes one off the length of the file, so the lexer   *)
(* can look at the last character but not step over it.                     *)
(***************************************************************************)
EXTENDS Integers, SequencesExt

CONSTANT Texts          \* the files to read

(* An empty file is left out: its length would wrap around, and what is     *)
(* read is up to the build.                                                *)
ASSUME TextsAssumption == Texts # {} /\ <<>> \notin Texts

VARIABLES
  text,         \* the items of the file
  position      \* index of the next one; white space may be eaten already

lvars == <<text, position>>

Brackets == {"(", ")", "[", "]"}

LexInit == text \in Texts /\ position = 1

(* Mutant: only one of the two is known.                                   *)
BoolsFalse == {"false"}

Bools == {"true", "false"}

Token(kind, str, next) == [kind |-> kind, str |-> str, next |-> next]

(* The kind of a token made of this item.                                  *)
KindOf(item) ==
  CASE item.kind \in Brackets -> item.kind
    [] item.kind = "digits"   -> "NUMBER"
    [] item.kind = "string"   -> "STRING"
    [] item.kind = "word"     -> IF item.str \in Bools THEN "BOOL" ELSE "NAME"

(* eat_char() refuses the last character of the file.                      *)
EndsHere(p) == p = Len(text)

(* next_token() at p; peek_token() is the same without the step to next.     *)
(* Running out of length in white space is the end, anywhere else it stops   *)
(* the compiler ("Unexpected end of file"), as an item of no token does.     *)
next_token(p) ==
  LET q == IF text[p].kind = "space" THEN p + 1 ELSE p
  IN  IF q > Len(text) THEN Token("END", "", p)
      ELSE IF text[q].kind \in {"open string", "other"} \/ EndsHere(q) THEN Token("FAIL", "", q)
      ELSE Token(KindOf(text[q]), text[q].str, q + 1)

(* s_atoi() of parser.c; the numbers of Texts are far from 2^63.            *)
s_atoi(digits) == FoldLeft(LAMBDA result, d : result * 10 + d, 0, digits)
=============================================================================
