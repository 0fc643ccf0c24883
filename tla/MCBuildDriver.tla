---------------------------- MODULE MCBuildDriver ----------------------------
(***************************************************************************)
(* The build driver with programs that print the same everywhere, less or    *)
(* more on one target, do not build, fall silent or print for ever; with     *)
(* and without tests, an emulator and other files among the examples.        *)
(***************************************************************************)
EXTENDS BuildDriver, FiniteSets, SequencesExt

MCCharacters == {"a", "A", "1", "nl", "cr"}
MCUpper(c) == IF c = "a" THEN "A" ELSE c
MCBanner == <<"cr", "nl", "a", "nl">>
MCGoodbye == <<"cr", "nl">>

Teletype(text) == FlattenSeq([i \in DOMAIN text |-> IF text[i] = "1" THEN <<"cr", "1">> ELSE <<MCUpper(text[i])>>])
Printing(text, odd, builds, ends) ==
  [builds |-> builds, ends |-> ends,
   prints |-> [t \in TargetNames |-> IF t \in DOMAIN odd THEN odd[t]
                                    ELSE IF t = "pdp8" THEN Teletype(text) ELSE text]]
As == <<"a", "1">>
Right == Printing(As, <<>>, TargetNames, "exits")
Odd == Printing(As, [mips |-> <<"a">>, x86_32 |-> <<"a", "1", "1">>, pdp8 |-> <<"1">>], TargetNames, "exits")
Unix == Printing(As, <<>>, TargetNames \ {"pdp8"}, "exits")
NoWhere == Printing(As, <<>>, {}, "exits")
Silent == Printing(As, <<>>, TargetNames, "spins")
Forever == Printing(As, <<>>, TargetNames \ {"mips"}, "repeats")

MCFileNames == {"f.fsh", "g.fsh", "notes"}
MCExamples == {"f.fsh", "g.fsh"}
MCDirectories == {<<"f.fsh">>, <<"notes", "f.fsh">>, <<"f.fsh", "notes">>, <<"f.fsh", "g.fsh">>}
Both(f, g) == [x \in MCExamples |-> IF x = "f.fsh" THEN f ELSE g]
MCSources == {Both(p, Unix) : p \in {Right, Odd, Unix, NoWhere, Silent, Forever}}
MCFirstTests == {Both(t, <<"a">>) : t \in {Absent, <<>>, As, <<"a", "1", "1">>, <<"1">>}}

-----------------------------------------------------------------------------
(* What comes out of a program on the PDP-8, as the comparison sees it, and   *)
(* the reference as it should come out there.                               *)
Shown(p) == SelectSeq(p.prints["pdp8"] \o IF p.ends = "exits" THEN MCGoodbye ELSE <<>>, LAMBDA c : c # "cr")
InCapitals(text) == [i \in DOMAIN text |-> MCUpper(text[i])]

(* A program that nobody ends: pclose() waits for it, or getc() does.         *)
Endless(f, t) ==
  LET p == source[f]
  IN  /\ t \in p.builds
      /\ IF options.gen_test THEN t # "pdp8" /\ p.ends # "exits"
         ELSE /\ test[f] # Absent /\ p.ends = "spins"
              /\ t = "pdp8" => emulator /\ IsStrictPrefix(Shown(p), InCapitals(test[f]))

(* The driver always returns: no pipe fills and no one waits for the other,   *)
(* also where the comparison ends before the program.  It may wait for a     *)
(* program that does not end, be killed writing to an emulator that is not   *)
(* there, and crash when it is refused a file or a pipe.                    *)
DriverReturns ==
  []<>(\/ pc = "idle"
       \/ pc = "killed" /\ ~emulator
       \/ pc = "crashed" /\ refused > 0
       \/ \E f \in ToSet(entries) \cap Examples, t \in TargetNames : Endless(f, t))

=============================================================================
