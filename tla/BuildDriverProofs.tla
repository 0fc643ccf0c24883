-------------------------- MODULE BuildDriverProofs --------------------------
(***************************************************************************)
(* The tables of the build driver say the truth and gen-test writes it:      *)
(* whatever the examples and the emulator print, however much a pipe holds,   *)
(* whatever the system refuses and however the two processes interleave.     *)
(***************************************************************************)
EXTENDS BuildDriver, FiniteSetTheorems, SequenceTheorems, TLAPS

Conversing == {"command", "banner", "banner_2", "compare", "copy", "pclose"}
Testing == {"compile", "open_test"} \cup Conversing
Looping == {"next_entry", "table"} \cup Testing

Statuses == {"ok", "build_fail", "wrong_output", "no_test"}
Children == [state : {"none", "forked", "waiting", "running", "ended"}, left : Seq(Characters), read : BOOLEAN]

BTypeOK ==
  /\ entries \in Directories /\ source \in [Examples -> Behaviours]
  /\ test \in [Examples -> Seq(Characters) \cup {Absent}]
  /\ emulator \in BOOLEAN /\ refused \in Nat
  /\ options \in [run : BOOLEAN, gen_test : BOOLEAN, other : {"none", "help", "wrong"}]
  /\ at \in Nat \ {0} /\ row \in Nat \ {0} /\ target \in 1 .. 4
  /\ expected \in Seq(Characters) /\ status \in Statuses
  /\ pipe \in Seq(Characters) /\ child \in Children

(* The tools are there before the examples are built.                        *)
Tooled ==
  /\ pc \in Looping \cup {"build_examples"} => {"gal", "fishc"} \subseteq tools
  /\ pc = "build_fishc" => "gal" \in tools

(* The rows above the present one are the examples met, each once; below it   *)
(* there is none.                                                           *)
RowsRight ==
  pc \in Looping =>
    /\ names \in [1 .. Len(entries) -> FileNames \cup {NoName}]
    /\ results \in [1 .. Len(entries) -> [1 .. 4 -> Statuses]]
    /\ row <= at /\ at <= Len(entries) + 1
    /\ \A i \in 1 .. Len(entries) : i > row => names[i] \notin Examples
    /\ \A k \in 1 .. at - 1 : entries[k] \in Examples => \E i \in 1 .. row - 1 : names[i] = entries[k]
    /\ \A i \in 1 .. row - 1 : \E k \in 1 .. at - 1 : names[i] = entries[k]
    /\ \A i, j \in 1 .. row - 1 : names[i] = names[j] => i = j

InPlace ==
  /\ pc \in {"next_entry", "table"} /\ row <= Len(entries) => names[row] \notin Examples
  /\ pc \in Testing =>
       at <= Len(entries) /\ File \in Examples /\ names[row] = File
  /\ pc \in Testing \ {"compile"} => T \in Program.builds
  /\ pc = "table" => ~options.gen_test /\ at = Len(entries) + 1

CellsRight ==
  pc \in Looping /\ ~options.gen_test =>
    \A i \in 1 .. Len(entries), j \in 1 .. 4 :
      i < row \/ (pc \in Testing /\ i = row /\ j < target) => Cell(i, j)

(* What the first n targets of an example have left in its test.             *)
Left(f, n) == \A j \in 1 .. n : BuiltLast(f, j, n) => test[f] = Written(f, Targets[j])

TestsRight ==
  pc \in Looping /\ options.gen_test /\ refused = 0 =>
    /\ \A k \in 1 .. at - 1 : entries[k] \in Examples => Left(entries[k], 4)
    /\ pc = "compile" => Left(File, target - 1)
    /\ pc = "pclose" => test[File] = Written(File, T)

-----------------------------------------------------------------------------
(* c characters have come through the pipe: what is in it, and what the other  *)
(* process has yet to write, are the next ones.                             *)
Out(c) == c + Len(pipe) + Len(child.left)
Stream(c) ==
  /\ \A i \in DOMAIN pipe : pipe[i] = Char(File, T, c + i)
  /\ \A i \in DOMAIN child.left : child.left[i] = Char(File, T, c + Len(pipe) + i)
  /\ child.read /\ child.state # "none"
  /\ child.state \in {"forked", "waiting"} => T = "pdp8"
  /\ child.state = "forked" => Out(c) = 0
  /\ child.state = "waiting" => emulator /\ Out(c) = Len(Banner)
  /\ child.state = "running" =>
       /\ T = "pdp8" => emulator
       /\ \/ Out(c) = Len(Said(File, T))
          \/ GoesOn(File, T) /\ child.left = <<>> /\ Out(c) > Len(Said(File, T))
  /\ child.state = "ended" => Out(c) = Len(Said(File, T)) /\ child.left = <<>> /\ ~GoesOn(File, T)

(* So much of the test has been met, at the characters that count.           *)
Met == Len(test[File]) - Len(expected)
Meets(f, t, k) ==
  \E x \in 1 .. Len(Said(f, t)) + Len(test[f]) :
    Nth(f, t, k, x) /\ Char(f, t, x) = Wanted(t, test[f][k])
Compared(c) ==
  /\ c >= Len(Lead(T)) /\ Met >= 0
  /\ \A i \in DOMAIN expected : expected[i] = test[File][Met + i]
  /\ Cardinality(Heard(File, T, c)) = Met
  /\ \A k \in 1 .. Met : Meets(File, T, k)
  /\ c > Len(Said(File, T)) + Met => T = "pdp8" /\ Char(File, T, c) = "cr"

Copied(c) ==
  /\ Len(expected) = IF c > FileSize THEN FileSize ELSE c
  /\ \A i \in DOMAIN expected : expected[i] = Char(File, T, i)

Greeted(c) ==
  /\ pc = "command" => c = 0
  /\ pc = "banner" => c <= Len(Lead(T)) /\ \A i \in 1 .. c : Lead(T)[i] # "nl"
  /\ pc = "banner_2" => c < Len(Lead(T)) /\ \E i \in 1 .. c : Lead(T)[i] = "nl"

Progress(c) ==
  /\ pc \in {"command", "banner", "banner_2"} => Greeted(c) /\ expected = test[File]
  /\ pc = "compare" => Compared(c)
  /\ pc = "copy" => Copied(c)

Conversation ==
  /\ child.state # "none" => pc \in Conversing \cup {"killed"}
  /\ pc = "killed" => child.state = "ended"
  /\ pc \in Conversing \ {"pclose"} => \E c \in Nat : Stream(c) /\ Progress(c)
  /\ pc \in {"command", "banner", "banner_2"} => T = "pdp8"
  /\ pc \in {"command", "banner", "banner_2", "compare"} => ~options.gen_test /\ test[File] # Absent
  /\ pc = "copy" => options.gen_test /\ T # "pdp8"
  /\ pc = "pclose" /\ ~options.gen_test =>
       test[File] # Absent /\ status = IF Agrees(File, T) THEN "ok" ELSE "wrong_output"
  /\ pc = "pclose" => T # "pdp8"

BInv == BTypeOK /\ Tooled /\ RowsRight /\ InPlace /\ CellsRight /\ TestsRight /\ Conversation

-----------------------------------------------------------------------------
(* Counting the characters that count.                                      *)
LEMMA SaidTyped ==
  ASSUME BTypeOK, NEW f \in Examples, NEW t \in TargetNames
  PROVE  /\ source[f] \in Behaviours /\ source[f].prints[t] \in Seq(Characters)
         /\ Said(f, t) \in Seq(Characters) /\ Lead(t) \in Seq(Characters)
         /\ Len(Lead(t)) <= Len(Said(f, t))
         /\ \A i \in 1 .. Len(Lead(t)) : Said(f, t)[i] = Lead(t)[i]
<1>1. source[f] \in Behaviours /\ source[f].prints[t] \in Seq(Characters)
  BY DEF BTypeOK, Behaviours
<1>2. Banner \in Seq(Characters) /\ Goodbye \in Seq(Characters)
  BY BuildAssumption
<1> DEFINE rest == source[f].prints[t] \o IF source[f].ends = "exits" THEN Goodbye ELSE <<>>
<1>3. rest \in Seq(Characters)
  BY <1>1, <1>2
<1> HIDE DEF rest
<1>4. Said(f, t) = IF t # "pdp8" THEN source[f].prints[t] ELSE IF ~emulator THEN <<>> ELSE Banner \o rest
  BY DEF Said, rest
<1>5. /\ Banner \o rest \in Seq(Characters) /\ Len(Banner) <= Len(Banner \o rest)
      /\ \A i \in 1 .. Len(Banner) : (Banner \o rest)[i] = Banner[i]
  BY <1>2, <1>3
<1>6. <<>> \in Seq(Characters) /\ Len(<<>>) = 0
  OBVIOUS
<1>7. CASE t = "pdp8" /\ emulator
  BY <1>1, <1>2, <1>4, <1>5, <1>7 DEF Lead
<1>8. CASE ~(t = "pdp8" /\ emulator)
  <2>1. Lead(t) = <<>> /\ Said(f, t) \in Seq(Characters)
    BY <1>1, <1>4, <1>6, <1>8 DEF Lead
  <2>2. Len(Said(f, t)) \in Nat
    BY <2>1
  <2> QED BY <1>1, <1>6, <2>1, <2>2
<1> QED BY <1>7, <1>8

LEMMA HeardFinite ==
  ASSUME BTypeOK, NEW f \in Examples, NEW t \in TargetNames, NEW x \in Nat
  PROVE  IsFiniteSet(Heard(f, t, x)) /\ Cardinality(Heard(f, t, x)) \in Nat
<1>1. Len(Lead(t)) + 1 \in Int
  BY SaidTyped
<1>2. IsFiniteSet(Len(Lead(t)) + 1 .. x)
  BY <1>1, FS_Interval
<1>3. Heard(f, t, x) \in SUBSET (Len(Lead(t)) + 1 .. x)
  BY DEF Heard
<1>4. IsFiniteSet(Heard(f, t, x))
  BY <1>2, <1>3, FS_Subset
<1> QED BY <1>4, FS_CardinalityType

LEMMA HeardNext ==
  ASSUME BTypeOK, NEW f \in Examples, NEW t \in TargetNames, NEW x \in Nat
  PROVE  Cardinality(Heard(f, t, x + 1)) =
           Cardinality(Heard(f, t, x)) + IF x + 1 \in Heard(f, t, x + 1) THEN 1 ELSE 0
<1>1. Len(Lead(t)) \in Nat
  BY SaidTyped
<1>2. IsFiniteSet(Heard(f, t, x)) /\ Cardinality(Heard(f, t, x)) \in Nat
  BY HeardFinite
<1>3. x + 1 \notin Heard(f, t, x)
  BY <1>1 DEF Heard
<1>4. CASE x + 1 \in Heard(f, t, x + 1)
  <2>1. Heard(f, t, x + 1) = Heard(f, t, x) \cup {x + 1}
    BY <1>1, <1>4 DEF Heard
  <2> QED BY <1>2, <1>3, <1>4, <2>1, FS_AddElement
<1>5. CASE x + 1 \notin Heard(f, t, x + 1)
  <2>1. Heard(f, t, x + 1) = Heard(f, t, x)
    BY <1>1, <1>5 DEF Heard
  <2> QED BY <1>2, <1>5, <2>1
<1> QED BY <1>4, <1>5

LEMMA HeardGrows ==
  ASSUME BTypeOK, NEW f \in Examples, NEW t \in TargetNames, NEW x \in Nat, NEW y \in Nat, x <= y
  PROVE  /\ Cardinality(Heard(f, t, x)) <= Cardinality(Heard(f, t, y))
         /\ Cardinality(Heard(f, t, x)) = Cardinality(Heard(f, t, y)) => y \notin Heard(f, t, y) \/ x = y
<1>1. Len(Lead(t)) \in Nat
  BY SaidTyped
<1>2. IsFiniteSet(Heard(f, t, y))
  BY HeardFinite
<1>3. Heard(f, t, x) \in SUBSET Heard(f, t, y)
  BY <1>1 DEF Heard
<1>4. /\ Cardinality(Heard(f, t, x)) <= Cardinality(Heard(f, t, y))
      /\ Cardinality(Heard(f, t, x)) = Cardinality(Heard(f, t, y)) => Heard(f, t, x) = Heard(f, t, y)
  BY <1>2, <1>3, FS_Subset
<1>5. y \in Heard(f, t, x) => y <= x
  BY DEF Heard
<1> QED BY <1>4, <1>5

(* There is only one k-th character that counts.                             *)
LEMMA NthUnique ==
  ASSUME BTypeOK, NEW f \in Examples, NEW t \in TargetNames, NEW x \in Nat, NEW y \in Nat, NEW k,
         Nth(f, t, k, x), Nth(f, t, k, y)
  PROVE  x = y
<1>1. CASE x <= y
  BY <1>1, HeardGrows DEF Nth
<1>2. CASE y <= x
  BY <1>2, HeardGrows DEF Nth
<1> QED BY <1>1, <1>2

-----------------------------------------------------------------------------
(* What a verdict depends on.                                               *)
LEMMA SaidKept ==
  ASSUME UNCHANGED <<source, emulator>>, NEW f, NEW t
  PROVE  /\ UNCHANGED <<Said(f, t), Lead(t), GoesOn(f, t)>>
         /\ \A x : Char(f, t, x)' = Char(f, t, x) /\ Heard(f, t, x)' = Heard(f, t, x)
         /\ \A k, x : Nth(f, t, k, x)' <=> Nth(f, t, k, x)
<1>1. UNCHANGED <<Said(f, t), Lead(t), GoesOn(f, t)>>
  BY DEF Said, Lead, GoesOn
<1>2. \A x : Char(f, t, x)' = Char(f, t, x)
  BY <1>1 DEF Char
<1>3. \A x : Heard(f, t, x)' = Heard(f, t, x)
  BY <1>1, <1>2 DEF Heard
<1> QED BY <1>1, <1>2, <1>3 DEF Nth

LEMMA AgreesKept ==
  ASSUME UNCHANGED <<source, emulator>>, NEW f, NEW t, test'[f] = test[f]
  PROVE  /\ Agrees(f, t)' <=> Agrees(f, t)
         /\ Verdict(f, t)' = Verdict(f, t)
<1>1. Agrees(f, t)' <=> Agrees(f, t)
  BY SaidKept DEF Agrees, Wanted
<1> QED BY <1>1 DEF Verdict

(* The same of the program that is being run.                                *)
LEMMA SaidHere ==
  ASSUME UNCHANGED <<source, emulator>>, File' = File, T' = T
  PROVE  /\ UNCHANGED <<Said(File, T), Lead(T), GoesOn(File, T)>>
         /\ \A x : Char(File, T, x)' = Char(File, T, x) /\ Heard(File, T, x)' = Heard(File, T, x)
         /\ \A k, x : Nth(File, T, k, x)' <=> Nth(File, T, k, x)
         /\ test'[File] = test[File] => (Agrees(File, T)' <=> Agrees(File, T))
<1>1. PICK f, t : f = File /\ t = T
  OBVIOUS
<1>2. /\ Said(File, T)' = Said(f, t)' /\ Lead(T)' = Lead(t)' /\ GoesOn(File, T)' = GoesOn(f, t)'
      /\ \A x : Char(File, T, x)' = Char(f, t, x)'
  BY <1>1 DEF Said, Lead, GoesOn, Char
<1>3. \A x : Heard(File, T, x)' = Heard(f, t, x)'
  BY <1>1, <1>2 DEF Heard
<1>4. \A k, x : Nth(File, T, k, x)' <=> Nth(f, t, k, x)'
  BY <1>3 DEF Nth
<1>5. Agrees(File, T)' <=> Agrees(f, t)'
  BY <1>1, <1>2, <1>4 DEF Agrees, Wanted
<1> QED BY <1>1, <1>2, <1>3, <1>4, <1>5, SaidKept, AgreesKept

LEMMA VerdictOf ==
  ASSUME NEW i, NEW j, NEW f, NEW t, names'[i] = f, Targets[j] = t
  PROVE  Verdict(names[i], Targets[j])' = Verdict(f, t)'
BY DEF Verdict, Agrees, Nth, Heard, Char, Said, Lead, GoesOn, Wanted

LEMMA CellKept ==
  ASSUME UNCHANGED <<source, emulator, test>>, refused > 0 => refused' > 0,
         NEW i, NEW j, names'[i] = names[i], results'[i][j] = results[i][j], Cell(i, j)
  PROVE  Cell(i, j)'
<1>1. PICK f, t : f = names[i] /\ t = Targets[j]
  OBVIOUS
<1>2. Verdict(f, t)' = Verdict(f, t)
  BY AgreesKept
<1>3. Cell(i, j)' <=> \/ results'[i][j] = Verdict(names[i], Targets[j])'
                      \/ refused' > 0 /\ results'[i][j] \in {"build_fail", "no_test"}
  BY DEF Cell
<1>4. Verdict(names[i], Targets[j])' = Verdict(f, t)'
  BY <1>1, VerdictOf
<1> QED BY <1>1, <1>2, <1>3, <1>4 DEF Cell

(* What the tests of other examples depend on.                               *)
LEMMA LeftKept ==
  ASSUME UNCHANGED source, NEW f, NEW n, test'[f] = test[f]
  PROVE  Left(f, n)' <=> Left(f, n)
BY DEF Left, BuiltLast, Written

(* The example at hand has not been met before.                              *)
LEMMA OtherEntries ==
  ASSUME BTypeOK, at <= Len(entries), NEW k \in 1 .. at - 1
  PROVE  entries[k] # File
BY BuildAssumption DEF BTypeOK, File

LEMMA EntriesTyped ==
  ASSUME BTypeOK
  PROVE  entries \in Seq(FileNames) /\ Len(entries) \in Nat /\ DOMAIN entries = 1 .. Len(entries)
BY BuildAssumption DEF BTypeOK

(* What the names stand for in a test.                                      *)
LEMMA TargetIsName == ASSUME BTypeOK PROVE T \in TargetNames
BY DEF BTypeOK, T, TargetNames, Targets

LEMMA TestingAt ==
  ASSUME BInv, pc \in Testing
  PROVE  /\ pc \in Looping /\ at <= Len(entries) /\ File \in Examples /\ T \in TargetNames
         /\ Program \in Behaviours /\ Program.prints[T] \in Seq(Characters)
<1>1. pc \in Looping /\ File \in Examples /\ T \in TargetNames /\ at <= Len(entries)
  BY TargetIsName DEF BInv, InPlace, Looping
<1>2. Program \in Behaviours
  BY <1>1 DEF BInv, BTypeOK, Program
<1> QED BY <1>1, <1>2 DEF Behaviours

(* The present row is one of the table.                                      *)
LEMMA RowIn ==
  ASSUME BInv, pc \in Testing \/ (pc \in Looping /\ at <= Len(entries))
  PROVE  row \in 1 .. Len(entries) /\ at \in 1 .. Len(entries)
<1>1. pc \in Looping /\ at <= Len(entries)
  BY TestingAt
<1> QED BY <1>1, EntriesTyped DEF BInv, BTypeOK, RowsRight

-----------------------------------------------------------------------------
(* The two ways a step of run_file() leaves the loops.                       *)
LEMMA GotoKeeps ==
  ASSUME BInv, NEW next, Goto(next), UNCHANGED fixed, refused > 0 => refused' > 0,
         pc \in Testing, T \in Program.builds,
         next \in Conversing \cup {"open_test", "crashed", "killed"},
         UNCHANGED test \/ options.gen_test,
         \A f \in Examples \ {File} : test'[f] = test[f],
         refused' = 0 => refused = 0,
         next = "pclose" /\ options.gen_test /\ refused' = 0 => test'[File] = Written(File, T)
  PROVE  /\ Tooled' /\ RowsRight' /\ InPlace' /\ CellsRight' /\ TestsRight'
         /\ pc' = next /\ File' = File /\ T' = T /\ Program' = Program
         /\ UNCHANGED <<entries, source, emulator, options, at, row, target, names, results>>
<1>1. UNCHANGED <<entries, source, emulator, tools, options, at, row, target, names, results>> /\ pc' = next
  BY DEF Goto, fixed, loop
<1>2. File' = File /\ T' = T /\ Program' = Program
  BY <1>1 DEF File, T, Program
<1>3. pc \in Looping
  BY DEF Looping
<1>4. pc' \notin {"next_entry", "table", "compile", "build_examples", "build_fishc"}
  BY <1>1 DEF Conversing
<1>5. Tooled'
  BY <1>1, <1>3, <1>4 DEF BInv, Tooled
<1>6. RowsRight'
  BY <1>1, <1>3 DEF BInv, RowsRight
<1>7. InPlace'
  BY <1>1, <1>2, <1>4 DEF BInv, InPlace
<1>8. CellsRight'
  <2>1. SUFFICES ASSUME ~options.gen_test, NEW i \in 1 .. Len(entries), NEW j \in 1 .. 4,
                        i < row \/ (i = row /\ j < target)
                 PROVE  Cell(i, j)'
    BY <1>1 DEF CellsRight
  <2>2. Cell(i, j)
    BY <1>3, <2>1 DEF BInv, CellsRight
  <2> QED BY <1>1, <2>1, <2>2, CellKept
<1>9. TestsRight'
  <2>1. SUFFICES ASSUME options.gen_test, refused' = 0
                 PROVE  /\ \A k \in 1 .. at - 1 : entries[k] \in Examples => Left(entries[k], 4)'
                        /\ pc' = "pclose" => test'[File'] = Written(File, T)'
    BY <1>1, <1>4 DEF TestsRight
  <2>2. ASSUME NEW k \in 1 .. at - 1, entries[k] \in Examples PROVE Left(entries[k], 4)'
    <3>1. Left(entries[k], 4)
      BY <1>3, <2>1, <2>2 DEF BInv, TestsRight
    <3>2. entries[k] # File
      BY <2>2, OtherEntries, TestingAt DEF BInv
    <3>3. test'[entries[k]] = test[entries[k]]
      BY <2>2, <3>2
    <3> QED BY <1>1, <3>1, <3>3 DEF Left, BuiltLast, Written
  <2>3. Written(File, T)' = Written(File, T)
    BY <1>1, <1>2 DEF Written
  <2> QED BY <1>1, <1>2, <2>1, <2>2, <2>3
<1> QED BY <1>1, <1>2, <1>5, <1>6, <1>7, <1>8, <1>9

LEMMA ReturnKeeps ==
  ASSUME BInv, NEW result \in Statuses, Return(result), UNCHANGED fixed, pc \in Testing,
         refused' \in Nat, refused > 0 => refused' > 0,
         test' \in [Examples -> Seq(Characters) \cup {Absent}],
         \A f \in Examples \ {File} : test'[f] = test[f],
         expected' \in Seq(Characters), status' \in Statuses,
         pipe' \in Seq(Characters), child' \in Children, child'.state = "none",
         ~options.gen_test =>
           /\ UNCHANGED test
           /\ result = Verdict(File, T) \/ (refused' > 0 /\ result \in {"build_fail", "no_test"}),
         options.gen_test /\ refused' = 0 => refused = 0 /\ \A f, n : f = File /\ n = target => Left(f, n)'
  PROVE  BInv'
<1>1. /\ UNCHANGED <<entries, source, emulator, tools, options, names>>
      /\ results' = [results EXCEPT ![row][target] = result]
  BY DEF Return, fixed
<1>2. /\ pc \in Looping /\ at <= Len(entries) /\ File \in Examples /\ T \in TargetNames
      /\ row \in 1 .. Len(entries) /\ at \in 1 .. Len(entries) /\ target \in 1 .. 4 /\ Len(entries) \in Nat
      /\ names[row] = File
  BY TestingAt, RowIn, EntriesTyped DEF BInv, BTypeOK, InPlace
<1>3. /\ names \in [1 .. Len(entries) -> FileNames \cup {NoName}]
      /\ results \in [1 .. Len(entries) -> [1 .. 4 -> Statuses]]
      /\ row <= at
      /\ \A i \in 1 .. Len(entries) : i > row => names[i] \notin Examples
      /\ \A k \in 1 .. at - 1 : entries[k] \in Examples => \E i \in 1 .. row - 1 : names[i] = entries[k]
      /\ \A i \in 1 .. row - 1 : \E k \in 1 .. at - 1 : names[i] = entries[k]
      /\ \A i, j \in 1 .. row - 1 : names[i] = names[j] => i = j
  BY <1>2 DEF BInv, RowsRight
<1>4. /\ results' \in [1 .. Len(entries) -> [1 .. 4 -> Statuses]]
      /\ results'[row][target] = result
      /\ \A i \in 1 .. Len(entries), j \in 1 .. 4 : ~(i = row /\ j = target) => results'[i][j] = results[i][j]
  BY <1>1, <1>2, <1>3
<1>5. ASSUME ~options.gen_test, NEW i \in 1 .. Len(entries), NEW j \in 1 .. 4,
             i < row \/ (i = row /\ j <= target)
      PROVE  Cell(i, j)'
  <2>1. CASE i = row /\ j = target
    <3>1. names[i] = File /\ Targets[j] = T /\ results'[i][j] = result
      BY <1>2, <1>4, <2>1 DEF T
    <3>2. PICK f, t : f = File /\ t = T
      OBVIOUS
    <3>3. names'[i] = f /\ Targets[j] = t
      BY <1>1, <3>1, <3>2
    <3>4. Verdict(names[i], Targets[j])' = Verdict(f, t)'
      BY <3>3, VerdictOf
    <3>5. test'[f] = test[f] /\ UNCHANGED <<source, emulator>>
      BY <1>1, <1>5
    <3>6. Verdict(f, t)' = Verdict(f, t)
      BY <3>5, AgreesKept
    <3>7. result = Verdict(f, t) \/ (refused' > 0 /\ result \in {"build_fail", "no_test"})
      BY <1>5, <3>2
    <3> QED BY <3>1, <3>4, <3>6, <3>7 DEF Cell
  <2>2. CASE ~(i = row /\ j = target)
    <3>1. i < row \/ (i = row /\ j < target)
      BY <1>2, <1>5, <2>2
    <3>2. Cell(i, j)
      BY <1>2, <1>5, <3>1 DEF BInv, CellsRight
    <3> QED BY <1>1, <1>4, <1>5, <2>2, <3>2, CellKept
  <2> QED BY <2>1, <2>2
<1>6. ASSUME options.gen_test, refused' = 0, NEW k \in 1 .. at - 1, entries[k] \in Examples
      PROVE  Left(entries[k], 4)'
  <2>1. Left(entries[k], 4)
    BY <1>2, <1>6 DEF BInv, TestsRight
  <2>2. PICK f : f = entries[k]
    OBVIOUS
  <2>3. test'[f] = test[f]
    BY <1>2, <1>6, <2>2, OtherEntries DEF BInv
  <2>4. Left(f, 4)'
    BY <1>1, <2>1, <2>2, <2>3, LeftKept
  <2> QED BY <1>1, <2>2, <2>4 DEF Left, BuiltLast, Written
<1>7. Len(Targets) = 4
  BY DEF Targets
<1>8. CASE target < 4
  <2>1. target' = target + 1 /\ pc' = "compile" /\ UNCHANGED <<at, row>>
    BY <1>7, <1>8 DEF Return
  <2>2. File' = File
    BY <1>1, <2>1 DEF File
  <2>3. BTypeOK'
    BY <1>1, <1>2, <2>1, <1>8 DEF BInv, BTypeOK
  <2>4. pc' \in Looping /\ pc' \in Testing /\ pc' \notin {"next_entry", "table", "build_fishc"} /\ pc' \notin Testing \ {"compile"}
    BY <2>1 DEF Looping, Testing, Conversing
  <2>5. Tooled' /\ RowsRight' /\ InPlace'
    BY <1>1, <1>2, <1>3, <1>4, <2>1, <2>2, <2>4 DEF BInv, Tooled, RowsRight, InPlace
  <2>6. CellsRight'
    BY <1>1, <1>2, <1>5, <2>1 DEF CellsRight
  <2>7. TestsRight'
    <3>1. SUFFICES ASSUME options.gen_test, refused' = 0
                   PROVE  /\ \A k \in 1 .. at - 1 : entries[k] \in Examples => Left(entries[k], 4)'
                          /\ Left(File, target - 1)'
      BY <1>1, <2>1 DEF TestsRight
    <3>2. PICK f, n : f = File /\ n = target
      OBVIOUS
    <3>3. Left(f, n)'
      BY <3>1, <3>2
    <3>4. target' - 1 = n /\ File' = f
      BY <1>2, <2>1, <2>2, <3>2
    <3>5. Left(File, target - 1)'
      BY <3>3, <3>4 DEF Left, BuiltLast, Written
    <3> QED BY <1>6, <3>1, <3>5
  <2>8. Conversation'
    BY <2>1 DEF Conversation, Conversing
  <2> QED BY <2>3, <2>5, <2>6, <2>7, <2>8 DEF BInv
<1>9. CASE target = 4
  <2>1. target' = 1 /\ pc' = "next_entry" /\ at' = at + 1 /\ row' = row + 1
    BY <1>7, <1>9 DEF Return
  <2>2. BTypeOK'
    BY <1>1, <1>2, <2>1 DEF BInv, BTypeOK
  <2>3. pc' \in Looping /\ pc' \notin Testing /\ pc' # "table" /\ pc' # "build_fishc"
    BY <2>1 DEF Looping, Testing, Conversing
  <2>4. \A k \in 1 .. at : entries[k] \in Examples => \E i \in 1 .. row : names[i] = entries[k]
    <3>1. SUFFICES ASSUME NEW k \in 1 .. at, entries[k] \in Examples
                   PROVE  \E i \in 1 .. row : names[i] = entries[k]
      OBVIOUS
    <3>2. CASE k = at
      BY <1>2, <3>2 DEF File
    <3>3. CASE k \in 1 .. at - 1
      <4>1. PICK i \in 1 .. row - 1 : names[i] = entries[k]
        BY <1>3, <3>1, <3>3
      <4>2. i \in 1 .. row
        BY <1>2, <4>1
      <4> QED BY <4>1, <4>2
    <3> QED BY <1>2, <3>2, <3>3
  <2>5. \A i \in 1 .. row : \E k \in 1 .. at : names[i] = entries[k]
    <3>1. SUFFICES ASSUME NEW i \in 1 .. row PROVE \E k \in 1 .. at : names[i] = entries[k]
      OBVIOUS
    <3>2. CASE i = row
      BY <1>2, <3>2 DEF File
    <3>3. CASE i \in 1 .. row - 1
      BY <1>2, <1>3, <3>3
    <3> QED BY <1>2, <3>2, <3>3
  <2>6. \A i \in 1 .. row - 1 : names[i] # names[row]
    <3>1. SUFFICES ASSUME NEW i \in 1 .. row - 1 PROVE names[i] # names[row]
      OBVIOUS
    <3>2. PICK k \in 1 .. at - 1 : names[i] = entries[k]
      BY <1>3
    <3>3. entries[k] # File
      BY <1>2, OtherEntries DEF BInv
    <3> QED BY <1>2, <3>2, <3>3
  <2>7. \A i, j \in 1 .. row : names[i] = names[j] => i = j
    BY <1>2, <1>3, <2>6
  <2>8. row' - 1 = row /\ at' - 1 = at /\ row' <= at' /\ at' <= Len(entries) + 1
    BY <1>2, <1>3, <2>1
  <2>9. RowsRight'
    <3>1. row' = row + 1 /\ row \in Nat
      BY <1>2, <2>1
    <3>2. \A i \in 1 .. Len(entries) : i > row' => i > row
      BY <3>1
    <3>3. \A i \in 1 .. Len(entries) : i > row' => names[i] \notin Examples
      BY <1>3, <3>2
    <3>4. \A k \in 1 .. at' - 1 : entries[k] \in Examples => \E i \in 1 .. row' - 1 : names[i] = entries[k]
      BY <2>4, <2>8
    <3>5. \A i \in 1 .. row' - 1 : \E k \in 1 .. at' - 1 : names[i] = entries[k]
      BY <2>5, <2>8
    <3>6. \A i, j \in 1 .. row' - 1 : names[i] = names[j] => i = j
      BY <2>7, <2>8
    <3>7. names' = names /\ entries' = entries
      BY <1>1
    <3>8. names' \in [1 .. Len(entries)' -> FileNames \cup {NoName}]
      BY <1>3, <3>7
    <3>9. results' \in [1 .. Len(entries)' -> [1 .. 4 -> Statuses]]
      BY <1>4, <3>7
    <3> QED BY <2>8, <3>3, <3>4, <3>5, <3>6, <3>7, <3>8, <3>9 DEF RowsRight
  <2>10. Tooled' /\ InPlace'
    <3>1. row' <= Len(entries) => names[row'] \notin Examples
      <4>1. row' = row + 1 /\ row \in Nat
        BY <1>2, <2>1
      <4>2. row' <= Len(entries) => row' \in 1 .. Len(entries) /\ row' > row
        BY <4>1
      <4> QED BY <1>3, <4>2
    <3>2. Tooled'
      BY <1>1, <1>2, <2>3 DEF BInv, Tooled
    <3> QED BY <1>1, <2>3, <3>1, <3>2 DEF InPlace
  <2>11. CellsRight'
    <3>1. SUFFICES ASSUME ~options.gen_test, NEW i \in 1 .. Len(entries), NEW j \in 1 .. 4, i < row'
                   PROVE  Cell(i, j)'
      BY <1>1, <2>3 DEF CellsRight
    <3>2. i < row \/ (i = row /\ j <= target)
      BY <1>2, <1>9, <2>1, <3>1
    <3> QED BY <1>5, <3>1, <3>2
  <2>12. TestsRight'
    <3>1. SUFFICES ASSUME options.gen_test, refused' = 0, NEW k \in 1 .. at, entries[k] \in Examples
                   PROVE  Left(entries[k], 4)'
      BY <1>1, <2>1, <2>8 DEF TestsRight
    <3>2. CASE k = at
      <4>1. PICK f : f = entries[k]
        OBVIOUS
      <4>2. Left(f, 4)'
        BY <1>9, <3>1, <3>2, <4>1 DEF File
      <4>3. entries'[k] = f
        BY <1>1, <4>1
      <4> QED BY <4>2, <4>3 DEF Left, BuiltLast, Written
    <3>3. CASE k \in 1 .. at - 1
      BY <1>6, <3>1, <3>3
    <3> QED BY <1>2, <3>2, <3>3
  <2>13. Conversation'
    BY <2>1 DEF Conversation, Conversing
  <2> QED BY <2>2, <2>9, <2>10, <2>11, <2>12, <2>13 DEF BInv
<1> QED BY <1>2, <1>8, <1>9

-----------------------------------------------------------------------------
(* Before and after the tests, nobody is at the other end of the pipe.       *)
LEMMA OutsideKeeps ==
  ASSUME BInv, BTypeOK', Tooled', UNCHANGED child,
         pc \notin Conversing \cup {"killed"}, pc' \notin Looping \cup {"killed"}
  PROVE  BInv'
<1>1. pc' \notin Testing /\ pc' \notin {"next_entry", "table"} /\ pc' \notin Conversing
  BY DEF Looping, Testing
<1>2. RowsRight' /\ InPlace' /\ CellsRight' /\ TestsRight'
  BY <1>1 DEF RowsRight, InPlace, CellsRight, TestsRight
<1>3. child'.state = "none"
  BY DEF BInv, Conversation
<1>4. Conversation'
  BY <1>1, <1>3 DEF Conversation, Conversing
<1> QED BY <1>2, <1>4 DEF BInv

LEMMA MainKeeps ==
  ASSUME BInv, Start \/ Edit \/ RebuildMyself \/ Options \/ CreateDirs \/ BuildGal \/ BuildCompiler
  PROVE  BInv'
<1>1. BTypeOK'
  <2>1. CASE Start
    BY <2>1 DEF Start, BInv, BTypeOK, disk, fixed, loop, io
  <2>2. CASE Edit
    BY <2>2, BuildAssumption DEF Edit, BInv, BTypeOK, loop, io
  <2>3. CASE Options \/ CreateDirs
    BY <2>3 DEF Options, CreateDirs, BInv, BTypeOK, disk, fixed, loop, io
  <2>4. CASE RebuildMyself \/ BuildGal \/ BuildCompiler
    BY <2>4 DEF RebuildMyself, BuildGal, BuildCompiler, Builds, BInv, BTypeOK, loop, io
  <2> QED BY <2>1, <2>2, <2>3, <2>4
<1>2. UNCHANGED child /\ pc \notin Conversing \cup {"killed"} /\ pc' \notin Looping \cup {"killed"}
  BY DEF Start, Edit, RebuildMyself, Options, CreateDirs, BuildGal, BuildCompiler, Builds,
         disk, io, Looping, Testing, Conversing
<1>3. Tooled'
  <2>1. CASE BuildGal \/ BuildCompiler
    BY <2>1 DEF BuildGal, BuildCompiler, Builds, BInv, Tooled, Looping, Testing, Conversing
  <2>2. CASE Start \/ Edit \/ RebuildMyself \/ Options \/ CreateDirs
    <3>1. pc' \notin Looping \cup {"build_examples", "build_fishc"}
      BY <2>2 DEF Start, Edit, RebuildMyself, Options, CreateDirs, Builds, Looping, Testing, Conversing
    <3> QED BY <3>1 DEF Tooled
  <2> QED BY <2>1, <2>2
<1> QED BY <1>1, <1>2, <1>3, OutsideKeeps

LEMMA OpenExamplesKeeps == ASSUME BInv, OpenExamples PROVE BInv'
<1>1. /\ pc = "build_examples" /\ at' = 1 /\ row' = 1 /\ target' = 1
      /\ names' = [i \in DOMAIN entries |-> NoName] /\ results' = [i \in DOMAIN entries |-> NoResult]
      /\ UNCHANGED <<entries, source, test, tools, emulator, refused, options, expected, status, child, pipe>>
      /\ pc' \in {"next_entry", "idle"}
  BY DEF OpenExamples, disk, fixed, io
<1>2. BTypeOK'
  BY <1>1 DEF BInv, BTypeOK
<1>3. Tooled'
  BY <1>1 DEF BInv, Tooled
<1>4. CASE pc' = "idle"
  BY <1>1, <1>2, <1>3, <1>4, OutsideKeeps DEF Looping, Testing, Conversing
<1>5. CASE pc' = "next_entry"
  <2>1. DOMAIN entries = 1 .. Len(entries) /\ Len(entries) \in Nat
    BY EntriesTyped DEF BInv
  <2>2. NoResult \in [1 .. 4 -> Statuses]
    <3>1. DOMAIN Targets = 1 .. 4
      BY DEF Targets
    <3> QED BY <3>1 DEF NoResult, Statuses
  <2>3. names' \in [1 .. Len(entries) -> FileNames \cup {NoName}] /\ \A i \in 1 .. Len(entries) : names'[i] \notin Examples
    BY <1>1, <2>1, BuildAssumption
  <2>4. results' \in [1 .. Len(entries) -> [1 .. 4 -> Statuses]]
    BY <1>1, <2>1, <2>2
  <2>5. RowsRight'
    BY <1>1, <2>1, <2>3, <2>4 DEF RowsRight
  <2>6. pc' \notin Testing /\ pc' # "table"
    BY <1>5 DEF Testing, Conversing
  <2>7. InPlace'
    BY <1>1, <2>1, <2>3, <2>6 DEF InPlace
  <2>8. CellsRight' /\ TestsRight'
    BY <1>1, <1>5, <2>1, <2>6 DEF CellsRight, TestsRight
  <2>9. child'.state = "none"
    BY <1>1 DEF BInv, Conversation, Conversing
  <2>10. Conversation'
    BY <1>5, <2>9 DEF Conversation, Conversing
  <2> QED BY <1>2, <1>3, <2>5, <2>7, <2>8, <2>10 DEF BInv
<1> QED BY <1>1, <1>4, <1>5

LEMMA NextEntryKeeps == ASSUME BInv, NextEntry PROVE BInv'
<1>1. /\ pc = "next_entry" /\ at <= Len(entries)
      /\ UNCHANGED <<entries, source, test, tools, emulator, refused, options, row, results>>
      /\ UNCHANGED <<expected, status, child, pipe>>
      /\ names' = [names EXCEPT ![row] = entries[at]]
  BY DEF NextEntry, disk, fixed, io
<1>2. /\ pc \in Looping /\ row \in 1 .. Len(entries) /\ at \in 1 .. Len(entries)
      /\ Len(entries) \in Nat /\ entries[at] \in FileNames
  BY <1>1, RowIn, EntriesTyped DEF Looping, BInv
<1>3. /\ names \in [1 .. Len(entries) -> FileNames \cup {NoName}]
      /\ results \in [1 .. Len(entries) -> [1 .. 4 -> Statuses]]
      /\ row <= at
      /\ \A i \in 1 .. Len(entries) : i > row => names[i] \notin Examples
      /\ \A k \in 1 .. at - 1 : entries[k] \in Examples => \E i \in 1 .. row - 1 : names[i] = entries[k]
      /\ \A i \in 1 .. row - 1 : \E k \in 1 .. at - 1 : names[i] = entries[k]
      /\ \A i, j \in 1 .. row - 1 : names[i] = names[j] => i = j
  BY <1>2 DEF BInv, RowsRight
<1>4. /\ names' \in [1 .. Len(entries) -> FileNames \cup {NoName}] /\ names'[row] = entries[at]
      /\ \A i \in 1 .. Len(entries) : i # row => names'[i] = names[i]
  BY <1>1, <1>2, <1>3
<1>5. \A i \in 1 .. row - 1 : names'[i] = names[i]
  BY <1>2, <1>4
<1>6. /\ \A i \in 1 .. Len(entries) : i > row => names'[i] \notin Examples
      /\ \A k \in 1 .. at - 1 : entries[k] \in Examples => \E i \in 1 .. row - 1 : names'[i] = entries[k]
      /\ \A i \in 1 .. row - 1 : \E k \in 1 .. at - 1 : names'[i] = entries[k]
      /\ \A i, j \in 1 .. row - 1 : names'[i] = names'[j] => i = j
  <2>1. \A i \in 1 .. Len(entries) : i > row => names'[i] \notin Examples
    BY <1>2, <1>3, <1>4
  <2> QED BY <1>3, <1>5, <2>1
<1>7. ASSUME ~options.gen_test, NEW i \in 1 .. Len(entries), NEW j \in 1 .. 4, i < row
      PROVE  Cell(i, j)'
  <2>1. Cell(i, j)
    BY <1>2, <1>7 DEF BInv, CellsRight
  <2>2. names'[i] = names[i]
    BY <1>2, <1>4, <1>7
  <2> QED BY <1>1, <2>1, <2>2, CellKept
<1>8. ASSUME options.gen_test, refused = 0, NEW k \in 1 .. at - 1, entries[k] \in Examples
      PROVE  Left(entries[k], 4)'
  <2>1. Left(entries[k], 4)
    BY <1>2, <1>8 DEF BInv, TestsRight
  <2> QED BY <1>1, <2>1 DEF Left, BuiltLast, Written
<1>9. child'.state = "none" /\ Tooled /\ {"gal", "fishc"} \subseteq tools'
  BY <1>1, <1>2 DEF BInv, Conversation, Conversing, Tooled
<1>10. CASE entries[at] \in Examples
  <2>1. target' = 1 /\ pc' = "compile" /\ at' = at
    BY <1>10 DEF NextEntry
  <2>2. BTypeOK'
    BY <1>1, <2>1 DEF BInv, BTypeOK
  <2>3. /\ pc' \in Testing /\ pc' \notin Testing \ {"compile"} /\ pc' \in Looping
        /\ pc' \notin {"next_entry", "table", "build_fishc"}
    BY <2>1 DEF Testing, Looping
  <2>4. File' = entries[at]
    BY <1>1, <2>1 DEF File
  <2>5. RowsRight' /\ InPlace' /\ Tooled'
    BY <1>1, <1>2, <1>3, <1>4, <1>6, <1>9, <1>10, <2>1, <2>3, <2>4 DEF RowsRight, InPlace, Tooled
  <2>6. CellsRight'
    BY <1>1, <1>7, <2>1 DEF CellsRight
  <2>7. TestsRight'
    BY <1>1, <1>8, <2>1 DEF TestsRight, Left
  <2>8. Conversation'
    BY <1>9, <2>1 DEF Conversation, Conversing
  <2> QED BY <2>2, <2>5, <2>6, <2>7, <2>8 DEF BInv
<1>11. CASE entries[at] \notin Examples
  <2>1. target' = target /\ pc' = "next_entry" /\ at' = at + 1
    BY <1>1, <1>11 DEF NextEntry
  <2>2. BTypeOK'
    BY <1>1, <1>2, <2>1 DEF BInv, BTypeOK
  <2>3. pc' \in Looping /\ pc' \notin Testing /\ pc' \notin {"table", "build_fishc"}
    BY <2>1 DEF Looping, Testing, Conversing
  <2>4. at' - 1 = at /\ row <= at' /\ at' <= Len(entries) + 1
    BY <1>2, <1>3, <2>1
  <2>5. \A k \in 1 .. at : entries[k] \in Examples => k \in 1 .. at - 1
    BY <1>2, <1>11
  <2>6. \A i \in 1 .. row - 1 : \E k \in 1 .. at : names'[i] = entries[k]
    <3>1. SUFFICES ASSUME NEW i \in 1 .. row - 1 PROVE \E k \in 1 .. at : names'[i] = entries[k]
      OBVIOUS
    <3>2. PICK k \in 1 .. at - 1 : names'[i] = entries[k]
      BY <1>6
    <3>3. k \in 1 .. at
      BY <1>2
    <3> QED BY <3>2, <3>3
  <2>7. RowsRight'
    BY <1>1, <1>3, <1>4, <1>6, <2>4, <2>5, <2>6 DEF RowsRight
  <2>8. InPlace' /\ Tooled'
    BY <1>1, <1>2, <1>4, <1>9, <1>11, <2>3 DEF InPlace, Tooled
  <2>9. CellsRight'
    BY <1>1, <1>7, <2>3 DEF CellsRight
  <2>10. TestsRight'
    BY <1>1, <1>8, <2>1, <2>4, <2>5 DEF TestsRight
  <2>11. Conversation'
    BY <1>9, <2>1 DEF Conversation, Conversing
  <2> QED BY <2>2, <2>7, <2>8, <2>9, <2>10, <2>11 DEF BInv
<1> QED BY <1>10, <1>11

LEMMA TableKeeps == ASSUME BInv, EndOfEntries \/ PrintTable PROVE BInv'
<1>1. /\ pc \in {"next_entry", "table"} /\ pc' \in {"table", "idle"}
      /\ UNCHANGED <<entries, source, test, tools, emulator, refused, options, at, row, target, names, results>>
      /\ UNCHANGED <<expected, status, child, pipe>>
      /\ pc' = "table" => pc = "next_entry" /\ ~options.gen_test /\ at > Len(entries)
  BY DEF EndOfEntries, PrintTable, disk, fixed, loop, io
<1>2. BTypeOK'
  BY <1>1 DEF BInv, BTypeOK
<1>3. pc \in Looping /\ pc' \notin Testing /\ pc \notin Testing
  BY <1>1 DEF Looping, Testing, Conversing
<1>4. Tooled'
  BY <1>1, <1>3 DEF BInv, Tooled
<1>5. CASE pc' = "idle"
  BY <1>1, <1>2, <1>4, <1>5, OutsideKeeps DEF Looping, Testing, Conversing
<1>6. CASE pc' = "table"
  <2>1. RowsRight'
    BY <1>1, <1>3 DEF BInv, RowsRight
  <2>2. at = Len(entries) + 1
    BY <1>1, <1>3, <1>6, EntriesTyped DEF BInv, BTypeOK, RowsRight
  <2>3. InPlace'
    BY <1>1, <1>3, <1>6, <2>2 DEF BInv, InPlace
  <2>4. CellsRight'
    <3>1. SUFFICES ASSUME ~options.gen_test, NEW i \in 1 .. Len(entries), NEW j \in 1 .. 4, i < row
                   PROVE  Cell(i, j)'
      BY <1>1, <1>3 DEF CellsRight
    <3>2. Cell(i, j)
      BY <1>3, <3>1 DEF BInv, CellsRight
    <3> QED BY <1>1, <3>2, CellKept
  <2>5. TestsRight'
    BY <1>1, <1>6 DEF TestsRight
  <2>6. Conversation'
    BY <1>1, <1>6 DEF BInv, Conversation, Conversing
  <2> QED BY <1>2, <1>4, <2>1, <2>3, <2>4, <2>5, <2>6 DEF BInv
<1> QED BY <1>1, <1>5, <1>6

-----------------------------------------------------------------------------
(* run_file().  Before and after the conversation.                           *)
LEMMA Alone ==
  ASSUME BInv, pc \in {"compile", "open_test"}
  PROVE  /\ pc \in Testing /\ pc \in Looping /\ child.state = "none"
         /\ (pc = "open_test" => T \in Program.builds)
BY DEF BInv, Conversation, InPlace, Conversing, Testing, Looping

LEMMA CompileKeeps == ASSUME BInv, Compile PROVE BInv'
<1>1. /\ pc = "compile" /\ pc \in Testing /\ pc \in Looping /\ child.state = "none"
      /\ UNCHANGED fixed /\ UNCHANGED test /\ UNCHANGED <<expected, status, child, pipe>>
  BY Alone DEF Compile, disk, io, NoIO
<1>2. /\ test \in [Examples -> Seq(Characters) \cup {Absent}] /\ refused \in Nat /\ target \in 1 .. 4
      /\ expected \in Seq(Characters) /\ status \in Statuses /\ pipe \in Seq(Characters) /\ child \in Children
  BY DEF BInv, BTypeOK
<1>3. CASE T \notin Program.builds /\ Return("build_fail") /\ UNCHANGED disk
  <2>1. refused' = refused
    BY <1>3 DEF disk
  <2>2. "build_fail" \in Statuses /\ "build_fail" = Verdict(File, T)
    BY <1>3 DEF Statuses, Verdict, Program
  <2>3. ASSUME options.gen_test, refused = 0, NEW f, NEW n, f = File, n = target
        PROVE  Left(f, n)'
    <3>1. Left(File, target - 1)
      BY <1>1, <2>3 DEF BInv, TestsRight
    <3>2. SUFFICES ASSUME NEW j \in 1 .. n, BuiltLast(f, j, n) PROVE test[f] = Written(f, Targets[j])
      BY <1>1 DEF Left, BuiltLast, Written, fixed
    <3>3. j # target
      BY <1>3, <2>3, <3>2 DEF BuiltLast, T, Program
    <3>4. j \in 1 .. target - 1 /\ BuiltLast(f, j, target - 1)
      BY <1>2, <2>3, <3>2, <3>3 DEF BuiltLast
    <3> QED BY <2>3, <3>1, <3>4 DEF Left
  <2> QED BY <1>1, <1>2, <1>3, <2>1, <2>2, <2>3, ReturnKeeps
<1>4. CASE Refusal /\ Return("build_fail")
  <2>1. refused' \in Nat /\ refused' > 0
    BY <1>2, <1>4 DEF Refusal
  <2> QED BY <1>1, <1>2, <1>4, <2>1, ReturnKeeps DEF Statuses
<1>5. CASE T \in Program.builds /\ Goto("open_test") /\ UNCHANGED disk
  <2>1. refused' = refused
    BY <1>5 DEF disk
  <2>2. /\ Tooled' /\ RowsRight' /\ InPlace' /\ CellsRight' /\ TestsRight' /\ pc' = "open_test"
        /\ UNCHANGED <<entries, source, emulator, options, at, row, target>>
    BY <1>1, <1>5, <2>1, GotoKeeps
  <2>3. BTypeOK'
    BY <1>1, <1>2, <2>1, <2>2 DEF BInv, BTypeOK
  <2>4. Conversation'
    BY <1>1, <2>2 DEF Conversation, Conversing
  <2> QED BY <2>2, <2>3, <2>4 DEF BInv
<1> QED BY <1>3, <1>4, <1>5 DEF Compile

(* The pipe or the process was refused: nothing more is said.                *)
LEMMA CrashKeeps ==
  ASSUME BInv, pc = "open_test", Goto("crashed"), Refusal, UNCHANGED fixed, UNCHANGED child,
         test' \in [Examples -> Seq(Characters) \cup {Absent}], UNCHANGED test \/ options.gen_test,
         \A f \in Examples \ {File} : test'[f] = test[f],
         expected' \in Seq(Characters), status' \in Statuses, pipe' \in Seq(Characters)
  PROVE  BInv'
<1>1. pc \in Testing /\ T \in Program.builds /\ child.state = "none"
  BY Alone
<1>2. refused' \in Nat /\ refused' > 0
  BY DEF Refusal, BInv, BTypeOK
<1>3. /\ Tooled' /\ RowsRight' /\ InPlace' /\ CellsRight' /\ TestsRight' /\ pc' = "crashed"
      /\ UNCHANGED <<entries, source, emulator, options, at, row, target>>
  BY <1>1, <1>2, GotoKeeps
<1>4. BTypeOK'
  BY <1>2, <1>3 DEF BInv, BTypeOK
<1>5. Conversation'
  BY <1>1, <1>3 DEF Conversation, Conversing
<1> QED BY <1>3, <1>4, <1>5 DEF BInv

(* A program that has just been started.                                     *)
LEMMA Started ==
  ASSUME BInv, pc = "open_test", T # "pdp8", child' = Running(Program.prints[T]), pipe' = <<>>,
         File' = File, T' = T, UNCHANGED <<source, emulator>>
  PROVE  /\ child' \in Children /\ child'.state # "none" /\ Stream(0)'
         /\ Lead(T)' = <<>> /\ Said(File, T)' \in Seq(Characters)
<1>1. /\ File \in Examples /\ T \in TargetNames /\ Program.prints[T] \in Seq(Characters)
  BY TestingAt, Alone
<1>2. child'.state = "running" /\ child'.read /\ child'.left = Program.prints[T] /\ child' \in Children
  BY <1>1 DEF Running, Children
<1>3. Said(File, T) = Program.prints[T] /\ Said(File, T)' = Program.prints[T]
  BY DEF Said, Program
<1>4. \A i \in DOMAIN child'.left : child'.left[i] = Char(File, T, 0 + 0 + i)'
  <2>1. SUFFICES ASSUME NEW i \in 1 .. Len(Program.prints[T])
                 PROVE  Program.prints[T][i] = Char(File, T, 0 + 0 + i)'
    BY <1>1, <1>2
  <2>2. 0 + 0 + i = i /\ ~(i > Len(Program.prints[T]))
    BY <1>1
  <2> QED BY <1>3, <2>2 DEF Char
<1>5. Out(0)' = Len(Program.prints[T]) /\ DOMAIN pipe' = {} /\ Len(pipe') = 0
  BY <1>1, <1>2 DEF Out
<1>6. Stream(0)'
  BY <1>2, <1>3, <1>4, <1>5 DEF Stream
<1> QED BY <1>1, <1>2, <1>3, <1>6 DEF Lead

LEMMA OpenForWritingKeeps == ASSUME BInv, OpenForWriting PROVE BInv'
<1>1. /\ pc = "open_test" /\ options.gen_test /\ UNCHANGED fixed
      /\ pc \in Testing /\ child.state = "none" /\ T \in Program.builds
      /\ File \in Examples
  BY Alone, TestingAt DEF OpenForWriting
<1>2. /\ test \in [Examples -> Seq(Characters) \cup {Absent}] /\ refused \in Nat /\ target \in 1 .. 4
      /\ expected \in Seq(Characters) /\ status \in Statuses /\ pipe \in Seq(Characters) /\ child \in Children
      /\ <<>> \in Seq(Characters)
  BY DEF BInv, BTypeOK
<1>3. CASE Refusal /\ Goto("crashed") /\ UNCHANGED <<test, io>>
  BY <1>1, <1>2, <1>3, CrashKeeps DEF io
<1>4. ASSUME test' = [test EXCEPT ![File] = <<>>]
      PROVE  /\ test' \in [Examples -> Seq(Characters) \cup {Absent}]
             /\ test'[File] = <<>> /\ \A f \in Examples \ {File} : test'[f] = test[f]
  BY <1>1, <1>2, <1>4
<1>5. CASE /\ test' = [test EXCEPT ![File] = <<>>] /\ expected' = <<>> /\ status' = "ok"
           /\ T = "pdp8" /\ Return("no_test") /\ UNCHANGED <<child, pipe, refused>>
  <2>1. ASSUME NEW f, NEW n, f = File, n = target PROVE Left(f, n)'
    <3>1. SUFFICES ASSUME NEW j \in 1 .. n, BuiltLast(f, j, n) PROVE test'[f] = Written(f, Targets[j])
      BY <1>1 DEF Left, BuiltLast, Written, fixed
    <3>2. j = n
      BY <1>1, <1>2, <2>1, <3>1 DEF BuiltLast, T, Program
    <3> QED BY <1>4, <1>5, <2>1, <3>2 DEF Written, T
  <2>2. "no_test" \in Statuses /\ "ok" \in Statuses
    BY DEF Statuses
  <2> QED BY <1>1, <1>2, <1>4, <1>5, <2>1, <2>2, ReturnKeeps
<1>6. CASE /\ test' = [test EXCEPT ![File] = <<>>] /\ expected' = <<>> /\ status' = "ok"
           /\ T # "pdp8" /\ Popen("copy")
  <2>1. CASE Goto("copy") /\ child' = Running(Program.prints[T]) /\ pipe' = <<>> /\ UNCHANGED refused
    <3>1. /\ Tooled' /\ RowsRight' /\ InPlace' /\ CellsRight' /\ TestsRight'
          /\ pc' = "copy" /\ File' = File /\ T' = T /\ Program' = Program
          /\ UNCHANGED <<entries, source, emulator, options, at, row, target>>
      BY <1>1, <1>2, <1>4, <1>6, <2>1, GotoKeeps DEF Conversing
    <3>2. child' \in Children /\ child'.state # "none" /\ Stream(0)'
      BY <1>1, <1>6, <2>1, <3>1, Started
    <3>3. BTypeOK'
      BY <1>2, <1>4, <1>6, <2>1, <3>1, <3>2 DEF BInv, BTypeOK, Statuses
    <3>4. Progress(0)'
      BY <1>6, <3>1, BuildAssumption DEF Progress, Copied
    <3>5. Conversation'
      BY <1>1, <1>6, <3>1, <3>2, <3>4 DEF Conversation, Conversing
    <3> QED BY <3>1, <3>3, <3>5 DEF BInv
  <2>2. CASE Refusal /\ Goto("crashed") /\ UNCHANGED <<child, pipe>>
    BY <1>1, <1>2, <1>4, <1>6, <2>2, CrashKeeps DEF Statuses
  <2> QED BY <1>6, <2>1, <2>2 DEF Popen
<1> QED BY <1>3, <1>5, <1>6 DEF OpenForWriting

(* Nothing has been compared.                                               *)
LEMMA NothingCompared ==
  ASSUME BTypeOK, File \in Examples, T \in TargetNames, test[File] \in Seq(Characters),
         UNCHANGED <<source, emulator, test>>, File' = File, T' = T, expected' = test[File],
         NEW c, c = Len(Lead(T))
  PROVE  Compared(c)'
<1>1. c \in Nat /\ Len(Said(File, T)) \in Nat /\ c <= Len(Said(File, T))
  BY SaidTyped
<1>2. Heard(File, T, c) = {}
  BY <1>1 DEF Heard
<1>3. Met' = 0
  BY DEF Met
<1>4. Cardinality(Heard(File, T, c)') = Met'
  BY <1>2, <1>3, SaidHere, FS_EmptySet
<1>5. \A i \in DOMAIN expected' : expected'[i] = test'[File'][Met' + i]
  BY <1>3
<1> QED BY <1>1, <1>3, <1>4, <1>5, SaidHere DEF Compared

LEMMA OpenForReadingKeeps == ASSUME BInv, OpenForReading PROVE BInv'
<1>1. /\ pc = "open_test" /\ ~options.gen_test /\ UNCHANGED fixed /\ UNCHANGED test
      /\ pc \in Testing /\ child.state = "none" /\ T \in Program.builds
      /\ File \in Examples /\ T \in TargetNames
  BY Alone, TestingAt DEF OpenForReading
<1>2. /\ test \in [Examples -> Seq(Characters) \cup {Absent}] /\ refused \in Nat
      /\ expected \in Seq(Characters) /\ status \in Statuses /\ pipe \in Seq(Characters) /\ child \in Children
      /\ <<>> \in Seq(Characters)
  BY DEF BInv, BTypeOK
<1>3. CASE test[File] = Absent /\ Return("no_test") /\ NoIO /\ UNCHANGED refused
  <2>1. Verdict(File, T) = "no_test" /\ "no_test" \in Statuses
    BY <1>1, <1>3 DEF Verdict, Program, Statuses
  <2> QED BY <1>1, <1>2, <1>3, <2>1, ReturnKeeps DEF NoIO, io
<1>4. ASSUME Refusal, NEW result \in {"no_test", "build_fail"}, Return(result), UNCHANGED <<child, pipe>>,
             expected' \in Seq(Characters), status' \in Statuses
      PROVE  BInv'
  <2>1. refused' \in Nat /\ refused' > 0 /\ result \in Statuses
    BY <1>2, <1>4 DEF Refusal, Statuses
  <2> QED BY <1>1, <1>2, <1>4, <2>1, ReturnKeeps
<1>5. CASE test[File] # Absent /\ Refusal /\ Return("no_test") /\ NoIO
  BY <1>2, <1>4, <1>5 DEF NoIO, io
<1>6. CASE /\ test[File] # Absent /\ expected' = test[File] /\ status' = "ok"
           /\ IF T = "pdp8" THEN Fork ELSE Popen("compare")
  <2>1. expected' \in Seq(Characters) /\ status' \in Statuses /\ test[File] \in Seq(Characters)
    BY <1>1, <1>2, <1>6 DEF Statuses
  <2>2. CASE Refusal /\ Return("build_fail") /\ UNCHANGED <<child, pipe>>
    BY <1>4, <2>1, <2>2
  <2>3. CASE Refusal /\ Goto("crashed") /\ UNCHANGED <<child, pipe>>
    BY <1>1, <1>2, <2>1, <2>3, CrashKeeps
  <2>4. CASE /\ T = "pdp8" /\ Goto("command") /\ pipe' = <<>> /\ UNCHANGED refused
             /\ child' = [NoChild EXCEPT !.state = "forked", !.read = TRUE]
    <3>1. /\ Tooled' /\ RowsRight' /\ InPlace' /\ CellsRight' /\ TestsRight'
          /\ pc' = "command" /\ File' = File /\ T' = T
          /\ UNCHANGED <<entries, source, emulator, options, at, row, target>>
      BY <1>1, <1>2, <2>4, GotoKeeps DEF Conversing
    <3>2. child' = [state |-> "forked", left |-> <<>>, read |-> TRUE]
      BY <2>4 DEF NoChild
    <3>3. child' \in Children /\ Stream(0)'
      <4>1. Len(pipe') = 0 /\ Len(child'.left) = 0 /\ DOMAIN pipe' = {} /\ DOMAIN child'.left = {}
        <5>1. pipe' = <<>>
          BY <2>4
        <5>3. child'.left = <<>>
          BY <3>2
        <5>2. Len(<<>>) = 0 /\ DOMAIN <<>> = {}
          OBVIOUS
        <5> QED BY <5>1, <5>2, <5>3, Zenon
      <4>2. child'.state = "forked" /\ child'.read /\ child' \in Children
        BY <1>2, <3>2 DEF Children
      <4> QED BY <2>4, <3>1, <4>1, <4>2 DEF Stream, Out
    <3>4. BTypeOK'
      BY <1>1, <1>2, <2>1, <2>4, <3>1, <3>3 DEF BInv, BTypeOK
    <3>5. Progress(0)'
      BY <1>1, <1>6, <3>1 DEF Progress, Greeted
    <3>6. Conversation'
      BY <1>1, <1>6, <2>4, <3>1, <3>3, <3>5 DEF Conversation, Conversing
    <3> QED BY <3>1, <3>4, <3>6 DEF BInv
  <2>5. CASE /\ T # "pdp8" /\ Goto("compare") /\ UNCHANGED refused
             /\ child' = Running(Program.prints[T]) /\ pipe' = <<>>
    <3>1. /\ Tooled' /\ RowsRight' /\ InPlace' /\ CellsRight' /\ TestsRight'
          /\ pc' = "compare" /\ File' = File /\ T' = T
          /\ UNCHANGED <<entries, source, emulator, options, at, row, target>>
      BY <1>1, <1>2, <2>5, GotoKeeps DEF Conversing
    <3>2. child' \in Children /\ child'.state # "none" /\ Stream(0)' /\ Lead(T)' = <<>>
      BY <1>1, <2>5, <3>1, Started
    <3>3. BTypeOK'
      BY <1>1, <1>2, <2>1, <2>5, <3>1, <3>2 DEF BInv, BTypeOK
    <3>4. Len(Lead(T)) = 0
      BY <2>5 DEF Lead
    <3>5. Compared(0)'
      BY <1>1, <1>6, <2>1, <3>1, <3>4, NothingCompared DEF BInv
    <3>6. Progress(0)'
      BY <3>1, <3>5 DEF Progress
    <3>7. Conversation'
      BY <1>1, <1>6, <2>5, <3>1, <3>2, <3>6 DEF Conversation, Conversing
    <3> QED BY <3>1, <3>3, <3>7 DEF BInv
  <2> QED BY <1>6, <2>2, <2>3, <2>4, <2>5 DEF Fork, Popen
<1> QED BY <1>3, <1>5, <1>6 DEF OpenForReading

-----------------------------------------------------------------------------
(* The conversation.                                                        *)
LEMMA ConversingAt ==
  ASSUME BInv, pc \in Conversing
  PROVE  /\ pc \in Testing /\ T \in Program.builds /\ File \in Examples /\ T \in TargetNames
         /\ Program.prints[T] \in Seq(Characters)
<1>1. pc \in Testing \ {"compile"}
  BY DEF Testing, Conversing
<1> QED BY <1>1, TestingAt DEF BInv, InPlace

(* A step of the driver that goes on with the conversation.                  *)
LEMMA TalkKeeps ==
  ASSUME BInv, pc \in Conversing, NEW next \in Conversing \ {"pclose"}, Goto(next),
         UNCHANGED <<fixed, test, refused, status, child>>,
         expected' \in Seq(Characters), pipe' \in Seq(Characters),
         \/ pc = next
         \/ pc \in {"command", "banner", "banner_2"} /\ next \in {"command", "banner", "banner_2", "compare"},
         NEW c \in Nat, Stream(c)', Progress(c)'
  PROVE  BInv'
<1>1. pc \in Testing /\ T \in Program.builds
  BY ConversingAt
<1>2. /\ Tooled' /\ RowsRight' /\ InPlace' /\ CellsRight' /\ TestsRight'
      /\ pc' = next /\ File' = File /\ T' = T
      /\ UNCHANGED <<entries, source, emulator, options, at, row, target>>
  BY <1>1, GotoKeeps
<1>3. BTypeOK'
  BY <1>2 DEF BInv, BTypeOK
<1>4. next # "killed"
  BY DEF Conversing
<1>5. Conversation'
  BY <1>2, <1>4 DEF BInv, Conversation
<1> QED BY <1>2, <1>3, <1>5 DEF BInv

LEMMA CommandKeeps == ASSUME BInv, Command PROVE BInv'
<1>1. /\ pc = "command" /\ pc \in Conversing /\ UNCHANGED <<fixed, test, refused, expected, status, child, pipe>>
  BY DEF Command, disk, NoIO, io, Conversing
<1>2. PICK c \in Nat : Stream(c) /\ Progress(c)
  BY <1>1 DEF BInv, Conversation, Conversing
<1>3. c = 0 /\ expected = test[File]
  BY <1>1, <1>2 DEF Progress, Greeted
<1>4. UNCHANGED <<source, emulator>>
  BY <1>1 DEF fixed
<1>5. CASE Goto("banner")
  <2>1. File' = File /\ T' = T /\ pc' = "banner"
    BY <1>1, <1>5 DEF Goto, fixed, loop, File, T
  <2>2. Stream(c)'
    BY <1>1, <1>2, <1>4, <2>1, SaidHere DEF Stream, Out
  <2>3. Len(Lead(T)') \in Nat
    BY <1>1, <1>4, <2>1, SaidHere, SaidTyped, ConversingAt DEF BInv
  <2>4. Progress(c)'
    BY <1>1, <1>3, <2>1, <2>3 DEF Progress, Greeted
  <2> QED BY <1>1, <1>5, <2>2, <2>4, TalkKeeps DEF BInv, BTypeOK, Conversing
<1>6. CASE Goto("killed") /\ child.state = "ended"
  <2>1. /\ Tooled' /\ RowsRight' /\ InPlace' /\ CellsRight' /\ TestsRight'
        /\ pc' = "killed" /\ UNCHANGED <<entries, source, emulator, options, at, row, target>>
    BY <1>1, <1>6, ConversingAt, GotoKeeps
  <2>2. BTypeOK'
    BY <1>1, <2>1 DEF BInv, BTypeOK
  <2>3. Conversation'
    BY <1>1, <1>6, <2>1 DEF Conversation, Conversing
  <2> QED BY <2>1, <2>2, <2>3 DEF BInv
<1> QED BY <1>5, <1>6 DEF Command

(* The driver takes the next character.                                      *)
LEMMA ReadStep ==
  ASSUME BInv, pc \in Conversing, Read, UNCHANGED <<source, emulator>>, File' = File, T' = T,
         NEW c \in Nat, Stream(c)
  PROVE  /\ pipe # <<>> /\ pipe' \in Seq(Characters) /\ UNCHANGED child
         /\ Head(pipe) = Char(File, T, c + 1) /\ Head(pipe) \in Characters
         /\ c + 1 <= Len(Said(File, T)) \/ GoesOn(File, T)
         /\ child.state \notin {"forked"}
         /\ Stream(c + 1)'
<1>1. /\ pipe \in Seq(Characters) /\ child.left \in Seq(Characters)
  BY DEF BInv, BTypeOK, Children
<1>2. pipe # <<>> /\ pipe' = Tail(pipe) /\ UNCHANGED child
  BY DEF Read
<1>3. /\ Len(pipe) >= 1 /\ Head(pipe) = pipe[1] /\ Head(pipe) \in Characters /\ pipe' \in Seq(Characters)
      /\ Len(pipe') = Len(pipe) - 1 /\ \A i \in 1 .. Len(pipe) - 1 : pipe'[i] = pipe[i + 1]
      /\ Len(pipe) \in Nat /\ Len(child.left) \in Nat
      /\ DOMAIN pipe = 1 .. Len(pipe) /\ DOMAIN pipe' = 1 .. Len(pipe) - 1
  BY <1>1, <1>2
<1>4. Head(pipe) = Char(File, T, c + 1)
  BY <1>1, <1>3 DEF Stream
<1>5. Out(c + 1)' = Out(c) /\ c + 1 <= Out(c)
  <2>1. Out(c + 1)' = (c + 1) + Len(pipe') + Len(child.left)
    BY <1>2 DEF Out
  <2>2. Out(c) = c + Len(pipe) + Len(child.left)
    BY DEF Out
  <2>3. PICK p \in Nat, l \in Nat : p = Len(pipe) /\ l = Len(child.left)
    BY <1>3
  <2>4. p >= 1 /\ Len(pipe') = p - 1
    BY <1>3, <2>3
  <2>5. Out(c + 1)' = (c + 1) + (p - 1) + l /\ Out(c) = c + p + l
    BY <2>1, <2>2, <2>3, <2>4
  <2> QED BY <2>4, <2>5
<1>6. \A i \in DOMAIN pipe' : pipe'[i] = Char(File, T, (c + 1) + i)
  <2>1. SUFFICES ASSUME NEW i \in 1 .. Len(pipe) - 1 PROVE pipe'[i] = Char(File, T, (c + 1) + i)
    BY <1>3
  <2>2. i + 1 \in DOMAIN pipe /\ c + (i + 1) = (c + 1) + i
    BY <1>3
  <2>3. pipe[i + 1] = Char(File, T, c + (i + 1))
    BY <2>2 DEF Stream
  <2> QED BY <1>3, <2>2, <2>3
<1>7. \A i \in DOMAIN child'.left : child'.left[i] = Char(File, T, (c + 1) + Len(pipe') + i)
  <2>1. SUFFICES ASSUME NEW i \in DOMAIN child.left PROVE child.left[i] = Char(File, T, (c + 1) + Len(pipe') + i)
    BY <1>2
  <2>2. (c + 1) + Len(pipe') + i = c + Len(pipe) + i
    BY <1>1, <1>3
  <2> QED BY <2>2 DEF Stream
<1>8. Stream(c + 1)'
  BY <1>2, <1>5, <1>6, <1>7, SaidHere DEF Stream
<1>10. /\ Len(Said(File, T)) \in Nat /\ Len(Banner) \in Nat
       /\ T = "pdp8" /\ emulator => Len(Banner) <= Len(Said(File, T))
  <2>1. Len(Said(File, T)) \in Nat /\ Len(Lead(T)) <= Len(Said(File, T))
    BY ConversingAt, SaidTyped DEF BInv
  <2> QED BY <2>1, BuildAssumption DEF Lead
<1>11. c + 1 <= Len(Said(File, T)) \/ GoesOn(File, T)
  <2>1. child.state \in {"forked", "waiting", "running", "ended"}
    BY DEF BInv, BTypeOK, Children, Stream
  <2>2. CASE child.state = "forked"
    BY <1>5, <2>2 DEF Stream
  <2>3. CASE child.state = "waiting"
    BY <1>5, <1>10, <2>3 DEF Stream
  <2>4. CASE child.state \in {"running", "ended"}
    BY <1>5, <1>10, <2>4 DEF Stream
  <2> QED BY <2>1, <2>2, <2>3, <2>4
<1>12. child.state # "forked"
  BY <1>5 DEF Stream
<1> QED BY <1>2, <1>3, <1>4, <1>8, <1>11, <1>12

LEMMA SkipBannerKeeps == ASSUME BInv, SkipBanner PROVE BInv'
<1>1. /\ pc \in {"banner", "banner_2"} /\ pc \in Conversing /\ T = "pdp8"
      /\ UNCHANGED <<fixed, test, refused, expected, status, source, emulator>>
  BY DEF SkipBanner, disk, fixed, Conversing, BInv, Conversation
<1>2. PICK c \in Nat : Stream(c) /\ Progress(c)
  BY <1>1 DEF BInv, Conversation, Conversing
<1>3. Greeted(c) /\ expected = test[File] /\ test[File] \in Seq(Characters) /\ expected' \in Seq(Characters)
  BY <1>1, <1>2 DEF Progress, BInv, BTypeOK
<1>4. /\ File \in Examples /\ T \in TargetNames
      /\ Said(File, T) \in Seq(Characters) /\ Lead(T) \in Seq(Characters)
      /\ Len(Said(File, T)) \in Nat /\ Len(Lead(T)) \in Nat /\ Len(Lead(T)) <= Len(Said(File, T))
      /\ \A i \in 1 .. Len(Lead(T)) : Said(File, T)[i] = Lead(T)[i]
  <2>1. File \in Examples /\ T \in TargetNames
    BY <1>1, ConversingAt
  <2>2. /\ Said(File, T) \in Seq(Characters) /\ Lead(T) \in Seq(Characters)
        /\ Len(Lead(T)) <= Len(Said(File, T))
        /\ \A i \in 1 .. Len(Lead(T)) : Said(File, T)[i] = Lead(T)[i]
    BY <2>1, SaidTyped DEF BInv
  <2> QED BY <2>1, <2>2
<1>5. PICK next \in {"banner", "banner_2", "compare"} : Goto(next)
  BY <1>1 DEF SkipBanner
<1>6. File' = File /\ T' = T /\ pc' = next
  BY <1>1, <1>5 DEF Goto, fixed, loop, File, T
<1>7. CASE EndOfFile /\ Goto("compare") /\ UNCHANGED <<child, pipe>>
  <2>1. Stream(c)' /\ pc' = "compare"
    BY <1>1, <1>2, <1>6, <1>7, SaidHere DEF Stream, Out, Goto
  <2>2. Len(<<>>) = 0
    OBVIOUS
  <2>3. Len(pipe) = 0 /\ Len(child.left) = 0 /\ Out(c) = Len(Said(File, T))
    BY <1>2, <1>7, <2>2 DEF EndOfFile, Stream
  <2>4. c = Len(Said(File, T))
    BY <2>3 DEF Out
  <2>5. c = Len(Lead(T))
    BY <1>1, <1>3, <1>4, <2>4 DEF Greeted
  <2>6. Compared(c)'
    BY <1>1, <1>3, <1>4, <1>6, <2>5, NothingCompared DEF BInv
  <2>7. Progress(c)'
    BY <2>1, <2>6 DEF Progress
  <2>8. pipe' \in Seq(Characters) /\ UNCHANGED child
    BY <1>7 DEF BInv, BTypeOK
  <2> QED BY <1>1, <1>3, <1>7, <2>1, <2>7, <2>8, TalkKeeps DEF Conversing
<1>8. CASE Read
  <2>1. /\ pipe' \in Seq(Characters) /\ UNCHANGED child /\ Head(pipe) = Char(File, T, c + 1)
        /\ c + 1 <= Len(Said(File, T)) \/ GoesOn(File, T)
        /\ Stream(c + 1)'
    BY <1>1, <1>2, <1>6, <1>8, ReadStep
  <2>2. emulator
    <3>1. SUFFICES ASSUME ~emulator PROVE FALSE
      OBVIOUS
    <3>2. Said(File, T) = <<>> /\ ~GoesOn(File, T)
      BY <1>1, <3>1 DEF Said, GoesOn
    <3>3. Len(<<>>) = 0
      OBVIOUS
    <3> QED BY <2>1, <3>2, <3>3
  <2>3. Lead(T) = Banner
    BY <1>1, <2>2 DEF Lead
  <2>4. PICK first \in 1 .. Len(Banner) - 1 : \A i \in 1 .. Len(Banner) : Banner[i] = "nl" <=> i \in {first, Len(Banner)}
    BY BuildAssumption DEF TwoLines
  <2>5. Len(Banner) \in Nat /\ Len(Banner) >= 2
    BY <1>4, <2>3, <2>4
  <2>6. c < Len(Banner)
    BY <1>1, <1>3, <2>3, <2>4, <2>5 DEF Greeted
  <2>7. Head(pipe) = Banner[c + 1]
    BY <1>4, <2>1, <2>3, <2>6 DEF Char
  <2>8. next = IF Head(pipe) # "nl" THEN pc ELSE IF pc = "banner" THEN "banner_2" ELSE "compare"
    BY <1>1, <1>6, <1>8 DEF SkipBanner, Goto, Read, EndOfFile
  <2>9. Lead(T)' = Banner
    BY <1>1, <1>6, <2>3, SaidHere
  <2>10. CASE Head(pipe) # "nl"
    <3>1. c + 1 # first /\ c + 1 < Len(Banner)
      BY <2>4, <2>5, <2>6, <2>7, <2>10
    <3>2. next = pc /\ pc' = pc
      BY <1>6, <2>8, <2>10
    <3>3. Greeted(c + 1)'
      <4>1. CASE pc = "banner"
        <5>1. \A i \in 1 .. c : Banner[i] # "nl"
          BY <1>3, <2>3, <4>1 DEF Greeted
        <5>2. \A i \in 1 .. c + 1 : i \in 1 .. c \/ i = c + 1
          OBVIOUS
        <5>3. Banner[c + 1] # "nl"
          BY <2>7, <2>10
        <5>4. \A i \in 1 .. c + 1 : Banner[i] # "nl"
          BY <5>1, <5>2, <5>3
        <5> QED BY <2>9, <3>1, <3>2, <4>1, <5>4 DEF Greeted
      <4>2. CASE pc = "banner_2"
        <5>1. \E i \in 1 .. c + 1 : Banner[i] = "nl"
          BY <1>3, <2>3, <4>2 DEF Greeted
        <5> QED BY <2>9, <3>1, <3>2, <4>2, <5>1 DEF Greeted
      <4> QED BY <1>1, <4>1, <4>2
    <3>4. Progress(c + 1)'
      BY <1>1, <1>3, <1>6, <3>2, <3>3 DEF Progress
    <3> QED BY <1>1, <1>3, <1>5, <2>1, <3>2, <3>4, TalkKeeps DEF Conversing
  <2>11. CASE Head(pipe) = "nl" /\ pc = "banner"
    <3>1. \A i \in 1 .. c : Banner[i] # "nl"
      BY <1>3, <2>3, <2>11 DEF Greeted
    <3>2. c + 1 = first
      <4>1. Banner[c + 1] = "nl" /\ c + 1 \in 1 .. Len(Banner)
        BY <2>5, <2>6, <2>7, <2>11
      <4>2. c + 1 \in {first, Len(Banner)}
        BY <2>4, <4>1
      <4>3. first \in 1 .. Len(Banner) /\ first < Len(Banner)
        BY <2>5
      <4>4. Banner[first] = "nl"
        BY <2>4, <4>3
      <4>5. ~(first \in 1 .. c)
        BY <3>1, <4>4
      <4>6. c + 1 = Len(Banner) => first \in 1 .. c
        BY <2>5, <4>3
      <4> QED BY <4>2, <4>5, <4>6
    <3>3. next = "banner_2" /\ pc' = "banner_2"
      BY <1>6, <2>8, <2>11
    <3>4. Greeted(c + 1)'
      BY <2>4, <2>5, <2>7, <2>9, <2>11, <3>2, <3>3 DEF Greeted
    <3>5. Progress(c + 1)'
      BY <1>1, <1>3, <1>6, <3>3, <3>4 DEF Progress
    <3> QED BY <1>1, <1>3, <1>5, <2>1, <3>3, <3>5, TalkKeeps DEF Conversing
  <2>12. CASE Head(pipe) = "nl" /\ pc = "banner_2"
    <3>1. PICK i \in 1 .. c : Banner[i] = "nl"
      BY <1>3, <2>3, <2>12 DEF Greeted
    <3>2. i = first /\ c + 1 = Len(Banner)
      <4>1. Banner[c + 1] = "nl" /\ c + 1 \in 1 .. Len(Banner)
        BY <2>5, <2>6, <2>7, <2>12
      <4>2. i \in 1 .. Len(Banner) /\ i < c + 1 /\ i # Len(Banner)
        BY <2>5, <2>6
      <4>3. i \in {first, Len(Banner)} /\ c + 1 \in {first, Len(Banner)}
        BY <2>4, <3>1, <4>1, <4>2
      <4>4. i = first
        BY <4>2, <4>3
      <4>5. c + 1 # first
        BY <4>2, <4>4
      <4> QED BY <4>3, <4>4, <4>5
    <3>3. next = "compare" /\ pc' = "compare"
      BY <1>6, <2>8, <2>12
    <3>4. Compared(c + 1)'
      BY <1>1, <1>3, <1>4, <1>6, <2>3, <3>2, NothingCompared DEF BInv
    <3>5. Progress(c + 1)'
      BY <3>3, <3>4 DEF Progress
    <3> QED BY <1>1, <1>3, <1>5, <2>1, <3>3, <3>5, TalkKeeps DEF Conversing
  <2> QED BY <1>1, <2>10, <2>11, <2>12
<1> QED BY <1>7, <1>8 DEF SkipBanner

(* A verdict ends the conversation, or leaves the driver to wait.            *)
LEMMA CloseKeeps ==
  ASSUME BInv, NEW verdict \in {"ok", "wrong_output"}, CloseWith(verdict), pc \in {"compare", "copy"},
         UNCHANGED <<fixed, refused>>,
         test' \in [Examples -> Seq(Characters) \cup {Absent}],
         \A f \in Examples \ {File} : test'[f] = test[f],
         expected' \in Seq(Characters),
         pc = "compare" => UNCHANGED test /\ verdict = IF Agrees(File, T) THEN "ok" ELSE "wrong_output",
         pc = "copy" => test'[File] = Written(File, T)
  PROVE  BInv'
<1>1. /\ pc \in Conversing /\ pc \in Testing /\ T \in Program.builds /\ File \in Examples /\ T \in TargetNames
      /\ refused \in Nat /\ verdict \in Statuses
  BY ConversingAt DEF Conversing, BInv, BTypeOK, Statuses
<1>2. /\ pc = "copy" => options.gen_test /\ T # "pdp8"
      /\ pc = "compare" => ~options.gen_test /\ test[File] # Absent
  BY DEF BInv, Conversation
<1>3. CASE T = "pdp8"
  <2>1. child' = NoChild /\ pipe' = <<>> /\ Return(verdict) /\ UNCHANGED status
    BY <1>3 DEF CloseWith
  <2>2. child' \in Children /\ child'.state = "none" /\ pipe' \in Seq(Characters) /\ status' \in Statuses
    BY <2>1 DEF NoChild, Children, BInv, BTypeOK
  <2>3. pc = "compare" /\ ~options.gen_test /\ UNCHANGED test /\ verdict = Verdict(File, T)
    BY <1>1, <1>2, <1>3 DEF Verdict, Program
  <2> QED BY <1>1, <2>1, <2>2, <2>3, ReturnKeeps
<1>4. CASE T # "pdp8"
  <2>1. /\ child' = [child EXCEPT !.read = FALSE] /\ pipe' = <<>>
        /\ status' = verdict /\ Goto("pclose")
    BY <1>4 DEF CloseWith
  <2>2. UNCHANGED test \/ options.gen_test
    BY <1>2
  <2>3. /\ Tooled' /\ RowsRight' /\ InPlace' /\ CellsRight' /\ TestsRight'
        /\ pc' = "pclose" /\ File' = File /\ T' = T
        /\ UNCHANGED <<entries, source, emulator, options, at, row, target>>
    BY <1>1, <1>2, <2>1, <2>2, GotoKeeps DEF Conversing
  <2>4. child' \in Children /\ pipe' \in Seq(Characters)
    <3>1. child \in Children
      BY DEF BInv, BTypeOK
    <3>2. child' \in Children
      BY <2>1, <3>1 DEF Children
    <3> QED BY <2>1, <3>2
  <2>5. BTypeOK'
    BY <1>1, <2>1, <2>3, <2>4 DEF BInv, BTypeOK
  <2>6. ~options.gen_test => test'[File] # Absent /\ verdict = IF Agrees(File, T)' THEN "ok" ELSE "wrong_output"
    BY <1>2, <2>3, SaidHere
  <2>7. Conversation'
    BY <1>4, <2>1, <2>3, <2>6 DEF Conversation, Conversing
  <2> QED BY <2>3, <2>5, <2>7 DEF BInv
<1> QED BY <1>3, <1>4

LEMMA WaitKeeps == ASSUME BInv, Wait PROVE BInv'
<1>1. /\ pc = "pclose" /\ pc \in Conversing /\ pc \in Testing /\ Return(status) /\ child' = NoChild
      /\ UNCHANGED fixed /\ UNCHANGED <<test, refused, expected, status, pipe>>
  BY DEF Wait, disk, Testing, Conversing
<1>2. /\ child' \in Children /\ child'.state = "none" /\ refused \in Nat /\ target \in 1 .. 4
      /\ status \in Statuses /\ expected \in Seq(Characters) /\ pipe \in Seq(Characters)
      /\ test \in [Examples -> Seq(Characters) \cup {Absent}]
  BY <1>1 DEF NoChild, Children, BInv, BTypeOK
<1>3. T \in Program.builds /\ pc \in Looping
  BY <1>1, ConversingAt DEF Looping
<1>4. ~options.gen_test => status = Verdict(File, T)
  BY <1>1, <1>3 DEF BInv, Conversation, Verdict, Program
<1>5. ASSUME options.gen_test, refused = 0, NEW f, NEW n, f = File, n = target PROVE Left(f, n)'
  <2>1. test[File] = Written(File, T)
    BY <1>1, <1>3, <1>5 DEF BInv, TestsRight
  <2>2. SUFFICES ASSUME NEW j \in 1 .. n, BuiltLast(f, j, n) PROVE test[f] = Written(f, Targets[j])
    BY <1>1 DEF Left, BuiltLast, Written, fixed
  <2>3. j = n
    BY <1>2, <1>3, <1>5, <2>2 DEF BuiltLast, T, Program
  <2> QED BY <1>5, <2>1, <2>3 DEF T
<1> QED BY <1>1, <1>2, <1>4, <1>5, ReturnKeeps

(* One character more: both where it counts and where it is passed over.      *)
LEMMA ComparingStep ==
  ASSUME BInv, pc = "compare", Read, Goto("compare"), UNCHANGED <<fixed, test, refused, status>>,
         expected # <<>>,
         \/ AtReturn /\ expected' = expected
         \/ ~AtReturn /\ Same(Head(expected), Head(pipe)) /\ expected' = Tail(expected)
  PROVE  BInv'
<1>1. /\ pc \in Conversing /\ UNCHANGED <<source, emulator>> /\ File' = File /\ T' = T /\ pc' = "compare"
      /\ File \in Examples /\ T \in TargetNames
  BY ConversingAt DEF Goto, fixed, loop, File, T, Conversing
<1>2. PICK c \in Nat : Stream(c) /\ Compared(c)
  BY <1>1 DEF BInv, Conversation, Progress, Conversing
<1>3. /\ pipe # <<>> /\ pipe' \in Seq(Characters) /\ UNCHANGED child /\ Head(pipe) = Char(File, T, c + 1)
      /\ c + 1 <= Len(Said(File, T)) \/ GoesOn(File, T)
      /\ Stream(c + 1)'
  BY <1>1, <1>2, ReadStep
<1>4. /\ expected \in Seq(Characters) /\ test[File] \in Seq(Characters)
      /\ Len(Said(File, T)) \in Nat /\ Len(Lead(T)) \in Nat
  <2>1. test[File] # Absent
    BY DEF BInv, Conversation
  <2>2. expected \in Seq(Characters) /\ test[File] \in Seq(Characters)
    BY <1>1, <2>1 DEF BInv, BTypeOK
  <2>3. Said(File, T) \in Seq(Characters) /\ Lead(T) \in Seq(Characters)
    BY <1>1, SaidTyped DEF BInv
  <2> QED BY <2>2, <2>3
<1>5. Met \in Nat /\ Met < Len(test[File]) /\ Len(expected) >= 1 /\ Head(expected) = test[File][Met + 1]
  <2>1. Met \in Nat
    <3>1. PICK m, n \in Nat : m = Len(test[File]) /\ n = Len(expected)
      BY <1>4, LenProperties
    <3>2. Met = m - n /\ Met >= 0
      BY <1>2, <3>1 DEF Compared, Met
    <3> QED BY <3>2
  <2>2. expected[1] = Head(expected) /\ 1 \in DOMAIN expected /\ Len(expected) >= 1 /\ Len(expected) \in Nat
    BY <1>4
  <2>3. Head(expected) = test[File][Met + 1]
    BY <1>2, <2>2 DEF Compared
  <2>4. Met < Len(test[File])
    <3>1. PICK m, n \in Nat : m = Len(test[File]) /\ n = Len(expected)
      BY <1>4, LenProperties
    <3>2. Met = m - n /\ n >= 1
      BY <2>2, <3>1 DEF Met
    <3>3. m - n < m
      BY <3>1, <3>2
    <3> QED BY <3>1, <3>2, <3>3
  <2> QED BY <2>1, <2>2, <2>3, <2>4
<1>6. Cardinality(Heard(File, T, c + 1)) = Met + IF c + 1 \in Heard(File, T, c + 1) THEN 1 ELSE 0
  BY <1>1, <1>2, HeardNext DEF BInv, Compared
<1>7. c + 1 \in Heard(File, T, c + 1) <=> ~AtReturn
  BY <1>2, <1>3, <1>4 DEF Heard, Compared, AtReturn
<1>8. c > Len(Said(File, T)) + Met => AtReturn
  <2>1. SUFFICES ASSUME c > Len(Said(File, T)) + Met PROVE AtReturn
    OBVIOUS
  <2>2. T = "pdp8" /\ Char(File, T, c) = "cr"
    BY <1>2, <2>1 DEF Compared
  <2>3. Char(File, T, c + 1) = Char(File, T, c)
    BY <1>4, <1>5, <2>1 DEF Char
  <2> QED BY <1>3, <2>2, <2>3 DEF AtReturn
<1>9. ASSUME ~AtReturn PROVE Meets(File, T, Met + 1)
  <2>1. c + 1 \in 1 .. Len(Said(File, T)) + Len(test[File])
    BY <1>4, <1>5, <1>8, <1>9
  <2>2. Nth(File, T, Met + 1, c + 1)
    BY <1>6, <1>7, <1>9 DEF Nth
  <2>3. Char(File, T, c + 1) = Wanted(T, test[File][Met + 1])
    BY <1>3, <1>5, <1>9 DEF Same, Wanted
  <2> QED BY <2>1, <2>2, <2>3 DEF Meets
<1>10. /\ expected' \in Seq(Characters) /\ Met' \in Nat
       /\ Met' = Met + IF AtReturn THEN 0 ELSE 1
       /\ \A i \in DOMAIN expected' : expected'[i] = test[File][Met' + i]
  <2>1. CASE AtReturn /\ expected' = expected
    BY <1>1, <1>2, <1>4, <1>5, <2>1 DEF Met, Compared
  <2>2. CASE ~AtReturn /\ expected' = Tail(expected)
    <3>1. /\ Tail(expected) \in Seq(Characters) /\ Len(Tail(expected)) = Len(expected) - 1
          /\ \A i \in 1 .. Len(expected) - 1 : Tail(expected)[i] = expected[i + 1]
          /\ DOMAIN Tail(expected) = 1 .. Len(expected) - 1 /\ Len(expected) \in Nat /\ Len(test[File]) \in Nat
      BY <1>4, <1>5
    <3>2. Met' = Met + 1
      <4>1. PICK n \in Nat, e \in Nat : n = Len(test[File]) /\ e = Len(expected)
        BY <3>1
      <4>2. Met' = n - Len(expected') /\ Len(expected') = e - 1
        BY <1>1, <2>2, <3>1, <4>1 DEF Met
      <4>3. Met = n - e
        BY <4>1 DEF Met
      <4> QED BY <4>1, <4>2, <4>3
    <3>3. ASSUME NEW i \in 1 .. Len(expected) - 1 PROVE Tail(expected)[i] = test[File][(Met + 1) + i]
      <4>1. i + 1 \in DOMAIN expected /\ (Met + 1) + i = Met + (i + 1)
        BY <1>4, <1>5, <3>1
      <4> QED BY <1>2, <3>1, <4>1 DEF Compared
    <3>4. Met' \in Nat /\ expected' \in Seq(Characters)
      <4>1. Met + 1 \in Nat
        BY <1>5
      <4>2. Tail(expected) \in Seq(Characters)
        BY <3>1
      <4> QED BY <2>2, <3>2, <4>1, <4>2, Zenon
    <3>5. \A i \in DOMAIN expected' : expected'[i] = test[File][Met' + i]
      BY <2>2, <3>1, <3>2, <3>3
    <3> QED BY <2>2, <3>2, <3>4, <3>5
  <2> QED BY <2>1, <2>2
<1>11. \A k \in 1 .. Met' : Meets(File, T, k)
  BY <1>2, <1>5, <1>9, <1>10 DEF Compared
<1>12. \A k : Meets(File, T, k)' <=> Meets(File, T, k)
  BY <1>1, SaidHere DEF Meets
<1>13. Compared(c + 1)'
  <2>1. c + 1 >= Len(Lead(T)) /\ Met' >= 0
    BY <1>2, <1>4, <1>10 DEF Compared
  <2>2. Cardinality(Heard(File, T, c + 1)) = Met'
    BY <1>5, <1>6, <1>7, <1>10
  <2>3. c + 1 > Len(Said(File, T)) + Met' => T = "pdp8" /\ Char(File, T, c + 1) = "cr"
    <3>1. CASE AtReturn
      BY <1>3, <3>1 DEF AtReturn
    <3>2. CASE ~AtReturn
      BY <1>4, <1>5, <1>8, <1>10, <3>2
    <3> QED BY <3>1, <3>2
  <2> QED BY <1>1, <1>10, <1>11, <1>12, <2>1, <2>2, <2>3, SaidHere DEF Compared
<1>14. Progress(c + 1)'
  BY <1>1, <1>13 DEF Progress
<1> QED BY <1>1, <1>3, <1>10, <1>14, TalkKeeps

(* A character that is not the expected one, or none: the rest of the test is  *)
(* nowhere in the output.                                                   *)
LEMMA Disagrees ==
  ASSUME BInv, pc = "compare", expected # <<>>, ~AtReturn,
         EndOfFile \/ (pipe # <<>> /\ ~Same(Head(expected), Head(pipe)))
  PROVE  ~Agrees(File, T)
<1>1. /\ pc \in Conversing /\ File \in Examples /\ T \in TargetNames
      /\ expected \in Seq(Characters) /\ test[File] \in Seq(Characters)
      /\ pipe \in Seq(Characters) /\ child.left \in Seq(Characters)
      /\ Len(Said(File, T)) \in Nat /\ Len(Lead(T)) \in Nat
  <2>1. pc \in Conversing /\ test[File] # Absent
    BY DEF BInv, Conversation, Conversing
  <2>2. File \in Examples /\ T \in TargetNames
    BY <2>1, ConversingAt
  <2>3. /\ expected \in Seq(Characters) /\ test[File] \in Seq(Characters)
        /\ pipe \in Seq(Characters) /\ child.left \in Seq(Characters)
    BY <2>1, <2>2 DEF BInv, BTypeOK, Children
  <2>4. Said(File, T) \in Seq(Characters) /\ Lead(T) \in Seq(Characters)
    BY <2>2, SaidTyped DEF BInv
  <2> QED BY <2>1, <2>2, <2>3, <2>4
<1>2. PICK c \in Nat : Stream(c) /\ Compared(c)
  BY <1>1 DEF BInv, Conversation, Progress, Conversing
<1>3. Met \in Nat /\ Met + 1 \in DOMAIN test[File] /\ Head(expected) = test[File][Met + 1]
  BY <1>1, <1>2 DEF Compared, Met
<1>4. SUFFICES ASSUME NEW x \in 1 .. Len(Said(File, T)) + Len(test[File]), Nth(File, T, Met + 1, x),
                      Char(File, T, x) = Wanted(T, test[File][Met + 1])
               PROVE  FALSE
  BY <1>3 DEF Agrees
<1>5. Cardinality(Heard(File, T, c)) = Met
  BY <1>2 DEF Compared
<1>6. x \in Nat
  BY <1>1
<1>7. CASE EndOfFile
  <2>1. Len(<<>>) = 0
    OBVIOUS
  <2>2. c = Len(Said(File, T)) /\ ~GoesOn(File, T)
    BY <1>2, <1>7, <2>1 DEF EndOfFile, Stream, Out
  <2>3. x <= c
    BY <1>4, <2>2 DEF Nth, Heard
  <2>4. Met + 1 <= Met
    BY <1>1, <1>4, <1>5, <1>6, <2>3, HeardGrows DEF Nth, BInv
  <2> QED BY <1>3, <2>4
<1>8. CASE pipe # <<>> /\ ~Same(Head(expected), Head(pipe))
  <2>1. Head(pipe) = pipe[1] /\ 1 \in DOMAIN pipe /\ Len(pipe) >= 1
    BY <1>1, <1>8
  <2>2. Head(pipe) = Char(File, T, c + 1)
    BY <2>1, <1>2 DEF Stream
  <2>3. c + 1 <= Len(Said(File, T)) \/ GoesOn(File, T)
    <3>1. Out(c) >= c + 1
      <4>1. PICK p \in Nat, l \in Nat : p = Len(pipe) /\ l = Len(child.left)
        BY <1>1
      <4>2. Out(c) = c + p + l
        BY <4>1 DEF Out
      <4>3. p >= 1
        BY <2>1, <4>1
      <4>4. c + p + l >= c + 1
        BY <4>3
      <4> QED BY <4>2, <4>4, Zenon
    <3>2. Len(Banner) \in Nat /\ (T = "pdp8" /\ emulator => Len(Banner) <= Len(Said(File, T)))
      BY <1>1, SaidTyped, BuildAssumption DEF BInv, Lead
    <3>3. child.state \in {"forked", "waiting", "running", "ended"}
      BY <1>2 DEF BInv, BTypeOK, Children, Stream
    <3>4. CASE child.state = "forked"
      BY <1>2, <3>1, <3>4 DEF Stream
    <3>5. CASE child.state = "waiting"
      BY <1>1, <1>2, <3>1, <3>2, <3>5 DEF Stream
    <3>6. CASE child.state \in {"running", "ended"}
      BY <1>1, <1>2, <3>1, <3>6 DEF Stream
    <3> QED BY <3>3, <3>4, <3>5, <3>6
  <2>4. c + 1 \in Heard(File, T, c + 1)
    BY <1>1, <1>2, <1>8, <2>2, <2>3 DEF Heard, Compared, AtReturn
  <2>5. Cardinality(Heard(File, T, c + 1)) = Met + 1
    BY <1>1, <1>5, <2>4, HeardNext DEF BInv
  <2>6. x = c + 1
    BY <1>1, <1>4, <1>6, <2>4, <2>5, NthUnique DEF Nth, BInv
  <2> QED BY <1>3, <1>4, <1>8, <2>2, <2>6 DEF Same, Wanted
<1> QED BY <1>7, <1>8

LEMMA CompareKeeps == ASSUME BInv, SkipReturn \/ Compare PROVE BInv'
<1>1. pc = "compare" /\ expected # <<>> /\ UNCHANGED <<fixed, test, refused>>
  BY DEF SkipReturn, Compare, disk
<1>2. CASE SkipReturn
  BY <1>1, <1>2, ComparingStep DEF SkipReturn, disk
<1>3. CASE /\ ~AtReturn /\ Read /\ Same(Head(expected), Head(pipe)) /\ Goto("compare")
           /\ expected' = Tail(expected) /\ UNCHANGED status
  BY <1>1, <1>3, ComparingStep
<1>4. CASE /\ ~AtReturn /\ (EndOfFile \/ (pipe # <<>> /\ ~Same(Head(expected), Head(pipe))))
           /\ CloseWith("wrong_output") /\ expected' = <<>>
  <2>1. ~Agrees(File, T)
    BY <1>1, <1>4, Disagrees
  <2>2. test' \in [Examples -> Seq(Characters) \cup {Absent}] /\ expected' \in Seq(Characters)
    BY <1>1, <1>4 DEF BInv, BTypeOK
  <2> QED BY <1>1, <1>4, <2>1, <2>2, CloseKeeps
<1> QED BY <1>2, <1>3, <1>4 DEF Compare

LEMMA EndOfReferenceKeeps == ASSUME BInv, EndOfReference PROVE BInv'
<1>1. /\ pc = "compare" /\ pc \in Conversing /\ expected = <<>> /\ CloseWith("ok")
      /\ UNCHANGED <<fixed, test, refused, expected>>
  BY DEF EndOfReference, disk, Conversing
<1>2. PICK c \in Nat : Compared(c)
  BY <1>1 DEF BInv, Conversation, Progress, Conversing
<1>3. test[File] \in Seq(Characters)
  BY <1>1, ConversingAt DEF BInv, BTypeOK, Conversation
<1>4. Met = Len(test[File])
  BY <1>1, <1>3 DEF Met
<1>5. Agrees(File, T)
  <2>1. DOMAIN test[File] = 1 .. Met
    BY <1>3, <1>4
  <2>2. \A k \in 1 .. Met : Meets(File, T, k)
    BY <1>2 DEF Compared
  <2> QED BY <2>1, <2>2 DEF Agrees, Meets
<1>6. test' \in [Examples -> Seq(Characters) \cup {Absent}] /\ expected' \in Seq(Characters)
  BY <1>1 DEF BInv, BTypeOK
<1> QED BY <1>1, <1>5, <1>6, CloseKeeps

LEMMA CopyKeeps == ASSUME BInv, Copy PROVE BInv'
<1>1. /\ pc = "copy" /\ pc \in Conversing /\ UNCHANGED <<fixed, refused>> /\ T # "pdp8"
      /\ UNCHANGED <<source, emulator>> /\ File \in Examples /\ T \in TargetNames
      /\ Program.prints[T] \in Seq(Characters)
  <2>1. pc = "copy" /\ pc \in Conversing /\ UNCHANGED <<fixed, refused>> /\ T # "pdp8" /\ UNCHANGED <<source, emulator>>
    BY DEF Copy, BInv, Conversation, Conversing, fixed
  <2> QED BY <2>1, ConversingAt
<1>2. /\ test \in [Examples -> Seq(Characters) \cup {Absent}] /\ expected \in Seq(Characters)
      /\ pipe \in Seq(Characters) /\ FileSize \in Nat
  BY BuildAssumption DEF BInv, BTypeOK
<1>3. PICK c \in Nat : Stream(c) /\ Copied(c)
  BY <1>1 DEF BInv, Conversation, Progress, Conversing
<1>4. Said(File, T) = Program.prints[T]
  BY <1>1 DEF Said, Program
<1>5. /\ Len(expected) = IF c > FileSize THEN FileSize ELSE c
      /\ \A i \in 1 .. Len(expected) : expected[i] = Char(File, T, i)
      /\ Len(expected) \in Nat
  BY <1>2, <1>3 DEF Copied
<1>6. CASE EndOfFile /\ CloseWith("ok") /\ test' = [test EXCEPT ![File] = expected] /\ expected' = <<>>
  <2>1. Len(<<>>) = 0
    OBVIOUS
  <2>2. c = Len(Program.prints[T])
    BY <1>3, <1>4, <1>6, <2>1 DEF EndOfFile, Stream, Out
  <2>3. \A i \in 1 .. Len(expected) : expected[i] = Program.prints[T][i]
    BY <1>1, <1>2, <1>4, <1>5, <2>2 DEF Char
  <2>4. expected = Written(File, T)
    <3>1. CASE Len(Program.prints[T]) > FileSize
      <4>1. SubSeq(Program.prints[T], 1, FileSize) \in Seq(Characters)
        BY <1>1, <1>2, <3>1
      <4>2. /\ Len(SubSeq(Program.prints[T], 1, FileSize)) = FileSize
            /\ \A i \in 1 .. FileSize : SubSeq(Program.prints[T], 1, FileSize)[i] = Program.prints[T][i]
        BY <1>1, <1>2, <3>1
      <4>3. expected = SubSeq(Program.prints[T], 1, FileSize)
        BY <1>2, <1>5, <2>2, <2>3, <3>1, <4>1, <4>2, SeqEqual
      <4> QED BY <1>1, <3>1, <4>3 DEF Written, Program
    <3>2. CASE ~(Len(Program.prints[T]) > FileSize)
      <4>1. expected = Program.prints[T]
        BY <1>1, <1>2, <1>5, <2>2, <2>3, <3>2, SeqEqual
      <4> QED BY <1>1, <3>2, <4>1 DEF Written, Program
    <3> QED BY <3>1, <3>2
  <2>5. /\ test' \in [Examples -> Seq(Characters) \cup {Absent}] /\ test'[File] = expected
        /\ \A f \in Examples \ {File} : test'[f] = test[f]
    BY <1>1, <1>2, <1>6
  <2>6. expected' \in Seq(Characters)
    BY <1>6
  <2> QED BY <1>1, <1>6, <2>4, <2>5, <2>6, CloseKeeps
<1>7. CASE /\ Read /\ Goto("copy") /\ UNCHANGED <<test, status>>
           /\ expected' = expected \o IF Len(expected) < FileSize THEN <<Head(pipe)>> ELSE <<>>
  <2>1. File' = File /\ T' = T /\ pc' = "copy"
    BY <1>1, <1>7 DEF Goto, fixed, loop, File, T
  <2>2. /\ pipe' \in Seq(Characters) /\ UNCHANGED child
        /\ Head(pipe) = Char(File, T, c + 1) /\ Head(pipe) \in Characters /\ Stream(c + 1)'
    BY <1>1, <1>3, <1>7, <2>1, ReadStep
  <2>3. /\ expected' \in Seq(Characters)
        /\ Len(expected') = IF c + 1 > FileSize THEN FileSize ELSE c + 1
        /\ \A i \in 1 .. Len(expected') : expected'[i] = Char(File, T, i)
    <3>1. CASE Len(expected) < FileSize
      <4>1. c <= FileSize /\ Len(expected) = c /\ expected' = expected \o <<Head(pipe)>>
        BY <1>2, <1>5, <1>7, <3>1
      <4>2. expected' = Append(expected, Head(pipe))
        BY <1>2, <2>2, <4>1
      <4> QED BY <1>2, <1>5, <2>2, <3>1, <4>1, <4>2
    <3>2. CASE ~(Len(expected) < FileSize)
      <4>1. expected' = expected
        BY <1>2, <1>7, <3>2
      <4> QED BY <1>2, <1>5, <3>2, <4>1
    <3> QED BY <3>1, <3>2
  <2>4. Copied(c + 1)'
    <3>1. DOMAIN expected' = 1 .. Len(expected')
      BY <2>3
    <3>2. \A i : Char(File, T, i)' = Char(File, T, i)
      BY <1>1, <2>1, SaidHere
    <3> QED BY <2>3, <3>1, <3>2 DEF Copied
  <2>5. Progress(c + 1)'
    BY <2>1, <2>4 DEF Progress
  <2> QED BY <1>1, <1>7, <2>2, <2>3, <2>5, TalkKeeps
<1> QED BY <1>6, <1>7 DEF Copy

-----------------------------------------------------------------------------
(* The other process.                                                       *)
LEMMA ChildOnlySame ==
  ASSUME BInv, ChildOnly
  PROVE  /\ UNCHANGED <<pc, entries, source, test, tools, emulator, refused, options>>
         /\ UNCHANGED <<at, row, target, expected, status>>
         /\ File' = File /\ T' = T /\ Program' = Program
         /\ Tooled' /\ RowsRight' /\ InPlace' /\ CellsRight' /\ TestsRight'
<1>1. /\ UNCHANGED <<pc, entries, source, test, tools, emulator, refused, options>>
      /\ UNCHANGED <<at, row, target, names, results, expected, status>>
  BY DEF ChildOnly, disk, fixed, loop
<1>2. File' = File /\ T' = T /\ Program' = Program
  BY <1>1 DEF File, T, Program
<1>3. Tooled' /\ RowsRight' /\ InPlace'
  BY <1>1, <1>2 DEF BInv, Tooled, RowsRight, InPlace
<1>4. CellsRight'
  <2>1. SUFFICES ASSUME pc \in Looping, ~options.gen_test, NEW i \in 1 .. Len(entries), NEW j \in 1 .. 4,
                        i < row \/ (pc \in Testing /\ i = row /\ j < target)
                 PROVE  Cell(i, j)'
    BY <1>1 DEF CellsRight
  <2>2. Cell(i, j)
    BY <2>1 DEF BInv, CellsRight
  <2> QED BY <1>1, <2>2, CellKept
<1>5. TestsRight'
  BY <1>1, <1>2 DEF BInv, TestsRight, Left, BuiltLast, Written
<1> QED BY <1>1, <1>2, <1>3, <1>4, <1>5

(* A step of the other process; once pclose() waits for it, nothing it does    *)
(* matters.                                                                 *)
LEMMA ChildKeeps ==
  ASSUME BInv, ChildOnly, child.state # "none", pc # "killed", pipe' \in Seq(Characters), child' \in Children,
         child'.state # "none",
         NEW c \in Nat,
         pc \in Conversing \ {"pclose"} => Progress(c) /\ Stream(c)'
  PROVE  BInv'
<1>1. /\ UNCHANGED <<pc, entries, source, test, tools, emulator, refused, options>>
      /\ UNCHANGED <<at, row, target, expected, status>>
      /\ File' = File /\ T' = T /\ Program' = Program
      /\ Tooled' /\ RowsRight' /\ InPlace' /\ CellsRight' /\ TestsRight'
  BY ChildOnlySame
<1>2. BTypeOK'
  BY <1>1 DEF BInv, BTypeOK
<1>3. pc \in Conversing \ {"pclose"} => Progress(c)'
  <2>1. SUFFICES ASSUME pc \in Conversing \ {"pclose"}, Progress(c) PROVE Progress(c)'
    OBVIOUS
  <2>2. UNCHANGED <<pc, source, emulator, test, expected>> /\ File' = File /\ T' = T
    BY <1>1
  <2>3. Greeted(c) => Greeted(c)'
    BY <2>2, SaidHere DEF Greeted
  <2>4. Met' = Met /\ \A k : Meets(File, T, k)' <=> Meets(File, T, k)
    BY <2>2, SaidHere DEF Met, Meets
  <2>5. Compared(c) => Compared(c)'
    BY <2>2, <2>4, SaidHere DEF Compared
  <2>6. Copied(c) => Copied(c)'
    BY <2>2, SaidHere DEF Copied
  <2> QED BY <2>1, <2>2, <2>3, <2>5, <2>6 DEF Progress
<1>4. Agrees(File, T)' <=> Agrees(File, T)
  BY <1>1, SaidHere
<1>5. Conversation'
  BY <1>1, <1>3, <1>4 DEF BInv, Conversation
<1> QED BY <1>1, <1>2, <1>5 DEF BInv

LEMMA ChildAt ==
  ASSUME BInv, child.state \in {"forked", "waiting", "running"}
  PROVE  /\ pc \in Conversing \cup {"killed"}
         /\ pc \in Conversing =>
              /\ File \in Examples /\ T \in TargetNames
              /\ Program \in Behaviours /\ Program.prints[T] \in Seq(Characters)
         /\ child \in Children /\ child.left \in Seq(Characters) /\ pipe \in Seq(Characters)
         /\ Banner \in Seq(Characters) /\ Goodbye \in Seq(Characters)
BY ConversingAt, TestingAt, BuildAssumption DEF BInv, Conversation, BTypeOK, Children

LEMMA ExecKeeps == ASSUME BInv, Exec PROVE BInv'
<1>1. child.state = "forked" /\ ChildOnly /\ UNCHANGED pipe /\ pc # "killed"
  BY DEF Exec, BInv, Conversation
<1>2. /\ pc \in Conversing /\ child \in Children /\ Banner \in Seq(Characters)
      /\ child.left \in Seq(Characters) /\ pipe \in Seq(Characters)
  BY <1>1, ChildAt
<1>3. /\ child' \in Children /\ child'.read = child.read
      /\ child'.state = IF emulator THEN "waiting" ELSE "ended"
      /\ child'.left = IF emulator THEN Banner ELSE child.left
  BY <1>2 DEF Exec, Children
<1>4. UNCHANGED <<source, emulator>> /\ File' = File /\ T' = T
  BY <1>1, ChildOnlySame
<1>5. CASE pc \in Conversing \ {"pclose"}
  <2>1. PICK c \in Nat : Stream(c) /\ Progress(c)
    BY <1>5 DEF BInv, Conversation
  <2>2. c = 0 /\ Len(pipe) = 0 /\ Len(child.left) = 0 /\ DOMAIN pipe = {} /\ DOMAIN child.left = {} /\ T = "pdp8"
    <3>1. PICK p \in Nat, l \in Nat : p = Len(pipe) /\ l = Len(child.left)
      BY <1>2
    <3>2. c + p + l = 0
      BY <1>1, <2>1, <3>1 DEF Stream, Out
    <3>3. c = 0 /\ p = 0 /\ l = 0
      BY <3>2
    <3>4. T = "pdp8"
      BY <1>1, <2>1 DEF Stream
    <3>5. Len(pipe) = 0 /\ Len(child.left) = 0
      BY <3>1, <3>3
    <3>6. DOMAIN pipe = {} /\ DOMAIN child.left = {}
      BY <1>2, <3>5
    <3> QED BY <3>3, <3>4, <3>5, <3>6
  <2>3. CASE emulator
    <3>1. /\ Said(File, T) \in Seq(Characters) /\ Lead(T) = Banner /\ Len(Lead(T)) <= Len(Said(File, T))
          /\ \A i \in 1 .. Len(Lead(T)) : Said(File, T)[i] = Lead(T)[i]
      BY <1>5, <2>2, <2>3, SaidTyped, ConversingAt DEF BInv, Lead
    <3>2. \A i \in 1 .. Len(Banner) : Banner[i] = Char(File, T, i)
      BY <1>2, <3>1 DEF Char
    <3>3. Out(0)' = Len(Banner) /\ Len(Banner) \in Nat /\ DOMAIN Banner = 1 .. Len(Banner)
      BY <1>1, <1>2, <1>3, <2>2, <2>3 DEF Out
    <3>4. \A i \in DOMAIN child'.left : child'.left[i] = Char(File, T, 0 + Len(pipe') + i)
      <4>1. SUFFICES ASSUME NEW i \in 1 .. Len(Banner) PROVE Banner[i] = Char(File, T, 0 + 0 + i)
        BY <1>1, <1>3, <2>2, <2>3, <3>3
      <4>2. 0 + 0 + i = i
        BY <3>3
      <4> QED BY <3>2, <4>2
    <3>5. Stream(0)'
      BY <1>1, <1>3, <1>4, <2>1, <2>2, <2>3, <3>3, <3>4, SaidHere DEF Stream
    <3> QED BY <1>1, <1>2, <1>3, <2>1, <2>2, <3>5, ChildKeeps
  <2>4. CASE ~emulator
    <3>1. Said(File, T) = <<>> /\ ~GoesOn(File, T)
      BY <2>2, <2>4 DEF Said, GoesOn
    <3>2. Len(<<>>) = 0
      OBVIOUS
    <3>3. Out(0)' = 0
      BY <1>1, <1>3, <2>2, <2>4 DEF Out
    <3>4. child'.left = <<>>
      BY <1>2, <1>3, <2>2, <2>4
    <3>5. Stream(0)'
      BY <1>1, <1>3, <1>4, <2>1, <2>2, <2>4, <3>1, <3>2, <3>3, <3>4, SaidHere DEF Stream
    <3> QED BY <1>1, <1>2, <1>3, <2>1, <2>2, <3>5, ChildKeeps
  <2> QED BY <2>3, <2>4
<1>6. CASE pc \notin Conversing \ {"pclose"}
  BY <1>1, <1>2, <1>3, <1>6, ChildKeeps
<1> QED BY <1>5, <1>6

LEMMA ReadCommandKeeps == ASSUME BInv, ReadCommand PROVE BInv'
<1> DEFINE said == Program.prints[T] \o IF Program.ends = "exits" THEN Goodbye ELSE <<>>
<1>1. child.state = "waiting" /\ child.left = <<>> /\ ChildOnly /\ UNCHANGED pipe /\ pc # "killed"
  BY DEF ReadCommand, BInv, Conversation
<1>2. /\ pc \in Conversing /\ child \in Children /\ Banner \in Seq(Characters)
      /\ pipe \in Seq(Characters) /\ Program.prints[T] \in Seq(Characters) /\ Goodbye \in Seq(Characters)
      /\ File \in Examples /\ T \in TargetNames
  BY <1>1, ChildAt
<1>3. said \in Seq(Characters)
  BY <1>2
<1>4. child' = [child EXCEPT !.state = "running", !.left = said]
  BY DEF ReadCommand
<1>5. T = "pdp8" /\ emulator => Said(File, T) = Banner \o said
  BY DEF Said, Program
<1> HIDE DEF said
<1>6. child' \in Children /\ child'.read = child.read /\ child'.state = "running" /\ child'.left = said
  BY <1>2, <1>3, <1>4 DEF Children
<1>7. UNCHANGED <<source, emulator>> /\ File' = File /\ T' = T
  BY <1>1, ChildOnlySame
<1>8. CASE pc \in Conversing \ {"pclose"}
  <2>1. PICK c \in Nat : Stream(c) /\ Progress(c)
    BY <1>8 DEF BInv, Conversation
  <2>2. T = "pdp8" /\ emulator /\ Out(c) = Len(Banner)
    BY <1>1, <2>1 DEF Stream
  <2>3. Said(File, T) = Banner \o said
    BY <1>5, <2>2
  <2>4. Len(<<>>) = 0
    OBVIOUS
  <2>5. c + Len(pipe) = Len(Banner)
    <3>1. Out(c) = c + Len(pipe) + 0
      BY <1>1, <2>4 DEF Out
    <3>2. PICK p \in Nat : p = Len(pipe)
      BY <1>2
    <3> QED BY <2>2, <3>1, <3>2
  <2>6. /\ Len(Banner \o said) = Len(Banner) + Len(said) /\ Len(said) \in Nat /\ Len(Banner) \in Nat
        /\ DOMAIN said = 1 .. Len(said)
        /\ \A i \in 1 .. Len(said) : (Banner \o said)[Len(Banner) + i] = said[i]
    BY <1>2, <1>3
  <2>7. \A i \in DOMAIN child'.left : child'.left[i] = Char(File, T, c + Len(pipe') + i)
    <3>1. SUFFICES ASSUME NEW i \in 1 .. Len(said) PROVE said[i] = Char(File, T, Len(Banner) + i)
      BY <1>1, <1>6, <2>5, <2>6
    <3>2. ~(Len(Banner) + i > Len(Banner) + Len(said))
      BY <2>6
    <3> QED BY <2>3, <2>6, <3>2 DEF Char
  <2>8. Out(c)' = Len(Said(File, T))
    BY <1>1, <1>6, <2>3, <2>5, <2>6 DEF Out
  <2>9. Stream(c)'
    BY <1>1, <1>6, <1>7, <2>1, <2>2, <2>7, <2>8, SaidHere DEF Stream
  <2> QED BY <1>1, <1>2, <1>6, <2>1, <2>9, ChildKeeps
<1>9. CASE pc = "pclose"
  BY <1>1, <1>2, <1>6, <1>9, ChildKeeps
<1> QED BY <1>2, <1>8, <1>9

LEMMA WriteKeeps == ASSUME BInv, Write PROVE BInv'
<1>1. child.state \in {"waiting", "running"} /\ Next1 # <<>> /\ ChildOnly /\ pc # "killed"
  BY DEF Write, BInv, Conversation
<1>2. /\ pc \in Conversing /\ child \in Children /\ child.left \in Seq(Characters)
      /\ pipe \in Seq(Characters) /\ Program.prints[T] \in Seq(Characters)
      /\ File \in Examples /\ T \in TargetNames /\ Program \in Behaviours
  BY <1>1, ChildAt
<1>3. UNCHANGED <<source, emulator>> /\ File' = File /\ T' = T
  BY <1>1, ChildOnlySame
<1>4. CASE ~child.read /\ child' = [child EXCEPT !.state = "ended"] /\ UNCHANGED pipe
  <2>1. child' \in Children /\ child'.state = "ended"
    BY <1>2, <1>4 DEF Children
  <2>2. pc \notin Conversing \ {"pclose"}
    BY <1>4 DEF BInv, Conversation, Stream
  <2> QED BY <1>1, <1>2, <1>4, <2>1, <2>2, ChildKeeps
<1>5. CASE /\ child.read /\ pipe' = pipe \o Next1
           /\ child' = [child EXCEPT !.left = IF @ = <<>> THEN @ ELSE Tail(@)]
  <2> DEFINE l == IF child.left = <<>> THEN <<>> ELSE Tail(child.left)
  <2>1. l \in Seq(Characters)
    <3>1. CASE child.left = <<>>
      BY <1>2, <3>1
    <3>2. CASE child.left # <<>>
      BY <1>2, <3>2
    <3> QED BY <3>1, <3>2
  <2>2. child' = [child EXCEPT !.left = l]
    BY <1>2, <1>5 DEF Children
  <2>3. child.left = <<>> => l = <<>>
    OBVIOUS
  <2>4. child.left # <<>> => l = Tail(child.left)
    OBVIOUS
  <2> HIDE DEF l
  <2>5. child' \in Children /\ child'.state = child.state /\ child'.read = child.read /\ child'.left = l
    BY <1>2, <2>1, <2>2 DEF Children
  <2>6. CASE child.left # <<>>
    <3>1. /\ Next1 = <<Head(child.left)>> /\ Head(child.left) \in Characters /\ Head(child.left) = child.left[1]
          /\ pipe' = Append(pipe, child.left[1]) /\ pipe' \in Seq(Characters)
      BY <1>2, <1>5, <2>6 DEF Next1
    <3>2. CASE pc \in Conversing \ {"pclose"}
      <4>1. PICK c \in Nat : Stream(c) /\ Progress(c)
        BY <3>2 DEF BInv, Conversation
      <4>2. PICK p \in Nat, n \in Nat : p = Len(pipe) /\ n = Len(child.left)
        BY <1>2
      <4>3. /\ Len(pipe') = p + 1 /\ DOMAIN pipe' = 1 .. p + 1 /\ DOMAIN pipe = 1 .. p
            /\ \A i \in 1 .. p : pipe'[i] = pipe[i]
            /\ pipe'[p + 1] = child.left[1]
        BY <1>2, <3>1, <4>2
      <4>4. /\ n >= 1 /\ Len(l) = n - 1 /\ DOMAIN l = 1 .. n - 1 /\ DOMAIN child.left = 1 .. n
            /\ \A i \in 1 .. n - 1 : l[i] = child.left[i + 1]
        <5>1. n >= 1 /\ DOMAIN child.left = 1 .. n
          BY <1>2, <2>6, <4>2
        <5>2. Len(l) = n - 1 /\ DOMAIN l = 1 .. n - 1
          BY <1>2, <2>4, <2>6, <4>2
        <5>3. \A i \in 1 .. n - 1 : l[i] = child.left[i + 1]
          <6>1. \A i \in 1 .. Len(child.left) - 1 : Tail(child.left)[i] = child.left[i + 1]
            BY <1>2, <2>6
          <6> QED BY <2>4, <2>6, <4>2, <6>1
        <5> QED BY <5>1, <5>2, <5>3
      <4>5. Out(c)' = Out(c)
        <5>1. Out(c)' = c + (p + 1) + (n - 1) /\ Out(c) = c + p + n
          BY <2>5, <4>2, <4>3, <4>4 DEF Out
        <5> QED BY <5>1
      <4>6. \A i \in DOMAIN pipe' : pipe'[i] = Char(File, T, c + i)
        <5>1. SUFFICES ASSUME NEW i \in 1 .. p + 1 PROVE pipe'[i] = Char(File, T, c + i)
          BY <4>3
        <5>2. CASE i \in 1 .. p
          BY <4>1, <4>3, <5>2 DEF Stream
        <5>3. CASE i = p + 1
          <6>1. c + p + 1 = c + i
            BY <5>3
          <6>2. child.left[1] = Char(File, T, c + p + 1)
            BY <4>1, <4>2, <4>4 DEF Stream
          <6> QED BY <4>3, <5>3, <6>1, <6>2
        <5> QED BY <5>2, <5>3
      <4>7. \A i \in DOMAIN l : l[i] = Char(File, T, c + Len(pipe') + i)
        <5>1. SUFFICES ASSUME NEW i \in 1 .. n - 1 PROVE l[i] = Char(File, T, c + (p + 1) + i)
          BY <4>3, <4>4
        <5>2. i + 1 \in 1 .. n /\ c + p + (i + 1) = c + (p + 1) + i
          OBVIOUS
        <5>3. child.left[i + 1] = Char(File, T, c + p + (i + 1))
          BY <4>1, <4>2, <4>4, <5>2 DEF Stream
        <5> QED BY <4>4, <5>2, <5>3
      <4>8. Stream(c)'
        BY <1>1, <1>3, <2>5, <2>6, <4>1, <4>5, <4>6, <4>7, SaidHere DEF Stream
      <4> QED BY <1>1, <1>2, <2>5, <3>1, <4>1, <4>8, ChildKeeps
    <3>3. CASE pc = "pclose"
      BY <1>1, <1>2, <2>5, <3>1, <3>3, ChildKeeps
    <3> QED BY <1>2, <3>2, <3>3
  <2>7. CASE child.left = <<>>
    <3> DEFINE text == Program.prints[T]
    <3>1. /\ child.state = "running" /\ Program.ends = "repeats" /\ Next1 = <<text[Len(text)]>>
          /\ text # <<>> /\ text \in Seq(Characters)
      BY <1>1, <1>2, <2>7 DEF Next1, Behaviours
    <3>2. /\ Len(text) \in Nat /\ Len(text) >= 1 /\ text[Len(text)] \in Characters
          /\ pipe' = Append(pipe, text[Len(text)]) /\ pipe' \in Seq(Characters)
      BY <1>2, <1>5, <3>1
    <3>a. text = source[File].prints[T]
      BY DEF Program
    <3> HIDE DEF text
    <3>3. CASE pc \in Conversing \ {"pclose"}
      <4>1. PICK c \in Nat : Stream(c) /\ Progress(c)
        BY <3>3 DEF BInv, Conversation
      <4>2. PICK p \in Nat, s \in Nat : p = Len(pipe) /\ s = Len(Said(File, T))
        BY <1>2, SaidTyped DEF BInv
      <4>3. /\ Len(pipe') = p + 1 /\ DOMAIN pipe' = 1 .. p + 1 /\ DOMAIN pipe = 1 .. p
            /\ \A i \in 1 .. p : pipe'[i] = pipe[i]
            /\ pipe'[p + 1] = text[Len(text)]
        BY <1>2, <3>2, <4>2
      <4>4. Len(<<>>) = 0 /\ DOMAIN <<>> = {} /\ l = <<>>
        BY <2>3, <2>7
      <4>a. T = "pdp8" => emulator
        BY <3>1, <4>1 DEF Stream
      <4>b. GoesOn(File, T)
        BY <3>1, <4>a DEF GoesOn, Program
      <4>5. Said(File, T)[s] = text[Len(text)]
        <5>3. CASE T # "pdp8"
          BY <3>a, <4>2, <5>3 DEF Said
        <5>4. CASE T = "pdp8"
          <6>1. Said(File, T) = Banner \o (text \o <<>>)
            BY <3>1, <3>a, <4>a, <5>4 DEF Said, Program
          <6>2. text \o <<>> = text /\ Banner \in Seq(Characters)
            BY <3>1, BuildAssumption
          <6>3. Said(File, T) = Banner \o text
            BY <6>1, <6>2
          <6>4. s = Len(Banner) + Len(text) /\ Len(Banner) \in Nat
            BY <3>1, <4>2, <6>2, <6>3
          <6>5. (Banner \o text)[Len(Banner) + Len(text)] = text[Len(text)]
            BY <3>1, <3>2, <6>2
          <6> QED BY <6>3, <6>4, <6>5
        <5> QED BY <5>3, <5>4
      <4>6. c + p >= s
        <5>1. Out(c) = c + p + 0
          BY <2>7, <4>2, <4>4 DEF Out
        <5>2. Out(c) = s \/ Out(c) > s
          BY <3>1, <4>1, <4>2 DEF Stream
        <5> QED BY <5>1, <5>2
      <4>7. Out(c)' = c + (p + 1) + 0
        BY <2>5, <4>3, <4>4 DEF Out
      <4>8. Out(c)' > Len(Said(File, T))
        BY <4>2, <4>6, <4>7
      <4>9. \A i \in DOMAIN pipe' : pipe'[i] = Char(File, T, c + i)
        <5>1. SUFFICES ASSUME NEW i \in 1 .. p + 1 PROVE pipe'[i] = Char(File, T, c + i)
          BY <4>3
        <5>2. CASE i \in 1 .. p
          BY <4>1, <4>3, <5>2 DEF Stream
        <5>3. CASE i = p + 1
          <6>1. c + i > s
            BY <4>6, <5>3
          <6>2. Char(File, T, c + i) = text[Len(text)]
            BY <4>2, <4>5, <6>1 DEF Char
          <6> QED BY <4>3, <5>3, <6>2
        <5> QED BY <5>2, <5>3
      <4>10. Stream(c)'
        BY <1>1, <1>3, <2>5, <3>1, <4>1, <4>4, <4>a, <4>b, <4>8, <4>9, SaidHere DEF Stream
      <4> QED BY <1>1, <1>2, <2>5, <3>2, <4>1, <4>10, ChildKeeps
    <3>4. CASE pc = "pclose"
      BY <1>1, <1>2, <2>5, <3>2, <3>4, ChildKeeps
    <3> QED BY <1>2, <3>3, <3>4
  <2> QED BY <2>6, <2>7
<1> QED BY <1>4, <1>5 DEF Write

LEMMA FinishKeeps == ASSUME BInv, Finish PROVE BInv'
<1>1. /\ child.state = "running" /\ child.left = <<>> /\ Program.ends = "exits"
      /\ child' = [child EXCEPT !.state = "ended"] /\ UNCHANGED pipe /\ ChildOnly /\ pc # "killed"
  BY DEF Finish, BInv, Conversation
<1>2. pc \in Conversing /\ child \in Children /\ pipe \in Seq(Characters)
  BY <1>1, ChildAt
<1>3. /\ child' \in Children /\ child'.state = "ended" /\ child'.read = child.read
      /\ child'.left = child.left
  BY <1>1, <1>2 DEF Children
<1>4. UNCHANGED <<source, emulator>> /\ File' = File /\ T' = T
  BY <1>1, ChildOnlySame
<1>5. CASE pc \in Conversing \ {"pclose"}
  <2>1. PICK c \in Nat : Stream(c) /\ Progress(c)
    BY <1>5 DEF BInv, Conversation
  <2>2. ~GoesOn(File, T)
    BY <1>1 DEF GoesOn, Program
  <2>3. Out(c)' = Out(c)
    BY <1>1, <1>3 DEF Out
  <2>4. Stream(c)'
    BY <1>1, <1>3, <1>4, <2>1, <2>2, <2>3, SaidHere DEF Stream
  <2> QED BY <1>1, <1>2, <1>3, <2>1, <2>4, ChildKeeps
<1>6. CASE pc = "pclose"
  BY <1>1, <1>2, <1>3, <1>6, ChildKeeps
<1> QED BY <1>2, <1>5, <1>6

-----------------------------------------------------------------------------
LEMMA BInvInit == ASSUME BuildInit PROVE BInv
<1>1. BTypeOK
  BY BuildAssumption DEF BuildInit, BTypeOK, None, NoChild, Children, Statuses
<1>2. Tooled /\ RowsRight /\ InPlace /\ CellsRight /\ TestsRight
  BY DEF BuildInit, Tooled, RowsRight, InPlace, CellsRight, TestsRight, Looping, Testing, Conversing
<1>3. Conversation
  BY DEF BuildInit, Conversation, Conversing, NoChild
<1> QED BY <1>1, <1>2, <1>3 DEF BInv

LEMMA BInvStutter == ASSUME BInv, UNCHANGED bvars PROVE BInv'
<1>1. /\ UNCHANGED <<entries, source, test, tools, emulator, refused, options, pc>>
      /\ UNCHANGED <<at, row, target, names, results, expected, status, child, pipe>>
  BY DEF bvars, disk, fixed, loop, io
<1>2. ChildOnly
  BY DEF bvars, disk, fixed, loop, io, ChildOnly
<1>3. BTypeOK'
  BY <1>1 DEF BInv, BTypeOK
<1>4. CASE child.state # "none" /\ pc # "killed" /\ pc \in Conversing \ {"pclose"}
  <2>1. PICK c \in Nat : Stream(c) /\ Progress(c)
    BY <1>4 DEF BInv, Conversation
  <2>2. UNCHANGED <<source, emulator>> /\ File' = File /\ T' = T
    BY <1>1, <1>2, ChildOnlySame
  <2>3. Stream(c)'
    <3>1. Out(c)' = Out(c)
      BY <1>1 DEF Out
    <3>2. \A i \in DOMAIN pipe : Char(File, T, c + i)' = Char(File, T, c + i)
      BY <2>2, SaidHere
    <3>3. \A i \in DOMAIN child.left : Char(File, T, c + Len(pipe) + i)' = Char(File, T, c + Len(pipe) + i)
      BY <1>1, <2>2, SaidHere
    <3> QED BY <1>1, <2>1, <2>2, <3>1, <3>2, <3>3, SaidHere DEF Stream
  <2> QED BY <1>1, <1>2, <1>3, <1>4, <2>1, <2>3, ChildKeeps DEF BTypeOK
<1>5. CASE ~(pc \in Conversing \ {"pclose"})
  <2>1. /\ Tooled' /\ RowsRight' /\ InPlace' /\ CellsRight' /\ TestsRight'
        /\ File' = File /\ T' = T
    BY <1>2, ChildOnlySame
  <2>2. Agrees(File, T)' <=> Agrees(File, T)
    BY <1>1, <2>1, SaidHere
  <2>3. pc \notin {"command", "banner", "banner_2", "compare", "copy"}
    BY <1>5 DEF Conversing
  <2>4. Conversation'
    BY <1>1, <1>5, <2>1, <2>2, <2>3 DEF BInv, Conversation
  <2> QED BY <1>3, <2>1, <2>4 DEF BInv
<1>6. CASE pc \in Conversing \ {"pclose"} /\ ~(child.state # "none" /\ pc # "killed")
  BY <1>6 DEF BInv, Conversation, Stream, Conversing
<1> QED BY <1>4, <1>5, <1>6

LEMMA BInvStep == ASSUME BInv, BuildNext PROVE BInv'
<1>1. CASE RunFile
  BY <1>1, CompileKeeps, OpenForWritingKeeps, OpenForReadingKeeps, CommandKeeps, SkipBannerKeeps,
     CompareKeeps, EndOfReferenceKeeps, CopyKeeps, WaitKeeps DEF RunFile
<1>2. CASE Driver
  BY <1>1, <1>2, MainKeeps, OpenExamplesKeeps, NextEntryKeeps, TableKeeps DEF Driver
<1>3. CASE Child
  BY <1>3, ExecKeeps, ReadCommandKeeps, WriteKeeps, FinishKeeps DEF Child
<1> QED BY <1>2, <1>3, MainKeeps DEF BuildNext

LEMMA TableIsTrue == ASSUME BInv PROVE TableTrue
<1>1. SUFFICES ASSUME pc = "table"
               PROVE  /\ {"gal", "fishc"} \subseteq tools
                      /\ \A k \in DOMAIN entries : entries[k] \in Examples =>
                           \E i \in DOMAIN names :
                             /\ \A r \in DOMAIN names : names[r] = entries[k] <=> r = i
                             /\ \A j \in DOMAIN Targets : Cell(i, j)
  BY DEF TableTrue
<1>2. pc \in Looping /\ DOMAIN Targets = 1 .. 4
  BY <1>1 DEF Looping, Targets
<1>3. /\ names \in [1 .. Len(entries) -> FileNames \cup {NoName}]
      /\ \A i \in 1 .. Len(entries) : i > row => names[i] \notin Examples
      /\ \A k \in 1 .. at - 1 : entries[k] \in Examples => \E i \in 1 .. row - 1 : names[i] = entries[k]
      /\ \A i, j \in 1 .. row - 1 : names[i] = names[j] => i = j
      /\ row <= at
  BY <1>2 DEF BInv, RowsRight
<1>4. /\ ~options.gen_test /\ at = Len(entries) + 1 /\ row \in Nat \ {0} /\ Len(entries) \in Nat
      /\ DOMAIN entries = 1 .. Len(entries) /\ (row <= Len(entries) => names[row] \notin Examples)
  BY <1>1, EntriesTyped DEF BInv, BTypeOK, InPlace
<1>5. ASSUME NEW k \in DOMAIN entries, entries[k] \in Examples
      PROVE  \E i \in DOMAIN names :
               /\ \A r \in DOMAIN names : names[r] = entries[k] <=> r = i
               /\ \A j \in DOMAIN Targets : Cell(i, j)
  <2>1. PICK i \in 1 .. row - 1 : names[i] = entries[k]
    BY <1>3, <1>4, <1>5
  <2>2. i \in 1 .. Len(entries) /\ i < row
    BY <1>3, <1>4
  <2>3. ASSUME NEW r \in 1 .. Len(entries), names[r] = entries[k] PROVE r = i
    <3>1. r < row
      BY <1>3, <1>4, <1>5, <2>3
    <3> QED BY <1>3, <1>4, <2>1, <2>3, <3>1
  <2>4. \A j \in 1 .. 4 : Cell(i, j)
    BY <1>2, <1>4, <2>2 DEF BInv, CellsRight
  <2> QED BY <1>2, <1>3, <2>1, <2>2, <2>3, <2>4
<1> QED BY <1>2, <1>5 DEF BInv, Tooled

LEMMA TestsAreWritten == ASSUME BInv PROVE TestsWritten
<1>1. SUFFICES ASSUME pc = "next_entry", at > Len(entries), options.gen_test, refused = 0,
                      NEW k \in DOMAIN entries, NEW j \in DOMAIN Targets,
                      entries[k] \in Examples, BuiltLast(entries[k], j, Len(Targets))
               PROVE  test[entries[k]] = Written(entries[k], Targets[j])
  BY DEF TestsWritten
<1>2. pc \in Looping /\ DOMAIN Targets = 1 .. 4 /\ Len(Targets) = 4
  BY <1>1 DEF Looping, Targets
<1>3. k \in 1 .. at - 1
  BY <1>1, EntriesTyped DEF BInv, BTypeOK
<1>4. Left(entries[k], 4)
  BY <1>1, <1>2, <1>3 DEF BInv, TestsRight
<1> QED BY <1>1, <1>2, <1>4 DEF Left

(* Whatever the examples print, everywhere, and for every pipe and            *)
(* interleaving: the printed table has one row for each example, its cells    *)
(* say what the present programs do against the present tests, and gen-test  *)
(* leaves in each test what the example's last target prints.                *)
THEOREM DriverTruthful == BuildSpec => []Truthful
<1>1. BuildInit => BInv
  BY BInvInit
<1>2. BInv /\ [BuildNext]_bvars => BInv'
  BY BInvStep, BInvStutter
<1>3. BInv => Truthful
  BY TableIsTrue, TestsAreWritten DEF Truthful
<1> QED BY <1>1, <1>2, <1>3, PTL DEF BuildSpec
=============================================================================
