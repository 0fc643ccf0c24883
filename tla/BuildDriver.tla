----------------------------- MODULE BuildDriver -----------------------------
(***************************************************************************)
(* src/build.c: builds the compiler and the PDP-8 assembler, and builds and  *)
(* tests the examples for every target.  The driver is one process; the     *)
(* program it tests (or the PDP-8 emulator) is another, which writes into a  *)
(* pipe the driver reads from.                                              *)
(*                                                                         *)
(* What the compilers, emulators and examples do is not src/build.c: which   *)
(* targets an example builds for, what it prints there and how it ends is    *)
(* its entry in source.                                                    *)
(***************************************************************************)
EXTENDS Naturals, Sequences, FiniteSets

CONSTANTS
  Characters,   \* what a program may print
  FileNames,    \* names of files
  Directories,  \* what readdir() may answer: sequences of file names
  Examples,     \* the names that end in .fsh
  Sources,      \* what the examples may be: functions to records builds, prints, ends
  FirstTests,   \* what their .test files may hold: functions to sequences of characters
  Upper(_),     \* toupper()
  Banner,       \* what the emulator prints before it reads a command
  Goodbye,      \* and after the program has run
  PipeSize,     \* characters a pipe holds
  FileSize,     \* bound: characters the disk takes of one output; putc() is not checked
  MaxRefused,   \* bound: how often the system refuses a descriptor or a process
  MaxCalls      \* bound: how often the driver is called

Targets == <<"ppc", "x86_32", "mips", "pdp8">>
TargetNames == {Targets[i] : i \in DOMAIN Targets}
Absent == <<"absent">>                             \* no file; no program prints this
NoName == "nothing"                               \* an empty row
NoResult == [t \in DOMAIN Targets |-> "ok"]         \* the arena's zeros: STATUS_OK

(* What an example may be; one that goes on for ever has printed something. *)
Behaviours ==
  {p \in [builds : SUBSET TargetNames, ends : {"exits", "spins", "repeats"},
          prints : [TargetNames -> Seq(Characters)]] :
     p.ends = "repeats" => \A t \in TargetNames : p.prints[t] # <<>>}

(* No name is empty and a directory has each once; the emulator greets with    *)
(* the two lines that build.c:263 skips.                                    *)
TwoLines(text) ==
  \E first \in 1 .. Len(text) - 1 : \A i \in DOMAIN text : text[i] = "nl" <=> i \in {first, Len(text)}

ASSUME BuildAssumption ==
  /\ Examples \subseteq FileNames \ {NoName} /\ "absent" \notin Characters
  /\ \A files \in Directories :
       files \in Seq(FileNames) /\ \A i, j \in DOMAIN files : files[i] = files[j] => i = j
  /\ Sources \subseteq [Examples -> Behaviours]
  /\ FirstTests \subseteq [Examples -> Seq(Characters) \cup {Absent}]
  /\ Banner \in Seq(Characters) /\ TwoLines(Banner) /\ Goodbye \in Seq(Characters)
  /\ PipeSize \in Nat \ {0} /\ FileSize \in Nat /\ MaxRefused \in Nat /\ MaxCalls \in Nat

VARIABLES
  entries,  \* the directory examples/
  source,   \* what each example is
  test,     \* the .test file of each example, or Absent
  tools,    \* the tools built from the present sources
  emulator, \* is the PDP-8 emulator installed?
  refused,  \* how often the system has refused a descriptor or a process
  calls, options, pc,
  at, row, target, names, results,      \* build_examples()
  expected, status,                     \* run_file(): the reference stream, what it will return
  child,    \* the other process: state, what it has yet to print, is it read from
  pipe      \* what it has printed and the driver has not read

fixed == <<entries, source, tools, emulator>>
disk == <<fixed, test, refused>>
loop == <<at, row, target, names, results>>
io   == <<expected, status, child, pipe>>
bvars == <<disk, calls, options, pc, loop, io>>

NoChild == [state |-> "none", left |-> <<>>, read |-> FALSE]
None == [run |-> FALSE, gen_test |-> FALSE, other |-> "none"]

BuildInit ==
  /\ entries \in Directories
  /\ source \in Sources /\ test \in FirstTests
  /\ emulator \in BOOLEAN /\ refused = 0
  /\ tools = {} /\ calls = 0 /\ options = None /\ pc = "idle"
  /\ at = 1 /\ row = 1 /\ target = 1 /\ names = <<>> /\ results = <<>>
  /\ expected = <<>> /\ status = "ok" /\ child = NoChild /\ pipe = <<>>

-----------------------------------------------------------------------------
(* main().  Between two calls somebody may change the sources.              *)
Start ==
  /\ pc = "idle" /\ calls < MaxCalls /\ calls' = calls + 1
  /\ options' \in [run : BOOLEAN, gen_test : BOOLEAN, other : {"none", "help", "wrong"}]
  /\ pc' = "rebuild_myself" /\ UNCHANGED <<disk, loop, io>>

Edit ==
  /\ pc = "idle" /\ calls \in 1 .. MaxCalls - 1
  /\ source' \in Sources \ {source}
  /\ tools' = {} /\ UNCHANGED <<entries, test, emulator, refused, calls, options, pc, loop, io>>

(* One system() of a C compiler: it may fail, and main() returns then.       *)
Builds(here, tool, next) ==
  /\ pc = here
  /\ \/ tools' = tools \cup {tool} /\ pc' = next
     \/ tools' = tools /\ pc' = "idle"
  /\ UNCHANGED <<entries, source, test, emulator, refused, calls, options, loop, io>>

RebuildMyself == Builds("rebuild_myself", "build", "options")
BuildGal == Builds("build_gal", "gal", "build_fishc")
BuildCompiler ==
  Builds("build_fishc", "fishc",
         IF options.run \/ options.gen_test THEN "build_examples" ELSE "idle")

Options ==
  /\ pc = "options" /\ pc' = IF options.other = "none" THEN "create_dir" ELSE "idle"
  /\ UNCHANGED <<disk, calls, options, loop, io>>

(* .build, .build/targets and .build/.gitignore, each of which may fail.      *)
CreateDirs ==
  /\ pc = "create_dir" /\ pc' \in {"build_gal", "idle"}
  /\ UNCHANGED <<disk, calls, options, loop, io>>

-----------------------------------------------------------------------------
(* build_examples().  Every entry gets a row, entries that are no example     *)
(* leave it to the next one.                                                *)
OpenExamples ==
  /\ pc = "build_examples" /\ pc' \in {"next_entry", "idle"}
  /\ at' = 1 /\ row' = 1 /\ target' = 1
  /\ names' = [i \in DOMAIN entries |-> NoName] /\ results' = [i \in DOMAIN entries |-> NoResult]
  /\ UNCHANGED <<disk, calls, options, io>>

NextEntry ==
  /\ pc = "next_entry" /\ at <= Len(entries)
  /\ names' = [names EXCEPT ![row] = entries[at]]
  /\ IF entries[at] \in Examples
     THEN target' = 1 /\ pc' = "compile" /\ at' = at
     ELSE at' = at + 1 /\ UNCHANGED <<target, pc>>
  /\ UNCHANGED <<disk, calls, options, row, results, io>>

EndOfEntries ==
  /\ pc = "next_entry" /\ at > Len(entries)
  /\ pc' = IF options.gen_test THEN "idle" ELSE "table"
  /\ UNCHANGED <<disk, calls, options, loop, io>>

PrintTable == pc = "table" /\ pc' = "idle" /\ UNCHANGED <<disk, calls, options, loop, io>>

(* run_file() returns.                                                     *)
Return(result) ==
  /\ results' = [results EXCEPT ![row][target] = result]
  /\ IF target < Len(Targets)
     THEN target' = target + 1 /\ pc' = "compile" /\ UNCHANGED <<at, row>>
     ELSE target' = 1 /\ pc' = "next_entry" /\ at' = at + 1 /\ row' = row + 1
  /\ UNCHANGED <<calls, options, names>>
Goto(next) == pc' = next /\ UNCHANGED <<calls, options, loop>>

-----------------------------------------------------------------------------
(* run_file().                                                             *)
File == entries[at]
T == Targets[target]
Program == source[File]
NoIO == UNCHANGED io
Refusal == refused < MaxRefused /\ refused' = refused + 1

Compile ==
  /\ pc = "compile"
  /\ \/ T \in Program.builds /\ Goto("open_test") /\ UNCHANGED disk
     \/ T \notin Program.builds /\ Return("build_fail") /\ UNCHANGED disk
     \/ Refusal /\ Return("build_fail") /\ UNCHANGED <<fixed, test>>
  /\ NoIO

Running(prints) == [state |-> "running", left |-> prints, read |-> TRUE]

(* popen(): refused, it leaves a null pointer that the next getc() reads.     *)
Popen(next) ==
  \/ Goto(next) /\ child' = Running(Program.prints[T]) /\ pipe' = <<>> /\ UNCHANGED refused
  \/ Refusal /\ Goto("crashed") /\ UNCHANGED <<child, pipe>>

(* Opening the test for writing empties it, whatever comes then; that it     *)
(* opens is asserted.                                                       *)
OpenForWriting ==
  /\ pc = "open_test" /\ options.gen_test /\ UNCHANGED fixed
  /\ \/ /\ test' = [test EXCEPT ![File] = <<>>] /\ expected' = <<>> /\ status' = "ok"
        /\ IF T = "pdp8" THEN Return("no_test") /\ UNCHANGED <<child, pipe, refused>> ELSE Popen("copy")
     \/ Refusal /\ Goto("crashed") /\ UNCHANGED <<test, io>>

(* pipe() and fork() for the emulator; popen() for the others.               *)
Fork ==
  \/ /\ Goto("command") /\ pipe' = <<>> /\ UNCHANGED refused
     /\ child' = [NoChild EXCEPT !.state = "forked", !.read = TRUE]
  \/ Refusal /\ Return("build_fail") /\ UNCHANGED <<child, pipe>>

OpenForReading ==
  /\ pc = "open_test" /\ ~options.gen_test /\ UNCHANGED <<fixed, test>>
  /\ \/ test[File] = Absent /\ Return("no_test") /\ NoIO /\ UNCHANGED refused
     \/ test[File] # Absent /\ Refusal /\ Return("no_test") /\ NoIO
     \/ /\ test[File] # Absent /\ expected' = test[File] /\ status' = "ok"
        /\ IF T = "pdp8" THEN Fork ELSE Popen("compare")

(* "load, run, quit" into the pipe of a child that may be gone: SIGPIPE.      *)
Command ==
  /\ pc = "command" /\ Goto(IF child.state = "ended" THEN "killed" ELSE "banner")
  /\ UNCHANGED disk /\ NoIO

EndOfFile == pipe = <<>> /\ child.state = "ended"
Read == pipe # <<>> /\ pipe' = Tail(pipe) /\ UNCHANGED child

(* Two lines, or all there is.                                              *)
SkipBanner ==
  /\ pc \in {"banner", "banner_2"} /\ UNCHANGED <<disk, expected, status>>
  /\ \/ EndOfFile /\ Goto("compare") /\ UNCHANGED <<child, pipe>>
     \/ Read /\ Goto(IF Head(pipe) # "nl" THEN pc
                     ELSE IF pc = "banner" THEN "banner_2" ELSE "compare")

(* Plausible bug: the child is waited for before the pipe is closed.         *)
WaitThenClose(verdict) ==
  IF T = "pdp8"
  THEN child' = NoChild /\ pipe' = <<>> /\ Return(verdict) /\ UNCHANGED status
  ELSE status' = verdict /\ Goto("pclose") /\ UNCHANGED <<child, pipe>>

(* fclose() of the pipe, and for popen() a wait for the child.  The emulator  *)
(* is left to itself, what it still does is not followed.                   *)
CloseWith(verdict) ==
  IF T = "pdp8"
  THEN child' = NoChild /\ pipe' = <<>> /\ Return(verdict) /\ UNCHANGED status
  ELSE child' = [child EXCEPT !.read = FALSE] /\ pipe' = <<>> /\ status' = verdict /\ Goto("pclose")

(* The comparison, one character of the reference at a time; carriage        *)
(* returns of the emulator are passed over.                                 *)
AtReturn == T = "pdp8" /\ pipe # <<>> /\ Head(pipe) = "cr"

SkipReturn ==
  /\ pc = "compare" /\ expected # <<>> /\ AtReturn
  /\ Read /\ Goto("compare") /\ UNCHANGED <<disk, expected, status>>

(* Plausible bug: the emulator's capitals are forgotten.                    *)
SameCase(c1, c2) == c2 = c1
Same(c1, c2) == c2 = IF T = "pdp8" THEN Upper(c1) ELSE c1

Compare ==
  /\ pc = "compare" /\ expected # <<>> /\ ~AtReturn /\ UNCHANGED disk
  /\ \/ /\ Read /\ Same(Head(expected), Head(pipe)) /\ Goto("compare")
        /\ expected' = Tail(expected) /\ UNCHANGED status
     \/ /\ \/ EndOfFile
           \/ pipe # <<>> /\ ~Same(Head(expected), Head(pipe))
        /\ CloseWith("wrong_output") /\ expected' = <<>>

EndOfReference ==
  /\ pc = "compare" /\ expected = <<>> /\ CloseWith("ok") /\ UNCHANGED <<disk, expected>>

(* gen-test: the output becomes the test when the file is closed.            *)
Copy ==
  /\ pc = "copy" /\ UNCHANGED <<fixed, refused>>
  /\ \/ /\ Read /\ expected' = expected \o IF Len(expected) < FileSize THEN <<Head(pipe)>> ELSE <<>>
        /\ Goto("copy") /\ UNCHANGED <<test, status>>
     \/ /\ EndOfFile /\ CloseWith("ok")
        /\ test' = [test EXCEPT ![File] = expected] /\ expected' = <<>>

Wait ==
  /\ pc = "pclose" /\ child.state = "ended"
  /\ Return(status) /\ child' = NoChild /\ UNCHANGED <<disk, expected, status, pipe>>

RunFile == \/ Compile \/ OpenForWriting \/ OpenForReading \/ Command \/ SkipBanner
           \/ SkipReturn \/ Compare \/ EndOfReference \/ Copy \/ Wait
Driver == \/ RebuildMyself \/ Options \/ CreateDirs \/ BuildGal \/ BuildCompiler
          \/ OpenExamples \/ NextEntry \/ EndOfEntries \/ PrintTable \/ RunFile

-----------------------------------------------------------------------------
(* The other process.  A forked child becomes the emulator or, without one,   *)
(* exits; the emulator runs the program once it has read the command.        *)
ChildOnly == UNCHANGED <<disk, calls, options, pc, loop, expected, status>>

Exec ==
  /\ child.state = "forked"
  /\ child' = IF emulator THEN [child EXCEPT !.state = "waiting", !.left = Banner]
              ELSE [child EXCEPT !.state = "ended"]
  /\ UNCHANGED pipe /\ ChildOnly

ReadCommand ==
  /\ child.state = "waiting" /\ child.left = <<>> /\ pc # "command"
  /\ child' = [child EXCEPT !.state = "running",
                 !.left = Program.prints[T] \o IF Program.ends = "exits" THEN Goodbye ELSE <<>>]
  /\ UNCHANGED pipe /\ ChildOnly

(* What it writes next; a program that never ends may go on for ever.        *)
Next1 == IF child.left # <<>> THEN <<Head(child.left)>>
         ELSE IF child.state = "running" /\ Program.ends = "repeats"
              THEN <<Program.prints[T][Len(Program.prints[T])]>> ELSE <<>>

Write ==
  /\ child.state \in {"waiting", "running"} /\ Next1 # <<>>
  /\ \/ /\ child.read /\ Len(pipe) < PipeSize /\ pipe' = pipe \o Next1
        /\ child' = [child EXCEPT !.left = IF @ = <<>> THEN @ ELSE Tail(@)]
     \/ ~child.read /\ child' = [child EXCEPT !.state = "ended"] /\ UNCHANGED pipe
  /\ ChildOnly

Finish ==
  /\ child.state = "running" /\ child.left = <<>> /\ Program.ends = "exits"
  /\ child' = [child EXCEPT !.state = "ended"] /\ UNCHANGED pipe /\ ChildOnly

Child == Exec \/ ReadCommand \/ Write \/ Finish

BuildNext == Start \/ Edit \/ Driver \/ Child

(* Both processes run on; nobody has to call the driver.                    *)
BuildSpec == BuildInit /\ [][BuildNext]_bvars /\ WF_bvars(Driver) /\ WF_bvars(Child)

-----------------------------------------------------------------------------
(* What comes out when an example runs on a target.  On the PDP-8 it is the    *)
(* emulator that writes, and first its banner; a program that goes on for     *)
(* ever repeats its last character.                                         *)
Lead(t) == IF t = "pdp8" /\ emulator THEN Banner ELSE <<>>
Said(f, t) ==
  IF t # "pdp8" THEN source[f].prints[t]
  ELSE IF ~emulator THEN <<>>
  ELSE Banner \o (source[f].prints[t] \o IF source[f].ends = "exits" THEN Goodbye ELSE <<>>)
GoesOn(f, t) == source[f].ends = "repeats" /\ (t = "pdp8" => emulator)
Char(f, t, x) == Said(f, t)[IF x > Len(Said(f, t)) THEN Len(Said(f, t)) ELSE x]

(* Which of the first x characters count: not the banner, and on the PDP-8 no  *)
(* carriage return.                                                         *)
Heard(f, t, x) ==
  {y \in Len(Lead(t)) + 1 .. x :
     (y <= Len(Said(f, t)) \/ GoesOn(f, t)) /\ ~(t = "pdp8" /\ Char(f, t, y) = "cr")}
Nth(f, t, k, x) == x \in Heard(f, t, x) /\ Cardinality(Heard(f, t, x)) = k

(* The test is the output or the beginning of it, in capitals on the PDP-8;    *)
(* within so many characters all of the test is met if it ever is.           *)
Wanted(t, c) == IF t = "pdp8" THEN Upper(c) ELSE c
Agrees(f, t) ==
  \A k \in DOMAIN test[f] : \E x \in 1 .. Len(Said(f, t)) + Len(test[f]) :
    Nth(f, t, k, x) /\ Char(f, t, x) = Wanted(t, test[f][k])

Verdict(f, t) ==
  IF t \notin source[f].builds THEN "build_fail"
  ELSE IF test[f] = Absent THEN "no_test"
  ELSE IF Agrees(f, t) THEN "ok" ELSE "wrong_output"

Cell(i, j) ==
  \/ results[i][j] = Verdict(names[i], Targets[j])
  \/ refused > 0 /\ results[i][j] \in {"build_fail", "no_test"}

(* Every example of the directory has one row in the table, and its cells say *)
(* what the programs built from the present sources do: that they do not     *)
(* build, that there is no test, or whether the test is what the program     *)
(* prints or the beginning of it.  Once a descriptor or a process was         *)
(* refused, a cell may also say that there is no test or no program.         *)
TableTrue ==
  pc = "table" =>
    /\ {"gal", "fishc"} \subseteq tools
    /\ \A k \in DOMAIN entries : entries[k] \in Examples =>
         \E i \in DOMAIN names :
           /\ \A r \in DOMAIN names : names[r] = entries[k] <=> r = i
           /\ \A j \in DOMAIN Targets : Cell(i, j)

(* What gen-test writes: what the program prints, as much as the disk takes,  *)
(* and nothing for the PDP-8.                                               *)
Written(f, t) ==
  IF t = "pdp8" THEN <<>>
  ELSE IF Len(source[f].prints[t]) > FileSize THEN SubSeq(source[f].prints[t], 1, FileSize)
  ELSE source[f].prints[t]
BuiltLast(f, j, n) ==
  Targets[j] \in source[f].builds /\ \A i \in j + 1 .. n : Targets[i] \notin source[f].builds

(* After gen-test the test of every example is what its last target prints,  *)
(* and empty if that target is the PDP-8, which then makes every later       *)
(* verdict a good one.                                                      *)
TestsWritten ==
  pc = "next_entry" /\ at > Len(entries) /\ options.gen_test /\ refused = 0 =>
    \A k \in DOMAIN entries, j \in DOMAIN Targets :
      entries[k] \in Examples /\ BuiltLast(entries[k], j, Len(Targets)) =>
        test[entries[k]] = Written(entries[k], Targets[j])

Truthful == TableTrue /\ TestsWritten
=============================================================================
