------------------------------ MODULE Targets ------------------------------
(***************************************************************************)
(* The switch at the end of compile() in src/src/main.c: one of the back    *)
(* ends writes the IR out.  (The PDP-8 and the printing back ends are not    *)
(* here.)                                                                  *)
(***************************************************************************)
EXTENDS BackEnd

CONSTANT Units      \* the IRs to write out, for each target to use

ASSUME TargetsAssumption == DOMAIN Units \subseteq {"x86_32", "mips", "ppc"}

VARIABLE target

X86_32 == INSTANCE X86
Mips == INSTANCE MIPS
PowerPC == INSTANCE PPC

(* The IRs are as BackEndReady finds those of the compiler.                *)
ASSUME UnitsAssumption ==
  \A t \in DOMAIN Units : \A ir \in Units[t] :
    /\ ir \in IRs /\ \A k \in DOMAIN ir : Paired(ir[k].code)
    /\ t = "mips" => \A k \in DOMAIN ir : Mips!Supported(ir[k])
    /\ t = "ppc" => \A k \in DOMAIN ir : PowerPC!Supported(ir[k])

tvars == <<bvars, target>>

Init == target \in DOMAIN Units /\ BackEndInit(Units[target])

Next ==
  /\ \/ target = "x86_32" /\ X86_32!Next
     \/ target = "mips" /\ Mips!Next
     \/ target = "ppc" /\ PowerPC!Next
  /\ UNCHANGED target

Spec == Init /\ [][Next]_tvars

abi == CASE target = "x86_32" -> X86_32!abi
         [] target = "mips" -> Mips!abi
         [] target = "ppc" -> PowerPC!abi

-----------------------------------------------------------------------------
(* The asserts on the number of scratch registers hold.                    *)
ScratchSuffices == status # "aborted"

(* Where a jump leaves or arrives, and in front of the epilogue.            *)
AtJump ==
  \/ AtEpilogue
  \/ AtInstruction /\ func[j].function \in {"LABEL", "GOTO", "BIZ", "EXIT"}

(* What the back ends track along the text is right wherever execution may   *)
(* come from elsewhere: the distance frame of x86.c is the whole frame, no   *)
(* argument of a call is counted, and nothing is in scratch registers but    *)
(* what a PowerPC prologue left there.                                     *)
FrameTracked ==
  AtJump =>
    /\ target = "x86_32" => frame = temps_count * 4
    /\ j > 1 => register_map = <<>>
    /\ call_count = 0
=============================================================================
