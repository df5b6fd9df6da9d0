--------------------------- MODULE MCTrampolines ---------------------------
(***************************************************************************)
(* Trampolines for TLC.  Addresses have 8 bits, halves 4; a 24-bit branch  *)
(* reaches 28 bytes, a 14-bit branch 12.                                   *)
(***************************************************************************)
EXTENDS Trampolines, TLC

R(type, target, addend, fixed) ==
    [type |-> type, target |-> target, addend |-> addend, fixed |-> fixed]

(* Two slots before the branches, in reach of them; and one in reach, one   *)
(* behind the branches, which elfLinkOne takes for too far, and one too far. *)
SlotsInReach == <<48, 60>>
SlotsAround  == <<60, 84, 16>>

(* Branches of the module, one with an addend, and one to an import *)
BranchJobs ==
    "call"   :> R("REL24", 64, 0, TRUE)  @@ "call2" :> R("REL24", 76, 4, TRUE) @@
    "import" :> R("REL24", 68, 0, FALSE) @@ "loop"  :> R("REL14", 72, 0, TRUE)

ImportJobs ==
    "import" :> R("REL24", 64, 0, FALSE) @@ "import2" :> R("REL24", 68, 0, FALSE) @@
    "import3" :> R("REL24", 72, 0, FALSE)

(* Near, at both ends of the reach, misaligned, and far *)
BranchSymbols == {36, 76, 88, 92, 96, 94, 200, 250}

(* The halves of an absolute and of a relative address *)
AbsoluteJobs ==
    "ha" :> R("ADDR16_HA", 100, 0, TRUE) @@ "lo" :> R("ADDR16_LO", 104, 0, TRUE) @@
    "hi" :> R("ADDR16_HI", 108, 0, TRUE)

RelativeJobs ==
    "rha" :> R("REL16_HA", 112, 0, TRUE) @@ "rlo" :> R("REL16_LO", 116, 4, TRUE)


Modules       == {BranchJobs, AbsoluteJobs, RelativeJobs}
ImportModules == {ImportJobs}
=============================================================================
