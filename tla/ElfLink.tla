------------------------------ MODULE ElfLink ------------------------------
(***************************************************************************)
(* The arithmetic of ElfUtils::elfLinkOne (source/library/ElfUtils.cpp):   *)
(* what one PowerPC relocation stores, and when a branch is refused.       *)
(*                                                                         *)
(* The numbers are those of the code with their sizes as parameters:       *)
(* WORD is 2^32, HALF 2^16, NEAR24 0x1FFFFFC and NEAR14 0x7FFC, the        *)
(* largest distances a relative branch may have.                           *)
(***************************************************************************)
EXTENDS Integers

CONSTANTS WORD, HALF, NEAR24, NEAR14

ASSUME WidthAssumption ==
    /\ WORD \in Nat \ {0} /\ HALF \in Nat \ {0} /\ WORD = HALF * HALF /\ HALF % 2 = 0
    /\ NEAR24 \in Nat /\ NEAR14 \in Nat
    /\ NEAR14 % 4 = 0 /\ NEAR24 % 4 = 0
    /\ NEAR14 <= NEAR24 /\ 2 * (NEAR24 + 4) < WORD

(* What elfLinkOne does with a relocation type.  (DTPMOD32 is accepted and *)
(* not carried out: "IMPLEMENT ME", line 52.)                              *)
WordTypes   == {"ADDR32", "DTPREL32"}
HalfTypes   == {"ADDR16_LO", "ADDR16_HI", "ADDR16_HA",
                "REL16_LO", "REL16_HI", "REL16_HA"}
NoOpTypes   == {"NONE", "DTPMOD32"}
BranchTypes == {"REL14", "REL24"}
KnownTypes  == WordTypes \cup HalfTypes \cup NoOpTypes \cup BranchTypes

(* Operators named Bug... are mutated forms of the definition that follows  *)
(* them, each a slip the code could have; nothing uses them.                *)
Wrap(x)   == x % WORD
Signed(x) == IF Wrap(x) < WORD \div 2 THEN Wrap(x) ELSE Wrap(x) - WORD

(* int32 value - target.  Where the C++ subtraction overflows the build's  *)
(* two's complement instruction wraps.                                     *)
Distance(target, value) == Signed(value - target)

Lo(x) == Wrap(x) % HALF
BugHi(x) == x \div HALF
Hi(x) == Wrap(x) \div HALF
BugHa(x) == Hi(x)
Ha(x) == Hi(x + HALF \div 2)

(* A branch is refused when it is too far, is not a multiple of four, or   *)
(* does not fit its field: lines 69-83 and 94-157.                         *)
Near(type) == IF type = "REL14" THEN NEAR14 ELSE NEAR24
Span(type) == 2 * (Near(type) + 4)    \* the values of the displacement field

TooFar(type, d) == d > Near(type) \/ d < - Near(type)
FitsField(type, d) == d % 4 = 0 /\ - (Near(type) + 4) <= d /\ d < Near(type) + 4

(* Does elfLinkOne without trampolines, as the loader calls it, succeed? *)
LinksDirectly(type, target, value) ==
    /\ type \in KnownTypes
    /\ type \in BranchTypes =>
          /\ ~ TooFar(type, Distance(target, value))
          /\ FitsField(type, Distance(target, value))

(* The bits a successful link stores at the target *)
Field(type, target, value) ==
    CASE type \in WordTypes   -> Wrap(value)
      [] type = "ADDR16_LO"   -> Lo(value)
      [] type = "ADDR16_HI"   -> Hi(value)
      [] type = "ADDR16_HA"   -> Ha(value)
      [] type = "REL16_LO"    -> Lo(value - target)
      [] type = "REL16_HI"    -> Hi(value - target)
      [] type = "REL16_HA"    -> Ha(value - target)
      [] type \in BranchTypes -> Distance(target, value) % Span(type)

(* How the processor reads a field back: sign-extended *)
SignExtend(field, span) == IF field < span \div 2 THEN field ELSE field - span

BranchTarget(type, target, field) == Wrap(target + SignExtend(field, Span(type)))

(* lis rX, ha; addi rX, rX, lo   and   lis rX, hi; ori rX, rX, lo *)
AddPair(ha, lo) == Wrap(ha * HALF + SignExtend(lo, HALF))
OrPair(hi, lo)  == hi * HALF + lo
=============================================================================
