---------------------------- MODULE Trampolines ----------------------------
(***************************************************************************)
(* ElfUtils::elfLinkOne as a whole (source/library/ElfUtils.cpp:25-167):   *)
(* at every launch the relocations of a module are linked once each, in    *)
(* any order, and a 24-bit branch that cannot reach its destination        *)
(* borrows a slot of the caller's trampoline buffer.                       *)
(***************************************************************************)
EXTENDS ElfLink, FiniteSets

CONSTANTS
    JobLists,   \* modules: per place, its type, target, addend and whether
                \* its symbol is the module's own (fixed) or an import's
    Symbols,    \* the addresses symbols may have
    NSlots,     \* trampoline_data_length
    SlotAddr    \* [1..NSlots -> address of the slot's first instruction]

ASSUME JobAssumption ==
    /\ \A list \in JobLists : \A j \in DOMAIN list :
            list[j].target \in Nat /\ list[j].addend \in Int /\ list[j].fixed \in BOOLEAN
    /\ Symbols \subseteq 0..(WORD - 1)

(* The buffer is an array of the caller's, apart from what symbols name. *)
ASSUME SlotAssumption ==
    /\ NSlots \in Nat
    /\ SlotAddr \in [1..NSlots -> 0..(WORD - 1)]
    /\ \A s, t \in 1..NSlots : SlotAddr[s] = SlotAddr[t] => s = t
    /\ \A s \in 1..NSlots : SlotAddr[s] \notin Symbols

VARIABLES
    job,        \* the module's relocations
    field,      \* per place: the relocated bits
    ctr,        \* per place: bit 0x00400000 of the instruction (see Store)
    goal,       \* per place: the address its last successful link was for
    status,     \* per slot: RELOC_TRAMP_FREE, _FIXED or _IMPORT_DONE
    dest,       \* per slot: the address its four instructions jump to
    done        \* the places this launch has been through

vars == <<job, field, ctr, goal, status, dest, done>>
slots == <<status, dest>>

Jobs == DOMAIN job

Unlinked == -1

Init ==
    /\ job \in JobLists
    /\ field = [j \in Jobs |-> 0]
    /\ ctr = [j \in Jobs |-> 1]
    /\ goal = [j \in Jobs |-> Unlinked]
    /\ status = [s \in 1..NSlots |-> "FREE"]
    /\ dest = [s \in 1..NSlots |-> 0]
    /\ done = {}

(* The store at the target.  REL14 masks the old instruction with           *)
(* 0xFFBF0003, which clears bit 0x00400000 besides the displacement.        *)
Store(j, bits) ==
    /\ field' = [field EXCEPT ![j] = bits]
    /\ ctr' = IF job[j].type = "REL14" THEN [ctr EXCEPT ![j] = 0] ELSE ctr

Refused == UNCHANGED <<field, ctr, goal>>

(* Everything but a far 24-bit branch *)
LinkDirect(j, symbol) ==
    LET r == job[j]
        value == Wrap(symbol + r.addend)
    IN  IF LinksDirectly(r.type, r.target, value)
        THEN /\ IF r.type \in NoOpTypes
                THEN UNCHANGED <<field, ctr>>
                ELSE Store(j, Field(r.type, r.target, value))
             /\ goal' = [goal EXCEPT ![j] = value]
        ELSE Refused

(* The slots the search may take: free, or used for an import *)
BugReusable == 1..NSlots
Reusable == {s \in 1..NSlots : status[s] \in {"FREE", "IMPORT_DONE"}}

BugReached(target, slot) == TRUE
Reached(target, slot) == Wrap(target - slot) <= NEAR24

(* A far 24-bit branch with a trampoline buffer takes the first such slot.  *)
(* The slot is filled before the new distance is tested, and the addend     *)
(* counts a second time.                                                    *)
FillSlot(j, slot, value) ==
    LET r == job[j]
        d == Distance(r.target, SlotAddr[slot] + r.addend)
    IN  /\ dest' = [dest EXCEPT ![slot] = value]
        /\ status' = [status EXCEPT ![slot] = IF r.fixed THEN "FIXED" ELSE "IMPORT_DONE"]
        /\ IF FitsField("REL24", d)
           THEN /\ Store(j, d % Span("REL24"))
                /\ goal' = [goal EXCEPT ![j] = value]
           ELSE Refused

LinkFar(j, symbol) ==
    \/ Reusable = {} /\ Refused /\ UNCHANGED slots
    \/ \E slot \in Reusable :
          /\ \A s \in Reusable : slot <= s
          /\ IF Reached(job[j].target, SlotAddr[slot])
             THEN FillSlot(j, slot, Wrap(symbol + job[j].addend))
             ELSE Refused /\ UNCHANGED slots

(* elfLinkOne; buffered tells whether the caller passes trampoline_data *)
LinkOne(j, symbol, buffered) ==
    LET r == job[j]
        far == /\ r.type = "REL24"
               /\ TooFar("REL24", Distance(r.target, Wrap(symbol + r.addend)))
    IN  /\ j \notin done /\ UNCHANGED job
        /\ done' = done \cup {j}
        /\ \/ far /\ buffered /\ LinkFar(j, symbol)
           \/ ~(far /\ buffered) /\ LinkDirect(j, symbol) /\ UNCHANGED slots

(* The caller: the next launch of the application links everything again *)
Launch ==
    /\ done' = {}
    /\ UNCHANGED <<job, field, ctr, goal, status, dest>>

Next ==
    \/ \E j \in Jobs, symbol \in Symbols, buffered \in BOOLEAN :
            LinkOne(j, symbol, buffered)
    \/ Launch

Spec == Init /\ [][Next]_vars

-----------------------------------------------------------------------------
TypeOK ==
    /\ job \in JobLists
    /\ field \in [Jobs -> 0..(WORD - 1)]
    /\ ctr \in [Jobs -> {0, 1}]
    /\ goal \in [Jobs -> {Unlinked} \cup 0..(WORD - 1)]
    /\ status \in [1..NSlots -> {"FREE", "FIXED", "IMPORT_DONE"}]
    /\ dest \in [1..NSlots -> 0..(WORD - 1)]
    /\ done \subseteq Jobs

Goes(j) == BranchTarget(job[j].type, job[j].target, field[j])

(* Where a branch ends up: at its target, or where the slot it hits jumps *)
Lands(j) ==
    LET hit == {s \in 1..NSlots : SlotAddr[s] = Goes(j)}
    IN  IF hit = {} THEN Goes(j) ELSE dest[CHOOSE s \in hit : TRUE]

Linked(type) == {j \in Jobs : job[j].type = type /\ goal[j] # Unlinked}

(* A linked branch of the module itself goes to the address it was linked   *)
(* for, or to a slot that jumps there and is kept for good, whatever was    *)
(* linked after it.  It enters the slot at its first instruction, or as far *)
(* behind it as its addend says, which is none for most branches.           *)
FixedBranchesLand == \A j \in Linked("REL14") \cup Linked("REL24") : job[j].fixed =>
    \/ Goes(j) = goal[j]
    \/ \E s \in 1..NSlots : /\ status[s] = "FIXED" /\ dest[s] = goal[j]
                           /\ Goes(j) = Wrap(SlotAddr[s] + job[j].addend)

(* A branch to an import ends where it was linked to: the slots of imports  *)
(* are reused only by the next launch (comment at ElfUtils.cpp:102-107).    *)
ImportBranchesLand == \A j \in Linked("REL24") \cap done :
    ~ job[j].fixed /\ job[j].addend = 0 => Lands(j) = goal[j]

(* The halves of an address linked separately make up the address again,    *)
(* absolute or relative to the place (lines 42-50 and 58-66).               *)
AddressesRebuilt ==
    /\ \A lo \in Linked("ADDR16_LO") :
        /\ \A ha \in Linked("ADDR16_HA") :
              goal[ha] = goal[lo] => AddPair(field[ha], field[lo]) = goal[lo]
        /\ \A hi \in Linked("ADDR16_HI") :
              goal[hi] = goal[lo] => OrPair(field[hi], field[lo]) = goal[lo]
    /\ \A ha \in Linked("REL16_HA"), lo \in Linked("REL16_LO") :
        Wrap(goal[ha] - job[ha].target) = Wrap(goal[lo] - job[lo].target)
          => Wrap(job[ha].target + AddPair(field[ha], field[lo])) = goal[ha]

(* A slot is given away only if no branch of the module itself relies on    *)
(* it, and only to a branch that then goes there: none is used up by a      *)
(* relocation that is refused afterwards, for the test of the slot (line    *)
(* 119) foresees the ones of the new distance (145-158).  With an addend or *)
(* an odd place it does not.                                                *)
SlotsServeBranches ==
    [][\A s \in 1..NSlots : <<status'[s], dest'[s]>> # <<status[s], dest[s]>> =>
          /\ status[s] # "FIXED"
          /\ \E j \in done' \ done :
                job[j].addend = 0 /\ (SlotAddr[s] - job[j].target) % 4 = 0
                  => goal'[j] = dest'[s] /\ Goes(j)' = SlotAddr[s]]_vars

(* A relocation of a 14-bit branch changes no bit outside PPC_LOW14, the    *)
(* mask 0x0020FFFC that ElfUtils.h:54 gives for its target.                 *)
OnlyLow14Changes == \A j \in Jobs : job[j].type = "REL14" => ctr[j] = 1
=============================================================================
